--------------------------- MODULE Threads_proofs ---------------------------
(* Safety of the applications composed in Threads.  Each application has an  *)
(* inductive invariant over its own variables; a step of the whole is a step *)
(* of each application or leaves its variables alone, so each invariant is   *)
(* one of the whole.                                                         *)
EXTENDS Threads, SequenceFacts

\* One step of Threads, seen by each application.
LEMMA SceneSteps ==
  [Next]_vars => /\ [LocksNext]_lockVars /\ [HandNext]_handVars
                 /\ [SpinNext]_spinVars /\ [NotifyNext]_notifyVars
                 /\ [MuxNext]_muxVars /\ [DhcpNext]_dhcpVars
                 /\ [AsyncNext]_asyncVars
BY DEF Next, vars
-----------------------------------------------------------------------------
(* mutex and lockserver                                                      *)

LockPlaces == {"start", "locking", "critical", "unlocking", "done"}

LocksTypeOK ==
  /\ user \in [LockUsers -> LockPlaces]
  /\ message \in [LockUsers -> {"none", "lock", "unlock", "reply"}]
  /\ held \in BOOLEAN

\* The messages of a user and its server thread follow the user's place.
MessageFits ==
  \A u \in LockUsers :
    CASE user[u] = "locking"   -> message[u] \in {"lock", "reply"}
      [] user[u] = "unlocking" -> message[u] \in {"unlock", "reply"}
      [] OTHER                 -> message[u] = "none"

\* The mutex was locked for u and not yet unlocked, whether u knows or not.
Has(u) == \/ user[u] = "critical"
          \/ user[u] = "locking" /\ message[u] = "reply"
          \/ user[u] = "unlocking" /\ message[u] = "unlock"

HeldForOne ==
  /\ \A u \in LockUsers : Has(u) => held
  /\ \A u, v \in LockUsers : Has(u) /\ Has(v) => u = v

LocksInv == LocksTypeOK /\ MessageFits /\ HeldForOne

LEMMA LocksInitInv == LocksInit => LocksInv
BY DEF LocksInit, LocksInv, LocksTypeOK, LockPlaces, MessageFits, HeldForOne, Has

LEMMA LocksStepInv ==
  ASSUME LocksInv, NEW u \in LockUsers, LockStep(u)
  PROVE  LocksInv'
<1> USE DEF LocksInv, LocksTypeOK, LockPlaces, MessageFits, HeldForOne, Has
<1>1. CASE AskLock(u)      BY <1>1 DEF AskLock
<1>2. CASE AskUnlock(u)    BY <1>2 DEF AskUnlock
<1>3. CASE Serve(u)
  <2>1. CASE message[u] = "lock" /\ MutexLock
    BY <1>3, <2>1 DEF Serve, MutexLock
  <2>2. CASE message[u] = "unlock" /\ MutexUnlock
    <3>1. Has(u)
      BY <2>2
    <3>2. \A v \in LockUsers \ {u} : ~Has(v)
      BY <3>1
    <3> QED BY <1>3, <2>2, <3>2 DEF Serve, MutexUnlock
  <2> QED BY <1>3, <2>1, <2>2 DEF Serve
<1>4. CASE Answered(u)     BY <1>4 DEF Answered, Entered, Left
<1>5. CASE LocalLock(u)    BY <1>5 DEF LocalLock, MutexLock, Entered
<1>6. CASE LocalUnlock(u)
  <2>1. Has(u) /\ user[u] = "critical" /\ held' = FALSE /\ UNCHANGED message
        /\ user' = [user EXCEPT ![u] = IF rounds[u] = 1 THEN "done" ELSE "start"]
    BY <1>6 DEF LocalUnlock, MutexUnlock, Left
  <2>2. \A v \in LockUsers \ {u} : ~Has(v)
    BY <2>1
  <2> QED BY <2>1, <2>2
<1> QED BY <1>1, <1>2, <1>3, <1>4, <1>5, <1>6 DEF LockStep

LEMMA LocksInvariance == Spec => []LocksInv
<1>1. Init => LocksInv
  BY LocksInitInv DEF Init
<1>2. LocksInv /\ [Next]_vars => LocksInv'
  <2> SUFFICES ASSUME LocksInv, [LocksNext]_lockVars PROVE LocksInv'
    BY SceneSteps
  <2>1. CASE LocksNext
    BY <2>1, LocksStepInv DEF LocksNext
  <2>2. CASE UNCHANGED lockVars
    BY <2>2 DEF lockVars, LocksInv, LocksTypeOK, MessageFits, HeldForOne, Has
  <2> QED BY <2>1, <2>2
<1> QED BY <1>1, <1>2, PTL DEF Spec

\* What a step of a user does to the users inside: one comes in when there is
\* none, one goes, or nothing changes.
LEMMA LocksStepRefines ==
  ASSUME LocksInv, NEW u \in LockUsers, LockStep(u)
  PROVE  Abstract!Acquire(u) \/ Abstract!Release(u)
         \/ UNCHANGED {v \in LockUsers : user[v] = "critical"}
<1> USE DEF LocksInv, LocksTypeOK, LockPlaces, HeldForOne, Has
<1>1. CASE AskLock(u)
  BY <1>1 DEF AskLock
<1>2. CASE AskUnlock(u)
  BY <1>2 DEF AskUnlock, Abstract!Release
<1>3. CASE Serve(u)
  BY <1>3 DEF Serve
<1>4. CASE Answered(u)
  BY <1>4 DEF Answered, Entered, Left, Abstract!Acquire
<1>5. CASE LocalLock(u)
  BY <1>5 DEF LocalLock, MutexLock, Entered, Abstract!Acquire
<1>6. CASE LocalUnlock(u)
  BY <1>6 DEF LocalUnlock, Left, Abstract!Release
<1> QED BY <1>1, <1>2, <1>3, <1>4, <1>5, <1>6 DEF LockStep

\* The users of seL4MyConnector and of lockserver's interfaces, who learn of
\* the lock by messages, have it one at a time, as AbstractLock says.
THEOREM LocksImplementLock == Spec => LockImplemented
<1>1. Init => Abstract!LockInit
  BY DEF Init, LocksInit, Abstract!LockInit
<1>2. LocksInv /\ [Next]_vars
        => [Abstract!LockNext]_{u \in LockUsers : user[u] = "critical"}
  <2> SUFFICES ASSUME LocksInv, [LocksNext]_lockVars
               PROVE  [Abstract!LockNext]_{u \in LockUsers : user[u] = "critical"}
    BY SceneSteps
  <2>1. CASE LocksNext
    <3> PICK u \in LockUsers : LockStep(u)
      BY <2>1 DEF LocksNext
    <3> QED BY LocksStepRefines DEF Abstract!LockNext
  <2>2. CASE UNCHANGED lockVars
    BY <2>2 DEF lockVars
  <2> QED BY <2>1, <2>2
<1> QED BY <1>1, <1>2, LocksInvariance, PTL DEF Spec, LockImplemented, Abstract!LockSpec
-----------------------------------------------------------------------------
(* socket                                                                    *)

StageNames == {"setup", "init", "emit", "poll", "look", "send", "copy", "give",
               "leave", "done"}

SpinTypeOK ==
  /\ stage["sender"] \in {"init", "emit", "send", "copy", "give", "done"}
  /\ stage["transport"] \in {"setup", "init", "emit", "poll", "look", "send", "copy",
                             "give", "leave", "done"}
  /\ stage["receiver"] \in {"setup", "poll", "look", "leave", "done"}
  /\ stage \in [Stages -> StageNames]
  /\ lock \in [Ports -> BOOLEAN] /\ full \in [Ports -> BOOLEAN]
  /\ setup \in [Stages -> BOOLEAN]
  /\ data \in [Ports -> Seq(STRING)]

\* Nobody takes a lock that is still to be initialised.
InitFirst ==
  /\ stage["sender"] \in {"init", "emit"} =>
       stage["transport"] = "setup" /\ ~setup["transport"]
  /\ stage["transport"] \in {"setup", "init", "emit"} =>
       stage["receiver"] = "setup" /\ ~setup["receiver"]

\* The lock of a dataport is taken by at most one component at a time.
LockTaken ==
  /\ stage["sender"] \in {"copy", "give"} =>
       /\ lock["incoming"]
       /\ stage["transport"] \notin {"look", "send", "copy", "give", "leave"}
  /\ stage["transport"] \in {"look", "send", "copy", "give", "leave"} => lock["incoming"]
  /\ stage["transport"] \in {"copy", "give"} =>
       lock["outgoing"] /\ stage["receiver"] \notin {"look", "leave"}
  /\ stage["receiver"] \in {"look", "leave"} => lock["outgoing"]

\* A dataport has a beginning of the text, and the whole of it when full is set.
PrefixOf(s, t) == Len(s) <= Len(t) /\ \A i \in 1..Len(s) : s[i] = t[i]

TextCopied ==
  /\ PrefixOf(data["incoming"], Message) /\ PrefixOf(data["outgoing"], Message)
  /\ full["incoming"] => data["incoming"] = Message
  /\ full["outgoing"] => data["outgoing"] = Message
  /\ stage["transport"] \in {"send", "copy", "give", "leave", "done"} => full["incoming"]
  /\ full["incoming"] => stage["sender"] \in {"give", "done"}
  /\ full["outgoing"] => stage["transport"] \in {"give", "leave", "done"}
  /\ stage["receiver"] \in {"leave", "done"} => shown = Message

SpinInv == SpinTypeOK /\ InitFirst /\ LockTaken /\ TextCopied

LEMMA SpinInitInv == SpinInit => SpinInv
BY MessageAssumption DEF SpinInit, SpinInv, SpinTypeOK, StageNames, InitFirst, LockTaken,
   TextCopied, PrefixOf, Stages, Ports

\* A piece more of the text, or nothing more to copy: then the copy is whole.
LEMMA PrefixGrows ==
  ASSUME NEW s \in Seq(STRING), NEW t \in Seq(STRING), PrefixOf(s, t)
  PROVE  /\ Len(s) < Len(t) => /\ Append(s, t[Len(s) + 1]) \in Seq(STRING)
                               /\ PrefixOf(Append(s, t[Len(s) + 1]), t)
         /\ ~(Len(s) < Len(t)) => s = t
<1>1. ASSUME Len(s) < Len(t)
      PROVE  /\ Append(s, t[Len(s) + 1]) \in Seq(STRING)
             /\ PrefixOf(Append(s, t[Len(s) + 1]), t)
  <2>1. Len(s) + 1 \in 1..Len(t) /\ t[Len(s) + 1] \in STRING
    BY <1>1, ElementOfSeq
  <2> QED BY <1>1, <2>1, AppendProperties DEF PrefixOf
<1>2. ASSUME ~(Len(s) < Len(t)) PROVE s = t
  <2>1. Len(s) = Len(t) /\ \A i \in 1..Len(s) : s[i] = t[i]
    BY <1>2 DEF PrefixOf
  <2> QED BY <2>1, SeqEqual
<1> QED BY <1>1, <1>2

LEMMA SpinStepInv ==
  ASSUME SpinInv, NEW c \in Stages, SpinStep(c)
  PROVE  SpinInv'
<1> USE DEF SpinInv, SpinTypeOK, StageNames, InitFirst, LockTaken, Stages, Ports,
            At, To, Reads, Writes, NextStage
<1>1. CASE WaitSetup(c)  BY <1>1 DEF WaitSetup, TextCopied
<1>2. CASE InitLock(c)
  <2>1. CASE c = "sender" /\ stage[c] = "init"
    <3>1. /\ stage["sender"] = "init" /\ stage' = [stage EXCEPT !["sender"] = "emit"]
          /\ lock' = [lock EXCEPT !["incoming"] = FALSE]
          /\ UNCHANGED <<setup, full, data, shown>>
      BY <1>2, <2>1 DEF InitLock
    <3> QED BY <3>1 DEF TextCopied
  <2>2. CASE c = "sender" /\ stage[c] = "emit"
    <3>1. /\ stage["sender"] = "emit" /\ stage' = [stage EXCEPT !["sender"] = "send"]
          /\ setup' = [setup EXCEPT !["transport"] = TRUE]
          /\ UNCHANGED <<lock, full, data, shown>>
      BY <1>2, <2>2 DEF InitLock
    <3> QED BY <3>1 DEF TextCopied
  <2>3. CASE c = "transport" /\ stage[c] = "init"
    <3>1. /\ stage["transport"] = "init" /\ stage' = [stage EXCEPT !["transport"] = "emit"]
          /\ lock' = [lock EXCEPT !["outgoing"] = FALSE]
          /\ UNCHANGED <<setup, full, data, shown>>
      BY <1>2, <2>3 DEF InitLock
    <3> QED BY <3>1 DEF TextCopied
  <2>4. CASE c = "transport" /\ stage[c] = "emit"
    <3>1. /\ stage["transport"] = "emit" /\ stage' = [stage EXCEPT !["transport"] = "poll"]
          /\ setup' = [setup EXCEPT !["receiver"] = TRUE]
          /\ UNCHANGED <<lock, full, data, shown>>
      BY <1>2, <2>4 DEF InitLock
    <3> QED BY <3>1 DEF TextCopied
  <2> QED BY <1>2, <2>1, <2>2, <2>3, <2>4 DEF InitLock
<1>3. CASE TakePoll(c)   BY <1>3 DEF TakePoll, TextCopied
<1>4. CASE Look(c)
  <2>1. CASE ~full[Reads(c)] /\ c = "transport"
    <3>1. /\ stage["transport"] = "look" /\ stage' = [stage EXCEPT !["transport"] = "poll"]
          /\ lock' = [lock EXCEPT !["incoming"] = FALSE]
          /\ UNCHANGED <<setup, full, data, shown>>
      BY <1>4, <2>1 DEF Look
    <3> QED BY <3>1 DEF TextCopied
  <2>2. CASE ~full[Reads(c)] /\ c = "receiver"
    <3>1. /\ stage["receiver"] = "look" /\ stage' = [stage EXCEPT !["receiver"] = "poll"]
          /\ lock' = [lock EXCEPT !["outgoing"] = FALSE]
          /\ UNCHANGED <<setup, full, data, shown>>
      BY <1>4, <2>2 DEF Look
    <3> QED BY <3>1 DEF TextCopied
  <2>3. CASE full[Reads(c)] /\ c = "transport"
    BY <1>4, <2>3 DEF Look, TextCopied
  <2>4. CASE full[Reads(c)] /\ c = "receiver"
    BY <1>4, <2>4 DEF Look, TextCopied
  <2> QED BY <1>4, <2>1, <2>2, <2>3, <2>4 DEF Look
<1>5. CASE TakeSend(c)   BY <1>5 DEF TakeSend, TextCopied
<1>6. CASE CopyPiece(c)
  <2>1. Source(c) = Message
    BY <1>6 DEF CopyPiece, Source, TextCopied
  <2>2. PrefixOf(data[Writes(c)], Message)
    BY <1>6 DEF TextCopied
  <2>3. CASE Len(data[Writes(c)]) < Len(Message)
    <3> DEFINE more == Append(data[Writes(c)], Message[Len(data[Writes(c)]) + 1])
    <3>1. data' = [data EXCEPT ![Writes(c)] = more]
          /\ UNCHANGED <<full, stage, lock, setup, shown>>
      BY <1>6, <2>1, <2>3 DEF CopyPiece
    <3>2. more \in Seq(STRING) /\ PrefixOf(more, Message)
      BY <2>2, <2>3, PrefixGrows, MessageAssumption
    <3>3. ~full[Writes(c)]
      BY <1>6 DEF CopyPiece, TextCopied
    <3> HIDE DEF more
    <3> QED BY <3>1, <3>2, <3>3 DEF TextCopied
  <2>4. CASE ~(Len(data[Writes(c)]) < Len(Message))
    <3>1. /\ full' = [full EXCEPT ![Writes(c)] = TRUE]
          /\ stage[c] = "copy" /\ stage' = [stage EXCEPT ![c] = "give"]
          /\ UNCHANGED <<data, lock, setup, shown>>
      BY <1>6, <2>1, <2>4 DEF CopyPiece
    <3>2. data[Writes(c)] = Message
      BY <2>2, <2>4, PrefixGrows, MessageAssumption
    <3> QED BY <3>1, <3>2 DEF TextCopied
  <2> QED BY <2>3, <2>4
<1>7. CASE Give(c)       BY <1>7 DEF Give, TextCopied
<1>8. CASE Leave(c)      BY <1>8 DEF Leave, TextCopied
<1> QED BY <1>1, <1>2, <1>3, <1>4, <1>5, <1>6, <1>7, <1>8 DEF SpinStep

LEMMA SpinInvariance == Spec => []SpinInv
<1>1. Init => SpinInv
  BY SpinInitInv DEF Init
<1>2. SpinInv /\ [Next]_vars => SpinInv'
  <2> SUFFICES ASSUME SpinInv, [SpinNext]_spinVars PROVE SpinInv'
    BY SceneSteps
  <2>1. CASE SpinNext
    BY <2>1, SpinStepInv DEF SpinNext
  <2>2. CASE UNCHANGED spinVars
    BY <2>2 DEF spinVars, SpinInv, SpinTypeOK, InitFirst, LockTaken, TextCopied
  <2> QED BY <2>1, <2>2
<1> QED BY <1>1, <1>2, PTL DEF Spec

LEMMA SpinInvImplies == SpinInv => SpinExclusive
BY DEF SpinInv, SpinExclusive, SpinTypeOK, LockTaken, TextCopied,
       Stages, Ports, At, Reads, Writes
-----------------------------------------------------------------------------
(* event, event-driven, binary-semaphore and testsel4notification            *)

NotifyTypeOK ==
  /\ nApp \in {"event", "event-driven", "testsel4notification", "binary-semaphore"}
  /\ note \in BOOLEAN /\ callback \in BOOLEAN /\ token \in Nat /\ events \in Int
  /\ glue \in {"wait", "callback"} /\ main \in {"start", "register", "wait", "done"}
  /\ binsem \in {0, 1} /\ step \in 1..13

\* The callback runs only after it was registered, and is not registered while
\* it runs; it has been registered for no more than MAX_COUNT events.
EventsCounted ==
  nApp = "event-driven" =>
    /\ main = "start" => events = 0 /\ ~callback /\ glue = "wait"
    /\ events \in 0..MAX_COUNT
    /\ callback \/ glue = "callback" => events < MAX_COUNT
    /\ glue = "callback" => ~callback

\* Nothing is posted before global is set, and then only its value.
EchoPosted ==
  nApp = "binary-semaphore" =>
    /\ main \in {"start", "register"} => ~callback /\ glue = "wait" /\ binsem = 0
    /\ main \in {"register", "wait", "done"} => global = TO_ECHO
    /\ binsem = 1 => ret = TO_ECHO
    /\ main = "done" => result = TO_ECHO

\* How many events the client has to come, in the bit or as tokens, at each of
\* its lines; at the ninth it is taking the one that is left, if there is.
Coming(n) == (note => token + 1 = n) /\ (~note => token = n)
ClientAhead ==
  nApp = "testsel4notification" =>
    /\ ~callback /\ glue = "wait"
    /\ step \in {1, 2, 3, 5, 6, 10, 12, 13} => Coming(0)
    /\ step \in {4, 7, 11} => Coming(1)
    /\ step = 8 => Coming(2)
    /\ step = 9 => Coming(0) \/ Coming(1)
    /\ step \in {2, 3, 6, 13} => result = 0
    /\ step \in {5, 9} => result = 1

NotifyInv == NotifyTypeOK /\ EventsCounted /\ EchoPosted /\ ClientAhead

LEMMA NotifyInitInv == NotifyInit => NotifyInv
<1> SUFFICES ASSUME NotifyInit PROVE NotifyInv
  OBVIOUS
<1> USE DEF NotifyInit
<1>1. NotifyTypeOK
  <2>1. note \in BOOLEAN /\ callback \in BOOLEAN
    BY Zenon
  <2> QED BY <2>1 DEF NotifyTypeOK
<1>2. EventsCounted
  BY CountAssumption DEF EventsCounted
<1>3. EchoPosted
  BY DEF EchoPosted
<1>4. ClientAhead
  BY DEF ClientAhead, Coming
<1> QED BY <1>1, <1>2, <1>3, <1>4 DEF NotifyInv

\* The client of testsel4notification, line by line.
LEMMA ClientLineInv == NotifyInv /\ ClientLine => NotifyInv'
<1> SUFFICES ASSUME NotifyInv, ClientLine PROVE NotifyInv'
  OBVIOUS
<1> USE DEF NotifyInv, NotifyTypeOK, ClientAhead, Coming, ClientLine, ClientLines, notify_me
<1>1. nApp = "testsel4notification" /\ ~note /\ step \in 1..12 /\ nApp' = nApp
  OBVIOUS
<1>2. EventsCounted' /\ EchoPosted'
  BY <1>1 DEF EventsCounted, EchoPosted
<1>3. CASE step = 1   BY <1>1, <1>2, <1>3
<1>4. CASE step = 2   BY <1>1, <1>2, <1>4
<1>5. CASE step = 3   BY <1>1, <1>2, <1>5
<1>6. CASE step = 4   BY <1>1, <1>2, <1>6
<1>7. CASE step = 5   BY <1>1, <1>2, <1>7
<1>8. CASE step = 6   BY <1>1, <1>2, <1>8
<1>9. CASE step = 7   BY <1>1, <1>2, <1>9
<1>10. CASE step = 8   BY <1>1, <1>2, <1>10
<1>11. CASE step = 9   BY <1>1, <1>2, <1>11
<1>12. CASE step = 10  BY <1>1, <1>2, <1>12
<1>13. CASE step = 11  BY <1>1, <1>2, <1>13
<1>14. CASE step = 12  BY <1>1, <1>2, <1>14
<1> QED BY <1>1, <1>3, <1>4, <1>5, <1>6, <1>7, <1>8, <1>9, <1>10, <1>11, <1>12, <1>13, <1>14

LEMMA NotifyStepInv == NotifyInv /\ NotifyNext => NotifyInv'
<1> SUFFICES ASSUME NotifyInv, NotifyNext PROVE NotifyInv'
  OBVIOUS
<1> USE CountAssumption DEF NotifyInv, NotifyTypeOK, Register
<1>1. CASE Emit
  <2>1. /\ nApp # "testsel4notification" /\ note' = TRUE
        /\ UNCHANGED <<nApp, token, callback, glue, main, events, global, ret, binsem,
                       result, step>>
    BY <1>1, Zenon DEF Emit, EventEmitter, DrivenEmitter, Periodic, Emitting
  <2>2. EventsCounted' /\ EchoPosted'
    BY <2>1 DEF EventsCounted, EchoPosted
  <2>3. ClientAhead'
    BY <2>1 DEF ClientAhead
  <2> QED BY <2>1, <2>2, <2>3
<1>2. CASE Glue
  <2>1. CASE callback
    <3>1. /\ glue = "wait" /\ glue' = "callback" /\ ~callback' /\ ~note'
          /\ UNCHANGED <<nApp, token, main, events, global, ret, binsem, result, step>>
      BY <1>2, <2>1 DEF Glue
    <3>2. note' \in BOOLEAN /\ callback' \in BOOLEAN
      BY <1>2, <2>1, Zenon DEF Glue
    <3>3. EventsCounted'
      BY <2>1, <3>1 DEF EventsCounted
    <3>4. EchoPosted'
      BY <2>1, <3>1 DEF EchoPosted
    <3>5. ClientAhead'
      BY <2>1, <3>1 DEF ClientAhead
    <3> QED BY <3>1, <3>2, <3>3, <3>4, <3>5
  <2>2. CASE ~callback
    <3>1. /\ note /\ ~note'
          /\ token' = IF nApp = "testsel4notification" THEN token + 1 ELSE token
          /\ UNCHANGED <<nApp, glue, callback, main, events, global, ret, binsem, result, step>>
      BY <1>2, <2>2 DEF Glue
    <3>2. note' \in BOOLEAN
      BY <1>2, <2>2, Zenon DEF Glue
    <3>3. EventsCounted' /\ EchoPosted'
      BY <3>1 DEF EventsCounted, EchoPosted
    <3>4. ClientAhead'
      BY <3>1 DEF ClientAhead, Coming
    <3> QED BY <3>1, <3>2, <3>3, <3>4
  <2> QED BY <2>1, <2>2
<1>3. CASE EventCallback
  BY <1>3 DEF EventCallback, EventsCounted, EchoPosted, ClientAhead
<1>4. CASE CountedCallback
  <2>1. /\ nApp = "event-driven" /\ glue = "callback" /\ events' = events + 1
        /\ glue' = "wait" /\ main # "start"
        /\ UNCHANGED <<nApp, note, token, main, global, ret, binsem, result, step>>
    BY <1>4 DEF CountedCallback, EventsCounted
  <2>2. callback' \in BOOLEAN /\ (events' = MAX_COUNT => callback' = callback)
    BY <1>4, Zenon DEF CountedCallback
  <2>3. events < MAX_COUNT /\ events \in 0..MAX_COUNT
    BY <2>1 DEF EventsCounted
  <2>4. events' = MAX_COUNT => ~callback'
    BY <2>1, <2>2, <2>3, <1>4 DEF EventsCounted, CountedCallback
  <2>5. EventsCounted'
    BY <2>1, <2>2, <2>3, <2>4 DEF EventsCounted
  <2>6. EchoPosted' /\ ClientAhead'
    BY <2>1 DEF EchoPosted, ClientAhead
  <2> QED BY <2>1, <2>2, <2>3, <2>5, <2>6
<1>5. CASE EchoCallback
  BY <1>5 DEF EchoCallback, EventsCounted, EchoPosted, ClientAhead
<1>6. CASE CollectorRun
  BY <1>6 DEF CollectorRun, EventsCounted, EchoPosted, ClientAhead
<1>7. CASE Echo
  <2>1. /\ nApp = "binary-semaphore"
        /\ UNCHANGED <<nApp, note, token, glue, events, ret, step>>
    BY <1>7 DEF Echo
  <2>2. EventsCounted' /\ ClientAhead'
    BY <2>1 DEF EventsCounted, ClientAhead
  <2>3. CASE EchoCall /\ UNCHANGED <<callback, binsem, result>>
    BY <2>1, <2>2, <2>3 DEF EchoCall, EchoPosted
  <2>4. CASE main = "register" /\ Register /\ main' = "wait"
             /\ UNCHANGED <<global, binsem, result>>
    BY <2>1, <2>2, <2>4 DEF EchoPosted
  <2>5. CASE /\ main = "wait" /\ binsem = 1 /\ binsem' = 0 /\ result' = ret
             /\ main' = "done" /\ UNCHANGED <<global, callback>>
    BY <2>1, <2>2, <2>5 DEF EchoPosted
  <2> QED BY <1>7, <2>3, <2>4, <2>5 DEF Echo
<1>8. CASE ClientLine       BY <1>8, ClientLineInv
<1> QED BY <1>1, <1>2, <1>3, <1>4, <1>5, <1>6, <1>7, <1>8 DEF NotifyNext, GlueStep, MainStep

LEMMA NotifyInvariance == Spec => []NotifyInv
<1>1. Init => NotifyInv
  BY NotifyInitInv DEF Init
<1>2. NotifyInv /\ [Next]_vars => NotifyInv'
  <2> SUFFICES ASSUME NotifyInv, [NotifyNext]_notifyVars PROVE NotifyInv'
    BY SceneSteps
  <2>1. CASE NotifyNext
    BY <2>1, NotifyStepInv
  <2>2. CASE UNCHANGED notifyVars
    BY <2>2 DEF notifyVars, NotifyInv, NotifyTypeOK, EventsCounted, EchoPosted, ClientAhead,
                Coming
  <2> QED BY <2>1, <2>2
<1> QED BY <1>1, <1>2, PTL DEF Spec

\* What the users of a notification rely on, whenever events come: the polls
\* answer as testsel4notification's client asserts, echo_echo returns its
\* argument, and event-driven's callback runs for MAX_COUNT events at most.
THEOREM NotificationsKeepPromises == Spec => []NotifyFaithful
<1>1. NotifyInv => NotifyFaithful
  <2> SUFFICES ASSUME NotifyInv PROVE NotifyFaithful
    OBVIOUS
  <2> USE DEF NotifyInv, NotifyTypeOK
  <2>1. nApp = "binary-semaphore" /\ main = "done" => result = TO_ECHO
    BY DEF EchoPosted
  <2>2. nApp = "event-driven" => events <= MAX_COUNT /\ (events = MAX_COUNT => ~callback)
    BY CountAssumption DEF EventsCounted
  <2>3. ASSUME nApp = "testsel4notification", step > 1, ClientLines[step - 1][1] = "poll"
        PROVE  result = ClientLines[step - 1][2]
    <3>1. step - 1 \in {1, 2, 4, 5, 8, 12}
      BY <2>3 DEF ClientLines
    <3> QED BY <2>3, <3>1 DEF ClientAhead, ClientLines
  <2> QED BY <2>1, <2>2, <2>3 DEF NotifyFaithful
<1> QED BY <1>1, NotifyInvariance, PTL
-----------------------------------------------------------------------------
(* reversestring, rumprun_ethernet and global_async                          *)

Bytes == STRING \cup {Zero, One}
Strnlen(s, n, k) == /\ \A i \in 1..k : s[i] # Zero
                    /\ k < n => s[k + 1] = Zero

\* strnlen gives the number of bytes before the first zero, and it only.
LEMMA BytesBeforeFact ==
  ASSUME NEW b, NEW s, NEW n \in Nat
  PROVE  BytesBefore(b, s, n) \in 0..n /\ IsBefore(b, s, n, BytesBefore(b, s, n))
<1>1. \E k \in 0..n : IsBefore(b, s, n, k)
  <2> DEFINE stops == {k \in 0..n : k < n => s[k + 1] = b}
  <2>1. PICK m \in stops : \A k \in stops : m <= k
    <3>1. n \in stops /\ stops \subseteq Nat
      OBVIOUS
    <3> QED BY <3>1, LeastNat
  <2>2. ASSUME NEW i \in 1..m PROVE s[i] # b
    <3>1. i - 1 \in 0..n /\ i - 1 < n /\ ~(m <= i - 1) /\ (i - 1) + 1 = i
      OBVIOUS
    <3> QED BY <2>1, <3>1
  <2> QED BY <2>1, <2>2 DEF IsBefore
<1> QED BY <1>1 DEF BytesBefore

LEMMA StrnlenFact ==
  ASSUME NEW s, NEW n \in Nat
  PROVE  strnlen(s, n) \in 0..n /\ Strnlen(s, n, strnlen(s, n))
BY BytesBeforeFact DEF strnlen, Strnlen, IsBefore

LEMMA StrnlenOnly ==
  ASSUME NEW s, NEW n \in Nat, NEW k \in 0..n, Strnlen(s, n, k)
  PROVE  strnlen(s, n) = k
<1> DEFINE j == strnlen(s, n)
<1>1. j \in 0..n /\ Strnlen(s, n, j)
  BY StrnlenFact
<1> HIDE DEF j
<1>2. ~(j < k)
  <2> SUFFICES ASSUME j < k PROVE FALSE
    OBVIOUS
  <2>1. j + 1 \in 1..k /\ j < n
    BY <1>1
  <2> QED BY <1>1, <2>1 DEF Strnlen
<1>3. ~(k < j)
  <2> SUFFICES ASSUME k < j PROVE FALSE
    OBVIOUS
  <2>1. k + 1 \in 1..j /\ k < n
    BY <1>1
  <2> QED BY <1>1, <2>1 DEF Strnlen
<1> QED BY <1>1, <1>2, <1>3 DEF j

\* A text without a zero or a conversion that the server reverses whole.
Plain == /\ Len(text) <= MAX_LEN
         /\ \A i \in 1..Len(text) : text[i] # Zero /\ text[i] # Percent

LEMMA CStringFact ==
  ASSUME NEW t \in Seq(Bytes)
  PROVE  /\ CString(t) \in Seq(Bytes) /\ Len(CString(t)) <= Len(t)
         /\ Len(CString(t)) = Len(t) => \A i \in 1..Len(t) : t[i] # Zero
         /\ (\A i \in 1..Len(t) : t[i] # Zero) => CString(t) = t
<1> DEFINE k == strnlen(t, Len(t))
<1>1. Len(t) \in Nat /\ k \in 0..Len(t) /\ Strnlen(t, Len(t), k)
  BY StrnlenFact
<1>2. /\ CString(t) = SubSeq(t, 1, k)
      /\ CString(t) \in Seq(Bytes) /\ Len(CString(t)) = k
  <2> HIDE DEF k
  <2>1. SubSeq(t, 1, k) \in Seq(Bytes) /\ Len(SubSeq(t, 1, k)) = k
    BY <1>1, SubSeqProperties
  <2> QED BY <2>1 DEF k, CString
<1>3. Len(CString(t)) = Len(t) => \A i \in 1..Len(t) : t[i] # Zero
  BY <1>1, <1>2 DEF Strnlen
<1>4. ASSUME \A i \in 1..Len(t) : t[i] # Zero PROVE CString(t) = t
  <2>1. k = Len(t)
    BY <1>1, <1>4, StrnlenOnly DEF Strnlen
  <2> QED BY <1>1, <1>2, <2>1, SubSeqProperties, SeqEqual
<1> QED BY <1>1, <1>2, <1>3, <1>4

\* A conversion is where the literal text ends.
LEMMA LiteralFact ==
  ASSUME NEW s, Len(s) \in Nat
  PROVE  /\ Literal(s) \in 0..Len(s) /\ \A i \in 1..Literal(s) : s[i] # Percent
         /\ Literal(s) < Len(s) => s[Literal(s) + 1] = Percent
BY BytesBeforeFact DEF Literal, IsBefore

\* What snprintf writes is no longer than what was received, and is that when
\* there is nothing in it to convert.
LEMMA FormattedFact ==
  ASSUME NEW t \in Seq(Bytes), NEW f \in Formatted(t)
  PROVE  /\ f \in Seq(Bytes) /\ Len(f) <= Len(t)
         /\ (\A i \in 1..Len(t) : t[i] # Zero /\ t[i] # Percent) => f = t
<1> DEFINE s == CString(t)
           k == Literal(s)
<1>1. s \in Seq(Bytes) /\ Len(s) \in Nat /\ Len(s) <= Len(t) /\ Len(t) \in Nat
  BY CStringFact
<1>2. k \in 0..Len(s) /\ (k < Len(s) => s[k + 1] = Percent)
  BY <1>1, LiteralFact
<1>3. CASE k = Len(s)
  <2>1. f = s
    BY <1>3 DEF Formatted
  <2> QED BY <1>1, <2>1, CStringFact
<1>4. CASE k # Len(s)
  <2>1. PICK out \in Converted : f = Truncated(SubSeq(s, 1, k) \o out, Len(t))
    BY <1>4 DEF Formatted
  <2>2. out \in Seq(Bytes)
    <3>1. out \in Seq(STRING)
      BY HandOverAssumption
    <3> QED BY <3>1 DEF Bytes
  <2> DEFINE x == SubSeq(s, 1, k) \o out
             n == IF Len(x) > Len(t) THEN Len(t) ELSE Len(x)
  <2>3. x \in Seq(Bytes)
    <3> HIDE DEF s, k
    <3>1. SubSeq(s, 1, k) \in Seq(Bytes)
      BY <1>1, <1>2, SubSeqProperties
    <3> QED BY <2>2, <3>1
  <2>4. f = SubSeq(x, 1, n)
    BY <2>1 DEF Truncated
  <2> HIDE DEF x
  <2>5. n \in 0..Len(x) /\ n <= Len(t) /\ n \in Nat
    BY <1>1, <2>3
  <2>6. SubSeq(x, 1, n) \in Seq(Bytes) /\ Len(SubSeq(x, 1, n)) = n
    <3> HIDE DEF n
    <3> QED BY <2>3, <2>5, SubSeqProperties
  <2>7. ASSUME \A i \in 1..Len(t) : t[i] # Zero /\ t[i] # Percent PROVE FALSE
    <3>1. s = t
      BY <2>7, CStringFact
    <3>2. k + 1 \in 1..Len(t) /\ t[k + 1] = Percent
      BY <1>1, <1>2, <1>4, <3>1
    <3> QED BY <2>7, <3>2
  <2> QED BY <2>4, <2>5, <2>6, <2>7
<1> QED BY <1>3, <1>4

HandTypeOK ==
  /\ hApp \in {"reversestring", "rumprun_ethernet", "global_async"}
  /\ hbuf \in [1..BUFSIZE -> Bytes]
  /\ writer \in {"compose", "write", "overrun", "told", "back", "exited", "faulted"}
  /\ server \in {"wait", "print", "swap", "answer", "done"}
  /\ text \in Seq(Bytes) /\ Len(text) <= BUFSIZE
  /\ form \in Seq(Bytes) /\ Len(form) <= Len(text)
  /\ hApp = "reversestring" => Len(text) < MAX_LEN
  /\ idx \in 0..(BUFSIZE + 1) /\ len \in 0..MAX_LEN /\ pair \in Nat
  /\ round \in Nat

\* Whose turn it is.  While the writer has the dataport no signal is under way;
\* then the signal is; then the server has the dataport; then its answer is
\* under way.  In reversestring there is one turn of each.
WriterHas ==
  /\ writer # "told"
  /\ IF hApp = "reversestring"
     THEN /\ hbuf[BUFSIZE] = Zero /\ writer \in {"compose", "write", "back"}
          /\ writer = "compose" \/ round = 0
          /\ server = IF writer = "back" \/ round > 0 THEN "done" ELSE "wait"
     ELSE server = "wait" /\ ~told /\ ~toldBack
SignalSent ==
  /\ writer = "told" /\ server = "wait"
  /\ IF hApp = "reversestring" THEN hbuf[BUFSIZE] = One /\ round = 0
     ELSE told /\ ~toldBack
ServerHas ==
  /\ writer = "told" /\ server \in {"print", "swap", "answer"}
  /\ IF hApp = "reversestring" THEN hbuf[BUFSIZE] = One /\ round = 0
     ELSE ~told /\ ~toldBack
Replied ==
  /\ writer = "told"
  /\ IF hApp = "reversestring"
     THEN hbuf[BUFSIZE] = Zero /\ server = "done" /\ round = 0
     ELSE server = "wait" /\ ~told /\ toldBack
Turns == WriterHas \/ SignalSent \/ ServerHas \/ Replied

\* What the dataport holds of the text: its first bytes and the zero, all of it,
\* the text with p pairs swapped, and the answer.
WrittenSoFar ==
  /\ \A i \in 1..Len(text) : i <= idx => hbuf[i] = text[i]
  /\ idx = Len(text) + 1 => hbuf[Len(text) + 1] = Zero
TextIn == /\ \A i \in 1..Len(text) : hbuf[i] = text[i]
          /\ hbuf[Len(text) + 1] = Zero
SwappedIn(p) ==
  \A i \in 1..Len(text) :
    hbuf[i] = IF i <= p \/ i > Len(text) - p THEN text[Len(text) + 1 - i] ELSE text[i]
Result(i) == IF hApp = "global_async" THEN text[i] ELSE text[Len(text) + 1 - i]
ResultIn(s) == \A i \in 1..Len(text) : s[i] = Result(i)

TextFollowed ==
  Plain =>
    /\ form = text /\ writer # "overrun" /\ (writer = "write" => WrittenSoFar)
    /\ SignalSent \/ server = "print" => TextIn
    /\ server \in {"swap", "answer"} => seen = text
    /\ server = "swap" => /\ hApp # "global_async" /\ len = Len(text)
                          /\ pair <= len \div 2 /\ SwappedIn(pair)
    /\ server = "answer" \/ Replied => ResultIn(hbuf)
    /\ writer = "back" => back \in Seq(Bytes) /\ Len(back) = Len(text) /\ ResultIn(back)

HandInv == HandTypeOK /\ Turns /\ TextFollowed

\* What the writer makes of a text.
Made(t) == IF hApp = "rumprun_ethernet" THEN Formatted(t) ELSE {CString(t)}
LEMMA MadeFact ==
  ASSUME NEW t \in Seq(Bytes), NEW f \in Made(t)
  PROVE  /\ f \in Seq(Bytes) /\ Len(f) <= Len(t)
         /\ (\A i \in 1..Len(t) : t[i] # Zero /\ t[i] # Percent) => f = t
<1>1. CASE hApp = "rumprun_ethernet"
  BY <1>1, FormattedFact DEF Made
<1>2. CASE hApp # "rumprun_ethernet"
  BY <1>2, CStringFact DEF Made
<1> QED BY <1>1, <1>2

\* Sizes, and the texts that are handed over.
LEMMA HandSizes == MAX_LEN \in Nat /\ BUFSIZE = MAX_LEN + 2 /\ MAX_LEN > 0 /\ Zero # One
<1>1. Len(Greeting) \in Nat
  BY HandOverAssumption
<1> QED BY <1>1, HandOverAssumption DEF BUFSIZE

LEMMA HandedTexts ==
  /\ Greeting \in Seq(Bytes) /\ Len(Greeting) < MAX_LEN
  /\ \A t \in NetTexts : t \in Seq(Bytes) /\ Len(t) <= BUFSIZE
<1>1. ASSUME NEW t \in Seq(STRING) PROVE t \in Seq(Bytes)
  BY DEF Bytes
<1>2. ASSUME NEW t \in NetTexts PROVE Len(t) <= BUFSIZE
  BY HandOverAssumption, HandSizes
<1> QED BY <1>1, <1>2, HandOverAssumption

LEMMA HandInitInv == HandInit => HandInv
<1> SUFFICES ASSUME HandInit PROVE HandInv
  OBVIOUS
<1>1. Zero \in Bytes
  BY DEF Bytes
<1>2. HandTypeOK
  BY <1>1, HandSizes DEF HandInit, HandTypeOK
<1>3. WriterHas
  BY HandSizes DEF HandInit, WriterHas
<1>4. TextFollowed
  BY DEF HandInit, TextFollowed, SignalSent, Replied
<1> QED BY <1>2, <1>3, <1>4 DEF HandInv, Turns

LEMMA HandTypeStep == HandInv /\ HandNext => HandTypeOK'
<1> SUFFICES ASSUME HandInv, HandNext PROVE HandTypeOK'
  OBVIOUS
<1> USE HandSizes DEF HandInv, HandTypeOK
<1>0. Zero \in Bytes /\ One \in Bytes
  BY DEF Bytes
<1>1. ASSUME NEW t \in NetTexts \cup {Greeting}, Compose(t) PROVE HandTypeOK'
  <2>1. t \in Seq(Bytes) /\ form' \in Made(t) /\ text' = t
    BY <1>1, HandedTexts DEF Compose, Made
  <2>2. form' \in Seq(Bytes) /\ Len(form') <= Len(text')
    BY <2>1, MadeFact
  <2> QED BY <1>1, <2>1, <2>2, HandedTexts DEF Compose, serverLocals
<1>2. CASE NetFails   BY <1>2 DEF NetFails, serverLocals
<1>3. CASE WriteByte
  <2> DEFINE s == form
             b == IF idx = Len(s) THEN Zero ELSE s[idx + 1]
  <2>1. s \in Seq(Bytes) /\ Len(s) <= Len(text) /\ Len(s) \in Nat /\ Len(text) \in Nat
    OBVIOUS
  <2>2. /\ idx <= Len(s) /\ idx' = idx + 1
        /\ hbuf' = IF idx = BUFSIZE THEN hbuf ELSE [hbuf EXCEPT ![idx + 1] = b]
        /\ writer' = IF idx = BUFSIZE THEN "overrun" ELSE "write"
        /\ UNCHANGED <<hApp, serverLocals, server, text, form, round>>
    BY <1>3 DEF WriteByte
  <2> HIDE DEF s
  <2>3. b \in Bytes
    BY <1>0, <2>1, <2>2
  <2> HIDE DEF b
  <2>4. hbuf' \in [1..BUFSIZE -> Bytes]
    BY <2>1, <2>2, <2>3
  <2>5. idx' \in 0..(BUFSIZE + 1)
    BY <2>1, <2>2
  <2> QED BY <2>2, <2>4, <2>5 DEF serverLocals
<1>4. CASE Overrun \/ ConversionFaults
  BY <1>4 DEF Overrun, ConversionFaults, serverLocals
<1>5. CASE Tell       BY <1>0, <1>5 DEF Tell, serverLocals
<1>6. CASE TakeBack   BY <1>6 DEF TakeBack, serverLocals
<1>7. CASE Again      BY <1>7 DEF Again, serverLocals
<1>8. CASE Called     BY <1>8 DEF Called, serverLocals
<1>9. CASE PrintText
  <2>1. strnlen(hbuf, MAX_LEN) \in 0..MAX_LEN
    BY StrnlenFact
  <2> QED BY <1>9, <2>1 DEF PrintText
<1>10. CASE Swap
  <2>1. CASE pair < len \div 2
    <3>1. pair + 1 \in 1..BUFSIZE /\ len - pair \in 1..BUFSIZE
      BY <2>1
    <3>2. /\ hbuf' = [hbuf EXCEPT ![pair + 1] = hbuf[len - pair],
                                  ![len - pair] = hbuf[pair + 1]]
          /\ pair' = pair + 1 /\ server' = server
          /\ UNCHANGED <<hApp, writer, text, form, idx, len, round>>
      BY <1>10, <2>1 DEF Swap
    <3>3. hbuf' \in [1..BUFSIZE -> Bytes]
      BY <3>1, <3>2
    <3> QED BY <3>2, <3>3
  <2>2. CASE ~(pair < len \div 2)
    BY <1>10, <2>2 DEF Swap
  <2> QED BY <2>1, <2>2
<1>11. CASE AnswerBack
  BY <1>0, <1>11 DEF AnswerBack, serverLocals, event_handler_reply
<1> QED BY <1>1, <1>2, <1>3, <1>4, <1>5, <1>6, <1>7, <1>8, <1>9, <1>10, <1>11
        DEF HandNext, WriterStep, ServerStep

\* Each step keeps to the turns.
LEMMA TurnsStep ==
  HandInv /\ HandNext =>
    /\ Turns'
    /\ TakeBack => Replied
    /\ Called => SignalSent
    /\ PrintText \/ Swap \/ AnswerBack => ServerHas
    /\ \A t : Compose(t) => WriterHas
<1> SUFFICES ASSUME HandInv, HandNext
             PROVE  /\ Turns'
                    /\ TakeBack => Replied
                    /\ Called => SignalSent
                    /\ PrintText \/ Swap \/ AnswerBack => ServerHas
                    /\ \A t : Compose(t) => WriterHas
  OBVIOUS
<1> USE HandSizes DEF HandInv, HandTypeOK
<1>0. /\ TakeBack => Replied
      /\ Called => SignalSent
      /\ PrintText \/ Swap \/ AnswerBack => ServerHas
      /\ \A t : Compose(t) => WriterHas
      /\ NetFails \/ WriteByte \/ ConversionFaults \/ Overrun \/ Tell \/ Again => WriterHas
  <2>1. TakeBack => Replied
    BY DEF TakeBack, Turns, WriterHas, SignalSent, ServerHas, Replied
  <2>2. Called => SignalSent
    BY DEF Called, Turns, WriterHas, SignalSent, ServerHas, Replied
  <2>3. PrintText \/ Swap \/ AnswerBack => ServerHas
    BY DEF PrintText, Swap, AnswerBack, Turns, WriterHas, SignalSent, ServerHas, Replied
  <2>4. \A t : Compose(t) => WriterHas
    BY DEF Compose, Turns, SignalSent, ServerHas, Replied
  <2>5. NetFails \/ WriteByte \/ ConversionFaults \/ Overrun \/ Tell \/ Again => WriterHas
    BY DEF NetFails, WriteByte, ConversionFaults, Overrun, Tell, Again, Turns, SignalSent, ServerHas, Replied
  <2> QED BY <2>1, <2>2, <2>3, <2>4, <2>5
<1>1. ASSUME NEW t \in NetTexts \cup {Greeting}, Compose(t) PROVE WriterHas'
  <2>1. hApp = "reversestring" => Len(t) # BUFSIZE
    BY <1>1, HandedTexts DEF Compose
  <2> QED BY <1>0, <1>1, <2>1 DEF Compose, WriterHas
<1>2. CASE NetFails   BY <1>0, <1>2 DEF NetFails, WriterHas, Turns
<1>3. CASE WriteByte
  <2>1. Len(form) <= Len(text) /\ Len(form) \in Nat /\ Len(text) \in Nat
    OBVIOUS
  <2>2. CASE hApp = "reversestring"
    <3>1. idx < BUFSIZE - 1 /\ idx <= Len(form)
      BY <1>3, <2>1, <2>2 DEF WriteByte
    <3>2. hbuf'[BUFSIZE] = hbuf[BUFSIZE] /\ writer' = "write"
      BY <1>3, <3>1 DEF WriteByte
    <3> QED BY <1>0, <1>3, <2>2, <3>2 DEF WriteByte, WriterHas, Turns
  <2>3. CASE hApp # "reversestring"
    BY <1>0, <1>3, <2>3 DEF WriteByte, WriterHas, Turns
  <2> QED BY <2>2, <2>3
<1>4. CASE Overrun \/ ConversionFaults
  <2>1. hApp # "reversestring"
    BY <1>0, <1>4 DEF Overrun, ConversionFaults, WriterHas
  <2> QED BY <1>0, <1>4, <2>1 DEF Overrun, ConversionFaults, WriterHas, Turns
<1>5. CASE Tell       BY <1>0, <1>5 DEF Tell, WriterHas, SignalSent, Turns
<1>6. CASE TakeBack   BY <1>0, <1>6 DEF TakeBack, WriterHas, Replied, Turns
<1>7. CASE Again      BY <1>0, <1>7 DEF Again, WriterHas, Turns
<1>8. CASE Called     BY <1>0, <1>8 DEF Called, SignalSent, ServerHas, Turns
<1>9. CASE PrintText  BY <1>0, <1>9 DEF PrintText, ServerHas, Turns
<1>10. CASE Swap
  <2>1. hbuf'[BUFSIZE] = hbuf[BUFSIZE]
    <3>1. CASE pair < len \div 2
      <4>1. pair + 1 \in 1..MAX_LEN /\ len - pair \in 1..MAX_LEN
        BY <3>1
      <4> QED BY <1>10, <3>1, <4>1 DEF Swap
    <3>2. CASE ~(pair < len \div 2)
      BY <1>10, <3>2 DEF Swap
    <3> QED BY <3>1, <3>2
  <2>2. server' \in {"swap", "answer"} /\ UNCHANGED <<hApp, writer, told, toldBack, round>>
    BY <1>10 DEF Swap
  <2> QED BY <1>0, <1>10, <2>1, <2>2 DEF ServerHas, Turns
<1>11. CASE AnswerBack
  BY <1>0, <1>11 DEF AnswerBack, event_handler_reply, ServerHas, Replied, Turns
<1> QED BY <1>0, <1>1, <1>2, <1>3, <1>4, <1>5, <1>6, <1>7, <1>8, <1>9, <1>10, <1>11
        DEF HandNext, WriterStep, ServerStep, Turns

\* Each step keeps what the dataport holds of a plain text.
LEMMA TextStep == HandInv /\ HandNext => TextFollowed'
<1> SUFFICES ASSUME HandInv, HandNext, Plain' PROVE TextFollowed'
  BY DEF TextFollowed
<1> USE HandSizes DEF HandInv, HandTypeOK
<1> DEFINE L == Len(text)
<1>0. L \in Nat
  OBVIOUS
<1>1. ASSUME NEW t \in NetTexts \cup {Greeting}, Compose(t) PROVE TextFollowed'
  <2>1. /\ text' = t /\ idx' = 0 /\ server' = server /\ server \in {"wait", "done"}
        /\ form' \in Made(t)
    BY <1>1, TurnsStep DEF Compose, WriterHas, Made
  <2>4. form' = text' /\ Len(t) # BUFSIZE
    BY <2>1, HandedTexts, MadeFact DEF Plain
  <2>5. writer' = "write"
    BY <1>1, <2>4 DEF Compose
  <2>2. Len(t) \in Nat
    BY HandedTexts
  <2>3. WrittenSoFar'
    BY <2>1, <2>2 DEF WrittenSoFar
  <2> QED BY <2>1, <2>3, <2>4, <2>5 DEF TextFollowed, SignalSent, Replied
<1>2. ASSUME text' = text PROVE Plain /\ L <= MAX_LEN /\ L + 1 < BUFSIZE
  BY <1>0, <1>2 DEF Plain
<1>3. CASE NetFails \/ Overrun \/ ConversionFaults
  <2>1. text' = text /\ form' = form
    BY <1>3 DEF NetFails, Overrun, ConversionFaults
  <2>2. NetFails /\ server = "wait"
    <3>1. writer # "overrun"
      BY <1>2, <2>1 DEF TextFollowed
    <3>3. ~ConversionFaults
      <4>1. (\A i \in 1..Len(text) : text[i] # Zero /\ text[i] # Percent) /\ Len(text) \in Nat
        BY <1>0, <1>2, <2>1 DEF Plain
      <4>2. CString(text) = text
        BY <4>1, CStringFact
      <4>3. Literal(text) < Len(text) => Literal(text) + 1 \in 1..Len(text)
                                         /\ text[Literal(text) + 1] = Percent
        BY <4>1, LiteralFact
      <4> QED BY <4>1, <4>2, <4>3 DEF ConversionFaults
    <3>2. NetFails
      BY <1>3, <3>1, <3>3 DEF Overrun
    <3> QED BY <3>2 DEF NetFails, Turns, WriterHas, SignalSent, ServerHas, Replied
  <2> QED BY <1>2, <2>1, <2>2 DEF NetFails, TextFollowed, SignalSent, Replied
<1>4. CASE WriteByte
  <2>1. Plain /\ form = text /\ text' = text /\ form' = form /\ L + 1 < BUFSIZE
    BY <1>2, <1>4 DEF WriteByte, TextFollowed
  <2>2. idx <= L /\ idx # BUFSIZE
    BY <1>0, <1>4, <2>1 DEF WriteByte
  <2>3. /\ writer = "write" /\ idx' = idx + 1 /\ writer' = "write" /\ server' = server
        /\ hbuf' = [hbuf EXCEPT ![idx + 1] = IF idx = L THEN Zero ELSE text[idx + 1]]
    BY <1>4, <2>1, <2>2 DEF WriteByte
  <2>4. server \in {"wait", "done"}
    BY <2>3 DEF Turns, WriterHas, SignalSent, ServerHas, Replied
  <2>5. WrittenSoFar
    BY <2>1, <2>3 DEF TextFollowed
  <2>6. hbuf'[idx + 1] = IF idx = L THEN Zero ELSE text[idx + 1]
    BY <1>0, <2>1, <2>2, <2>3
  <2>7. ASSUME NEW i \in 1..L, i <= idx + 1 PROVE hbuf'[i] = text[i]
    <3>1. CASE i = idx + 1
      BY <1>0, <2>2, <2>6, <3>1
    <3>2. CASE i # idx + 1
      BY <1>0, <2>1, <2>3, <2>5, <2>7, <3>2 DEF WrittenSoFar
    <3> QED BY <3>1, <3>2
  <2>8. WrittenSoFar'
    BY <1>0, <2>1, <2>3, <2>6, <2>7 DEF WrittenSoFar
  <2> QED BY <2>1, <2>3, <2>4, <2>8 DEF TextFollowed, SignalSent, Replied
<1>5. CASE Tell
  <2>1. Plain /\ form = text /\ text' = text /\ form' = form /\ L + 1 < BUFSIZE
    BY <1>2, <1>5 DEF Tell, TextFollowed
  <2>2. idx = L + 1 /\ WrittenSoFar /\ writer' = "told" /\ server' = server
    BY <1>5, <2>1 DEF Tell, Written, TextFollowed
  <2>3. \A i \in 1..(L + 1) : hbuf'[i] = hbuf[i]
    BY <1>0, <1>5, <2>1 DEF Tell
  <2>4. TextIn'
    BY <1>0, <2>1, <2>2, <2>3 DEF TextIn, WrittenSoFar
  <2>5. server \in {"wait", "done"} /\ ~Replied'
    BY <1>5 DEF Tell, Turns, WriterHas, SignalSent, ServerHas, Replied
  <2> QED BY <2>1, <2>2, <2>4, <2>5 DEF TextFollowed
<1>6. CASE TakeBack
  <2>1. Plain /\ Replied /\ text' = text /\ form' = text /\ L + 1 < BUFSIZE /\ ResultIn(hbuf)
    BY <1>2, <1>6, TurnsStep DEF TakeBack, TextFollowed
  <2>2. /\ back' = SubSeq(hbuf, 1, L) /\ writer' = "back" /\ server' = server
        /\ hApp' = hApp
    BY <1>6 DEF TakeBack
  <2>3. hbuf \in Seq(Bytes) /\ Len(hbuf) = BUFSIZE
    OBVIOUS
  <2>4. /\ SubSeq(hbuf, 1, L) \in Seq(Bytes) /\ Len(SubSeq(hbuf, 1, L)) = L
        /\ \A i \in 1..L : SubSeq(hbuf, 1, L)[i] = hbuf[i]
    BY <1>0, <2>1, <2>3, SubSeqProperties
  <2>5. (ResultIn(back))'
    BY <1>0, <2>1, <2>2, <2>4 DEF ResultIn, Result
  <2>6. server \in {"wait", "done"}
    BY <2>1 DEF Replied
  <2> QED BY <2>1, <2>2, <2>4, <2>5, <2>6 DEF TextFollowed, SignalSent, Replied
<1>7. CASE Again
  <2>1. server \in {"wait", "done"} /\ server' = server /\ writer' = "compose"
    BY <1>7 DEF Again, Turns, WriterHas, SignalSent, ServerHas, Replied
  <2>2. form' = text'
    BY <1>2, <1>7 DEF Again, TextFollowed
  <2> QED BY <2>1, <2>2 DEF TextFollowed, SignalSent, Replied
<1>8. CASE Called
  <2>1. /\ Plain /\ TextIn /\ text' = text /\ form' = text /\ hbuf' = hbuf
        /\ writer = "told" /\ writer' = writer /\ server' = "print"
    BY <1>2, <1>8, TurnsStep DEF Called, TextFollowed, SignalSent
  <2>2. TextIn'
    BY <2>1 DEF TextIn
  <2>3. ~Replied'
    BY <2>1 DEF Replied
  <2> QED BY <2>1, <2>2, <2>3 DEF TextFollowed
<1>9. CASE PrintText
  <2>1. /\ Plain /\ TextIn /\ text' = text /\ form' = text /\ L <= MAX_LEN
        /\ writer = "told" /\ writer' = writer /\ hbuf' = hbuf /\ hApp' = hApp
    BY <1>2, <1>9, TurnsStep DEF PrintText, TextFollowed, ServerHas
  <2>2. Strnlen(hbuf, BUFSIZE, L) /\ Strnlen(hbuf, MAX_LEN, L)
    BY <1>0, <2>1 DEF Strnlen, TextIn, Plain
  <2>3. strnlen(hbuf, BUFSIZE) = L /\ strnlen(hbuf, MAX_LEN) = L
    BY <1>0, <2>1, <2>2, StrnlenOnly
  <2>4. /\ seen' = SubSeq(hbuf, 1, L) /\ len' = L /\ pair' = 0
        /\ server' = IF hApp = "global_async" THEN "answer" ELSE "swap"
    BY <1>9, <2>3 DEF PrintText
  <2>5. hbuf \in Seq(Bytes) /\ Len(hbuf) = BUFSIZE
    OBVIOUS
  <2>6. SubSeq(hbuf, 1, L) = text
    <3>1. /\ SubSeq(hbuf, 1, L) \in Seq(Bytes) /\ Len(SubSeq(hbuf, 1, L)) = L
          /\ \A i \in 1..L : SubSeq(hbuf, 1, L)[i] = hbuf[i]
      BY <1>0, <2>1, <2>5, SubSeqProperties
    <3> QED BY <2>1, <3>1, SeqEqual DEF TextIn
  <2>7. (SwappedIn(0))'
    BY <1>0, <2>1 DEF SwappedIn, TextIn
  <2>8. hApp = "global_async" => (ResultIn(hbuf))'
    BY <2>1 DEF ResultIn, Result, TextIn
  <2>9. 0 <= L \div 2 /\ ~Replied' /\ ~SignalSent'
    BY <1>0, <2>4 DEF Replied, SignalSent
  <2> QED BY <2>1, <2>4, <2>6, <2>7, <2>8, <2>9 DEF TextFollowed
<1>10. CASE Swap
  <2>1. /\ Plain /\ text' = text /\ form' = text /\ L <= MAX_LEN /\ writer = "told" /\ writer' = writer
        /\ hApp # "global_async" /\ hApp' = hApp /\ len = L /\ len' = len
        /\ pair <= L \div 2 /\ SwappedIn(pair) /\ seen = text /\ seen' = seen
    BY <1>2, <1>10, TurnsStep DEF Swap, TextFollowed, ServerHas
  <2>2. CASE pair < L \div 2
    <3>1. /\ pair + 1 \in 1..L /\ L - pair \in 1..L /\ pair + 1 < L - pair
          /\ pair + 1 <= L \div 2
      BY <1>0, <2>2
    <3>2. /\ hbuf' = [hbuf EXCEPT ![pair + 1] = hbuf[L - pair],
                                  ![L - pair] = hbuf[pair + 1]]
          /\ pair' = pair + 1 /\ server' = "swap"
      BY <1>10, <2>1, <2>2 DEF Swap
    <3>3. /\ hbuf'[pair + 1] = hbuf[L - pair] /\ hbuf'[L - pair] = hbuf[pair + 1]
          /\ \A i \in 1..L : i # pair + 1 /\ i # L - pair => hbuf'[i] = hbuf[i]
      BY <1>0, <2>1, <3>1, <3>2
    <3>4. hbuf[L - pair] = text[L - pair] /\ hbuf[pair + 1] = text[pair + 1]
      <4>1. /\ ~(pair + 1 <= pair \/ pair + 1 > L - pair)
            /\ ~(L - pair <= pair \/ L - pair > L - pair)
        BY <1>0, <3>1
      <4>2. \A i \in 1..L : ~(i <= pair \/ i > L - pair) => hbuf[i] = text[i]
        BY <2>1 DEF SwappedIn
      <4> HIDE DEF L
      <4> QED BY <3>1, <4>1, <4>2
    <3>5. ASSUME NEW i \in 1..L
          PROVE  hbuf'[i] = IF i <= pair + 1 \/ i > L - (pair + 1)
                            THEN text[L + 1 - i] ELSE text[i]
      <4>1. CASE i = pair + 1
        <5>1. L + 1 - i = L - pair
          BY <1>0, <4>1
        <5> QED BY <3>3, <3>4, <4>1, <5>1
      <4>2. CASE i = L - pair
        <5>1. L + 1 - i = pair + 1 /\ i > L - (pair + 1)
          BY <1>0, <4>2
        <5> QED BY <3>3, <3>4, <4>2, <5>1
      <4>3. CASE i # pair + 1 /\ i # L - pair
        <5>1. (i <= pair + 1 \/ i > L - (pair + 1)) <=> (i <= pair \/ i > L - pair)
          BY <1>0, <3>1, <4>3
        <5> QED BY <2>1, <3>3, <4>3, <5>1 DEF SwappedIn
      <4> QED BY <4>1, <4>2, <4>3
    <3>6. (SwappedIn(pair))'
      BY <2>1, <3>2, <3>5 DEF SwappedIn
    <3> QED BY <2>1, <3>1, <3>2, <3>6 DEF TextFollowed, SignalSent, Replied
  <2>3. CASE ~(pair < L \div 2)
    <3>1. hbuf' = hbuf /\ server' = "answer"
      BY <1>10, <2>1, <2>3 DEF Swap
    <3>2. ASSUME NEW i \in 1..L, ~(i <= pair \/ i > L - pair) PROVE L + 1 - i = i
      <4>1. pair = L \div 2 /\ i > pair /\ i <= L - pair
        BY <1>0, <2>1, <2>3, <3>2
      <4> HIDE DEF L
      <4>2. L \in {2 * pair, 2 * pair + 1} /\ pair \in Nat
        BY <1>0, <4>1
      <4> QED BY <4>1, <4>2
    <3>3. (ResultIn(hbuf))'
      BY <2>1, <3>1, <3>2 DEF ResultIn, Result, SwappedIn
    <3> QED BY <2>1, <3>1, <3>3 DEF TextFollowed, SignalSent
  <2> QED BY <2>2, <2>3
<1>11. CASE AnswerBack
  <2>1. /\ Plain /\ text' = text /\ form' = text /\ L + 1 < BUFSIZE /\ ResultIn(hbuf) /\ hApp' = hApp
        /\ writer = "told" /\ writer' = writer /\ server' \in {"wait", "done"}
    BY <1>2, <1>11, TurnsStep DEF AnswerBack, TextFollowed, ServerHas
  <2>2. \A i \in 1..L : hbuf'[i] = hbuf[i]
    BY <1>0, <1>11, <2>1 DEF AnswerBack, event_handler_reply
  <2>3. (ResultIn(hbuf))'
    BY <2>1, <2>2 DEF ResultIn, Result
  <2>4. ~SignalSent'
    BY <1>11, TurnsStep DEF AnswerBack, event_handler_reply, SignalSent, ServerHas
  <2> QED BY <2>1, <2>3, <2>4 DEF TextFollowed
<1> QED BY <1>1, <1>3, <1>4, <1>5, <1>6, <1>7, <1>8, <1>9, <1>10, <1>11
        DEF HandNext, WriterStep, ServerStep

LEMMA HandInvariance == Spec => []HandInv
<1>1. Init => HandInv
  BY HandInitInv DEF Init
<1>2. HandInv /\ [Next]_vars => HandInv'
  <2> SUFFICES ASSUME HandInv, [HandNext]_handVars PROVE HandInv'
    BY SceneSteps
  <2>1. CASE HandNext
    BY <2>1, HandTypeStep, TurnsStep, TextStep DEF HandInv
  <2>2. CASE UNCHANGED handVars
    BY <2>2 DEF handVars, serverLocals, HandInv, HandTypeOK, Turns, WriterHas, SignalSent,
                ServerHas, Replied, TextFollowed, Plain, WrittenSoFar, TextIn, SwappedIn,
                ResultIn, Result
  <2> QED BY <2>1, <2>2
<1> QED BY <1>1, <1>2, PTL DEF Spec

LEMMA HandInvImplies == HandInv => HandOverFaithful
<1> SUFFICES ASSUME HandInv, Len(CString(text)) = Len(text), Literal(text) = Len(text),
                    Len(text) <= MAX_LEN
             PROVE  /\ server \in {"swap", "answer"} => seen = text
                    /\ writer = "back" =>
                         back = IF hApp = "global_async" THEN text ELSE ReverseOf(text)
  BY DEF HandOverFaithful
<1>1. Plain /\ text \in Seq(Bytes) /\ Len(text) \in Nat
  BY CStringFact, LiteralFact DEF HandInv, HandTypeOK, Plain
<1>2. server \in {"swap", "answer"} => seen = text
  BY <1>1 DEF HandInv, TextFollowed
<1>3. ASSUME writer = "back"
      PROVE  back = IF hApp = "global_async" THEN text ELSE ReverseOf(text)
  <2>1. back \in Seq(Bytes) /\ Len(back) = Len(text) /\ ResultIn(back)
    BY <1>1, <1>3 DEF HandInv, TextFollowed
  <2>2. CASE hApp = "global_async"
    BY <1>1, <2>1, <2>2, SeqEqual DEF ResultIn, Result
  <2>3. CASE hApp # "global_async"
    <3>1. back = [i \in 1..Len(text) |-> back[i]]
      BY <1>1, <2>1
    <3> QED BY <2>1, <2>3, <3>1 DEF ResultIn, Result, ReverseOf
  <2> QED BY <2>2, <2>3
<1> QED BY <1>2, <1>3

\* What is handed over in shared memory arrives whole, byte-wise writing,
\* reversing in place and the signalling notwithstanding, for every size of the
\* buffers and every text: the server of reversestring, rumprun_ethernet and
\* global_async prints the text that was written and the writer gets its
\* reverse (or the text itself) back, and in socket nobody writes a dataport
\* that another one reads.
THEOREM TextsArriveWhole == Spec => []TextsWhole
<1>1. HandInv /\ SpinInv => TextsWhole
  BY HandInvImplies, SpinInvImplies DEF TextsWhole
<1> QED BY <1>1, HandInvariance, SpinInvariance, PTL
-----------------------------------------------------------------------------
(* testdataportmux: the turn-taking of counter.c for any number of components *)
(* and any limit.                                                            *)

USE CountersAssumption

(* Remainders.                                                               *)

\* Quotient and remainder are unique.
LEMMA RemainderUnique ==
  ASSUME NEW n \in Nat \ {0}, NEW p \in Int, NEW q \in Int,
         NEW r \in 0..(n - 1), NEW s \in 0..(n - 1),
         n * p + r = n * q + s
  PROVE  r = s
<1>1. CASE p = q
  BY <1>1
<1>2. CASE p < q
  <2>1. n * q >= n * (p + 1)
    BY <1>2
  <2>2. n * (p + 1) = n * p + n
    OBVIOUS
  <2> QED BY <2>1, <2>2
<1>3. CASE q < p
  <2>1. n * p >= n * (q + 1)
    BY <1>3
  <2>2. n * (q + 1) = n * q + n
    OBVIOUS
  <2> QED BY <2>1, <2>2
<1> QED BY <1>1, <1>2, <1>3

\* Quotient and remainder of a count.
LEMMA Division ==
  ASSUME NEW n \in Nat \ {0}, NEW v \in Nat
  PROVE  /\ v \div n \in Int /\ v % n \in 0..(n - 1)
         /\ v = n * (v \div n) + (v % n)
<1>1. n \in Nat /\ n > 0
  OBVIOUS
<1> QED BY <1>1

\* A turn comes back after N counts.
LEMMA TurnReturns ==
  ASSUME NEW n \in Nat \ {0}, NEW v \in Nat
  PROVE  (v + n) % n = v % n
<1>1. PICK p \in Int : v = n * p + (v % n)
  BY Division
<1>2. PICK q \in Int : v + n = n * q + ((v + n) % n)
  <2>1. v + n \in Nat
    OBVIOUS
  <2> QED BY <2>1, Division
<1>3. v % n \in 0..(n - 1) /\ (v + n) % n \in 0..(n - 1)
  OBVIOUS
<1>4. n * (p + 1) = n * p + n
  OBVIOUS
<1> DEFINE r == v % n
           s == (v + n) % n
           P == p + 1
<1>5. n * P + r = n * q + s /\ P \in Int
  BY <1>1, <1>2, <1>3, <1>4
<1>6. r \in 0..(n - 1) /\ s \in 0..(n - 1)
  BY <1>3
<1> HIDE DEF r, s, P
<1>7. r = s
  BY <1>5, <1>6, RemainderUnique
<1> QED BY <1>7 DEF r, s
(* The inductive invariant.  A component between its wait and its swap has   *)
(* the turn, and the turn only moves when that component swaps; a component  *)
(* whose turn has come at Limit - 1 or later has seen the limit since.       *)

HasTurn == \A c \in IDs : muxPc[c] \in {"read", "cas"} => value % N = c

Retired ==
  \A c \in IDs : \A v \in (Limit - 1)..(value - 1) :
    v % N = c => muxPc[c] \in {"test", "done"}

NoneFailed == \A c \in IDs : muxPc[c] # "failed"

MuxInv == /\ MuxTypeOK
       /\ HasTurn
       /\ AssertHolds
       /\ NoneFailed
       /\ Retired
       /\ OvershootBounded

LEMMA MuxInitInv == MuxInit => MuxInv
<1> SUFFICES ASSUME MuxInit PROVE MuxInv
  OBVIOUS
<1>1. value = 0 /\ \A c \in IDs : muxPc[c] = "test"
  BY DEF MuxInit
<1>2. MuxTypeOK
  BY DEF MuxInit, MuxTypeOK
<1> QED BY <1>1, <1>2 DEF MuxInv, HasTurn, AssertHolds, NoneFailed, Retired,
           OvershootBounded

\* The swap of the component that has the turn, below the bound.
LEMMA SwapBelowBound ==
  ASSUME MuxInv, NEW c \in IDs, muxPc[c] = "cas"
  PROVE  value < Limit + N - 1
<1> SUFFICES ASSUME value = Limit + N - 1 PROVE FALSE
  BY DEF MuxInv, OvershootBounded, MuxTypeOK
<1>1. Limit - 1 \in Nat /\ Limit - 1 \in (Limit - 1)..(value - 1)
  OBVIOUS
<1>2. value = (Limit - 1) + N
  OBVIOUS
<1>3. value % N = (Limit - 1) % N
  BY <1>1, <1>2, TurnReturns
<1>4. value % N = c
  BY DEF MuxInv, HasTurn
<1> QED BY <1>1, <1>3, <1>4 DEF MuxInv, Retired

\* One step of one component.
LEMMA MuxStepInv ==
  ASSUME MuxInv, NEW c \in IDs, MuxStep(c)
  PROVE  MuxInv'
<1> USE DEF MuxTypeOK
<1>0. /\ value \in Nat /\ oldval \in [IDs -> Nat]
      /\ muxPc \in [IDs -> {"test", "turn", "read", "cas", "done", "failed"}]
  BY DEF MuxInv
<1>1. CASE Test(c)
  <2>1. value' = value /\ oldval' = oldval
        /\ muxPc' = [muxPc EXCEPT ![c] = IF value < Limit THEN "turn" ELSE "done"]
    BY <1>1 DEF Test, Below
  <2>2. Retired'
    <3>1. CASE value < Limit
      BY <1>0, <2>1, <3>1 DEF Retired
    <3>2. CASE ~(value < Limit)
      <4>1. muxPc' = [muxPc EXCEPT ![c] = "done"]
        BY <2>1, <3>2
      <4> QED BY <1>0, <2>1, <4>1 DEF MuxInv, Retired
    <3> QED BY <3>1, <3>2
  <2> QED BY <1>0, <2>1, <2>2 DEF MuxInv, HasTurn, AssertHolds, NoneFailed,
             OvershootBounded
<1>2. CASE Wait(c)
  <2>1. /\ value' = value /\ oldval' = oldval /\ value % N = c
        /\ muxPc[c] = "turn" /\ muxPc' = [muxPc EXCEPT ![c] = "read"]
    BY <1>2 DEF Wait, MyTurn
  <2>2. Retired'
    BY <1>0, <2>1 DEF MuxInv, Retired
  <2> QED BY <1>0, <2>1, <2>2 DEF MuxInv, HasTurn, AssertHolds, NoneFailed,
             OvershootBounded
<1>3. CASE Read(c)
  <2>1. /\ value' = value /\ oldval' = [oldval EXCEPT ![c] = value]
        /\ muxPc[c] = "read" /\ muxPc' = [muxPc EXCEPT ![c] = "cas"]
    BY <1>3 DEF Read
  <2>2. Retired'
    BY <1>0, <2>1 DEF MuxInv, Retired
  <2> QED BY <1>0, <2>1, <2>2 DEF MuxInv, HasTurn, AssertHolds, NoneFailed,
             OvershootBounded
<1>4. CASE CompareAndSwap(c)
  <2>1. muxPc[c] = "cas" /\ value = oldval[c] /\ value % N = c
    BY <1>4 DEF CompareAndSwap, MuxInv, AssertHolds, HasTurn
  <2>2. /\ value' = value + 1 /\ oldval' = oldval
        /\ muxPc' = [muxPc EXCEPT ![c] = "test"]
    BY <1>4, <2>1 DEF CompareAndSwap, Swapped
  <2>3. \A d \in IDs : muxPc'[d] \notin {"read", "cas"}
    BY <1>0, <2>1, <2>2 DEF MuxInv, HasTurn
  <2>4. OvershootBounded'
    BY <1>0, <2>1, <2>2, SwapBelowBound DEF OvershootBounded
  <2>5. Retired'
    <3>0. value' - 1 = value
      BY <1>0, <2>2
    <3> SUFFICES ASSUME NEW d \in IDs, NEW v \in (Limit - 1)..value, v % N = d
                 PROVE  muxPc'[d] \in {"test", "done"}
      BY <3>0 DEF Retired
    <3>1. CASE v = value
      BY <1>0, <2>1, <2>2, <3>1
    <3>2. CASE v \in (Limit - 1)..(value - 1)
      BY <1>0, <2>2, <3>2 DEF MuxInv, Retired
    <3> QED BY <1>0, <3>1, <3>2
  <2>6. MuxTypeOK' /\ NoneFailed'
    BY <1>0, <2>2 DEF MuxInv, NoneFailed
  <2> QED BY <2>3, <2>4, <2>5, <2>6 DEF MuxInv, HasTurn, AssertHolds
<1> QED BY <1>1, <1>2, <1>3, <1>4 DEF MuxStep

LEMMA MuxInvariance == Spec => []MuxInv
<1>1. MuxInv /\ [Next]_vars => MuxInv'
  <2> SUFFICES ASSUME MuxInv, [MuxNext]_muxVars PROVE MuxInv'
    BY SceneSteps
  <2>1. CASE MuxNext
    BY <2>1, MuxStepInv DEF MuxNext
  <2>2. CASE UNCHANGED muxVars
    BY <2>2 DEF muxVars, MuxInv, MuxTypeOK, HasTurn, AssertHolds, NoneFailed, Retired,
       OvershootBounded
  <2> QED BY <2>1, <2>2
<1>2. Init => MuxInv
  BY MuxInitInv DEF Init
<1> QED BY <1>1, <1>2, PTL DEF Spec
\* Type correctness.
THEOREM MuxTypeCorrect == Spec => []MuxTypeOK
<1>1. MuxInv => MuxTypeOK
  BY DEF MuxInv
<1> QED BY <1>1, MuxInvariance, PTL

\* The assertion at counter.c:34 holds for any number of components.
THEOREM SwapNeverFails == Spec => []AssertHolds
<1>1. MuxInv => AssertHolds
  BY DEF MuxInv
<1> QED BY <1>1, MuxInvariance, PTL

\* The stale loop test lets the count overshoot by N - 1 at most.
THEOREM CountBounded == Spec => []OvershootBounded
<1>1. MuxInv => OvershootBounded
  BY DEF MuxInv
<1> QED BY <1>1, MuxInvariance, PTL

HIDE CountersAssumption
-----------------------------------------------------------------------------
(* dhcp: the assignment of addresses for any set of clients and any number   *)
(* of addresses, enough or not.                                              *)

USE AddressAssumption
(* The inductive invariant.  The mutex is held exactly inside the critical   *)
(* sections; what Check found still holds in Assign, and what Offer found    *)
(* about the address itself (it is neither 0 nor the server's) for ever.     *)

Critical == {"offer", "offered", "check", "assign", "refuse"}

LockHeld == \A c \in DhcpClients : dhcpPc[c] \in Critical <=> dhcpLock = c

OfferUsable ==
  \A c \in DhcpClients :
    dhcpPc[c] \in {"offered", "request", "check", "assign", "refuse"} =>
      offer[c] # Unassigned /\ offer[c] # my_ip

AssignChecked ==
  \A c \in DhcpClients :
    dhcpPc[c] = "assign" => \A d \in DhcpClients : routing_table[d] # offer[c]

OneStepFromDone ==
  \A c \in DhcpClients : (ip[c] # Unassigned) <=> (dhcpPc[c] = "done")

ClientAndServerAgree == \A c \in DhcpClients : ip[c] = routing_table[c]

TableUnique ==
  \A c \in DhcpClients :
    routing_table[c] # Unassigned =>
      /\ routing_table[c] # my_ip
      /\ \A d \in DhcpClients \ {c} : routing_table[d] # routing_table[c]

DhcpInv == /\ DhcpTypeOK
       /\ LockHeld
       /\ OfferUsable
       /\ AssignChecked
       /\ OneStepFromDone
       /\ ClientAndServerAgree
       /\ TableUnique
       /\ RefusedOnlyIfTaken

\* Nothing is assigned, offered or locked at the start.
LEMMA DhcpInitInv == DhcpInit => DhcpInv
BY DEF DhcpInit, DhcpInv, DhcpTypeOK, Labels, Octets, Unassigned, LockHeld, Critical,
       OfferUsable, AssignChecked, OneStepFromDone, ClientAndServerAgree,
       TableUnique, RefusedOnlyIfTaken

\* The counter stays an octet.
LEMMA NextOctetType ==
  ASSUME NEW o \in Octets PROVE NextOctet(o) \in Octets
BY DEF NextOctet, Octets

\* Every step of a client or of its server thread keeps the types.
LEMMA DhcpTypeStep ==
  ASSUME DhcpInv, NEW c \in DhcpClients, DhcpStep(c)
  PROVE  DhcpTypeOK'
<1> USE DEF DhcpInv, DhcpTypeOK, Labels, Goto
<1>1. CASE DiscoverLock(c)    BY <1>1 DEF DiscoverLock
<1>2. CASE Offer(c)           BY <1>2, NextOctetType DEF Offer
<1>3. CASE DiscoverUnlock(c)  BY <1>3 DEF DiscoverUnlock
<1>4. CASE RequestLock(c)     BY <1>4 DEF RequestLock
<1>5. CASE Check(c)           BY <1>5 DEF Check
<1>6. CASE Assign(c)          BY <1>6 DEF Assign, Assigned
<1>7. CASE Refuse(c)          BY <1>7 DEF Refuse
<1> QED BY <1>1, <1>2, <1>3, <1>4, <1>5, <1>6, <1>7 DEF DhcpStep

\* The mutex is taken and released with the critical sections' ends.
LEMMA DhcpLockStep ==
  ASSUME DhcpInv, NEW c \in DhcpClients, DhcpStep(c)
  PROVE  LockHeld'
<1> USE DEF DhcpInv, DhcpTypeOK, LockHeld, Critical, Goto
<1>1. CASE DiscoverLock(c)    BY <1>1 DEF DiscoverLock
<1>2. CASE Offer(c)           BY <1>2 DEF Offer
<1>3. CASE DiscoverUnlock(c)  BY <1>3 DEF DiscoverUnlock
<1>4. CASE RequestLock(c)     BY <1>4 DEF RequestLock
<1>5. CASE Check(c)           BY <1>5 DEF Check
<1>6. CASE Assign(c)          BY <1>6 DEF Assign
<1>7. CASE Refuse(c)          BY <1>7 DEF Refuse
<1> QED BY <1>1, <1>2, <1>3, <1>4, <1>5, <1>6, <1>7 DEF DhcpStep

\* The rest of the invariant, action by action.
LEMMA TableStep ==
  ASSUME DhcpInv, NEW c \in DhcpClients, DhcpStep(c)
  PROVE  (OfferUsable /\ AssignChecked /\ OneStepFromDone
           /\ ClientAndServerAgree /\ TableUnique /\ RefusedOnlyIfTaken)'
<1> USE DEF DhcpInv, DhcpTypeOK, Goto, Unassigned
<1>1. CASE DiscoverLock(c) \/ DiscoverUnlock(c) \/ RequestLock(c) \/ Refuse(c)
  BY <1>1 DEF DiscoverLock, DiscoverUnlock, RequestLock, Refuse, OfferUsable,
     AssignChecked, OneStepFromDone, ClientAndServerAgree, TableUnique,
     RefusedOnlyIfTaken
<1>2. CASE Offer(c)
  BY <1>2 DEF Offer, Suitable, OfferUsable, AssignChecked, OneStepFromDone,
     ClientAndServerAgree, TableUnique, RefusedOnlyIfTaken
<1>3. CASE Check(c)
  <2>1. /\ dhcpPc[c] = "check" /\ offer[c] # Unassigned /\ offer[c] # my_ip
        /\ routing_table[c] = Unassigned
    BY <1>3 DEF Check, OfferUsable, OneStepFromDone, ClientAndServerAgree
  <2>2. Granted(c) => \A d \in DhcpClients : routing_table[d] # offer[c]
    BY <2>1 DEF Granted
  <2>3. ~Granted(c) => \E d \in DhcpClients \ {c} : routing_table[d] = offer[c]
    BY <2>1 DEF Granted
  <2> QED BY <1>3, <2>1, <2>2, <2>3 DEF Check, OfferUsable, AssignChecked,
             OneStepFromDone, ClientAndServerAgree, TableUnique,
             RefusedOnlyIfTaken
<1>4. CASE Assign(c)
  <2>1. /\ dhcpPc[c] = "assign" /\ offer[c] # Unassigned /\ offer[c] # my_ip
        /\ routing_table[c] = Unassigned
        /\ \A d \in DhcpClients : routing_table[d] # offer[c]
    BY <1>4 DEF Assign, OfferUsable, AssignChecked, OneStepFromDone,
                ClientAndServerAgree
  <2>2. \A d \in DhcpClients \ {c} : dhcpPc[d] \notin {"assign", "refuse"}
    BY <2>1 DEF LockHeld, Critical
  <2>3. /\ routing_table' = [routing_table EXCEPT ![c] = offer[c]]
        /\ ip' = [ip EXCEPT ![c] = offer[c]]
        /\ dhcpPc' = [dhcpPc EXCEPT ![c] = "done"] /\ offer' = offer
    BY <1>4 DEF Assign, Assigned
  <2>4. OfferUsable' /\ AssignChecked' /\ RefusedOnlyIfTaken'
    BY <2>2, <2>3 DEF OfferUsable, AssignChecked, RefusedOnlyIfTaken
  <2>5. OneStepFromDone' /\ ClientAndServerAgree'
    BY <2>1, <2>3 DEF OneStepFromDone, ClientAndServerAgree
  <2>6. TableUnique'
    BY <2>1, <2>3 DEF TableUnique
  <2> QED BY <2>4, <2>5, <2>6
<1> QED BY <1>1, <1>2, <1>3, <1>4 DEF DhcpStep

LEMMA DhcpInvariance == Spec => []DhcpInv
<1>1. DhcpInv /\ [Next]_vars => DhcpInv'
  <2> SUFFICES ASSUME DhcpInv, [DhcpNext]_dhcpVars PROVE DhcpInv'
    BY SceneSteps
  <2>1. CASE DhcpNext
    <3> PICK c \in DhcpClients : DhcpStep(c)
      BY <2>1 DEF DhcpNext
    <3> QED BY DhcpTypeStep, DhcpLockStep, TableStep DEF DhcpInv
  <2>2. CASE UNCHANGED dhcpVars
    BY <2>2 DEF dhcpVars, DhcpInv, DhcpTypeOK, LockHeld, OfferUsable, AssignChecked,
       OneStepFromDone, ClientAndServerAgree, TableUnique, RefusedOnlyIfTaken
  <2> QED BY <2>1, <2>2
<1>2. Init => DhcpInv
  BY DhcpInitInv DEF Init
<1> QED BY <1>1, <1>2, PTL DEF Spec
\* Type correctness; next_offer_octet stays an octet whatever wraps.
THEOREM DhcpTypeCorrect == Spec => []DhcpTypeOK
<1>1. DhcpInv => DhcpTypeOK
  BY DEF DhcpInv
<1> QED BY <1>1, DhcpInvariance, PTL

\* For any clients and any address space, no address of server.c's subnet is
\* held twice and the server's own is never given away.
THEOREM AddressesAreUnique == Spec => []UniqueAddresses
<1>1. DhcpInv => UniqueAddresses
  BY DEF DhcpInv, UniqueAddresses, ClientAndServerAgree, TableUnique
<1> QED BY <1>1, DhcpInvariance, PTL

\* A DHCPNAK always has a reason: another client holds the address.
THEOREM RefusalJustified == Spec => []RefusedOnlyIfTaken
<1>1. DhcpInv => RefusedOnlyIfTaken
  BY DEF DhcpInv
<1> QED BY <1>1, DhcpInvariance, PTL

HIDE AddressAssumption
-----------------------------------------------------------------------------
(* picotcp_tcp_echo: the buffers between Echo and PicoServer, for any number *)
(* of them.                                                                  *)

\* Each queue and the pool hold buffers, none of them twice; no two of them hold
\* the same one, and together they hold all.
QueuesOfBufs ==
  /\ rx_buf_pool \in Seq(Bufs) /\ IsInjective(rx_buf_pool)
  /\ rxAvail \in Seq(Bufs) /\ IsInjective(rxAvail)
  /\ rxUsed \in Seq(Bufs) /\ IsInjective(rxUsed)
  /\ txAvail \in Seq(Bufs) /\ IsInjective(txAvail)
  /\ txUsed \in Seq(Bufs) /\ IsInjective(txUsed)
QueuesApart ==
  /\ Range(rx_buf_pool) \cap Range(rxAvail) = {} /\ Range(rx_buf_pool) \cap Range(rxUsed) = {}
  /\ Range(rx_buf_pool) \cap Range(txAvail) = {} /\ Range(rx_buf_pool) \cap Range(txUsed) = {}
  /\ Range(rxAvail) \cap Range(rxUsed) = {} /\ Range(rxAvail) \cap Range(txAvail) = {}
  /\ Range(rxAvail) \cap Range(txUsed) = {} /\ Range(rxUsed) \cap Range(txAvail) = {}
  /\ Range(rxUsed) \cap Range(txUsed) = {} /\ Range(txAvail) \cap Range(txUsed) = {}
NoneMissing ==
  Range(rx_buf_pool) \cup Range(rxAvail) \cup Range(rxUsed) \cup Range(txAvail)
    \cup Range(txUsed) = Bufs
PoolIdle == /\ Range(rx_buf_pool) \subseteq TcpBufs
            /\ tcp_echo_client > 0 => rx_buf_pool = <<>>

BufsInv == QueuesOfBufs /\ QueuesApart /\ NoneMissing /\ PoolIdle

LEMMA BufsFinite == IsFiniteSet(Bufs) /\ Cardinality(Bufs) \in Nat /\ Cardinality(Bufs) < QUEUE_LEN
<1>1. /\ IsFiniteSet(TcpBufs \cup UdpBufs)
      /\ Cardinality(TcpBufs \cup UdpBufs) =
           Cardinality(TcpBufs) + Cardinality(UdpBufs) - Cardinality(TcpBufs \cap UdpBufs)
  BY BuffersAssumption, FS_Union
<1>2. TcpBufs \cap UdpBufs = {} /\ Cardinality(TcpBufs \cap UdpBufs) = 0
  BY BuffersAssumption, FS_EmptySet
<1>3. Cardinality(TcpBufs) \in Nat /\ Cardinality(UdpBufs) \in Nat
  BY BuffersAssumption, FS_CardinalityType
<1> QED BY <1>1, <1>2, <1>3, BuffersAssumption, TuningAssumption DEF Bufs

\* The queue has room, as the constants are: nothing is dropped.
LEMMA AddFits ==
  ASSUME NEW queue \in Seq(Bufs), NEW used \in Seq(Bufs), NEW bs \in Seq(Bufs),
         IsInjective(queue), IsInjective(used), IsInjective(bs),
         Range(queue) \cap Range(used) = {}, Range(queue) \cap Range(bs) = {},
         Range(used) \cap Range(bs) = {}
  PROVE  /\ AddAvailable(queue, used, bs) = queue \o bs
         /\ queue \o bs \in Seq(Bufs) /\ IsInjective(queue \o bs)
         /\ Range(queue \o bs) = Range(queue) \cup Range(bs)
<1>1. /\ queue \o bs \in Seq(Bufs) /\ IsInjective(queue \o bs)
      /\ Range(queue \o bs) = Range(queue) \cup Range(bs)
      /\ Len(queue \o bs) = Len(queue) + Len(bs)
  BY ConcatDistinct, ConcatProperties
<1> DEFINE ab == queue \o bs
<1> HIDE DEF ab
<1>2. ab \in Seq(Bufs) /\ IsInjective(ab) /\ Range(ab) \cap Range(used) = {}
  BY <1>1 DEF ab
<1>3. ab \o used \in Seq(Bufs) /\ IsInjective(ab \o used) /\ Len(ab \o used) = Len(ab) + Len(used)
  BY <1>2, ConcatDistinct, ConcatProperties
<1>4. Len(ab \o used) <= Cardinality(Bufs)
  BY <1>3, BufsFinite, DistinctFinite
<1>5. Len(queue) + Len(used) + Len(bs) <= QUEUE_LEN
  <2>1. Len(ab) = Len(queue) + Len(bs)
    BY <1>1 DEF ab
  <2>2. Len(queue) \in Nat /\ Len(used) \in Nat /\ Len(bs) \in Nat
    OBVIOUS
  <2> QED BY <1>3, <1>4, <2>1, <2>2, BufsFinite, TuningAssumption
<1> QED BY <1>1, <1>5 DEF AddAvailable

LEMMA OneBuffer ==
  ASSUME NEW b \in Bufs
  PROVE  <<b>> \in Seq(Bufs) /\ IsInjective(<<b>>) /\ Range(<<b>>) = {b}
<1>1. <<b>> \in Seq(Bufs) /\ Len(<<b>>) = 1 /\ <<b>>[1] = b
  OBVIOUS
<1> DEFINE s == <<b>>
<1> HIDE DEF s
<1>2. s \in Seq(Bufs) /\ Len(s) = 1 /\ s[1] = b
  BY <1>1 DEF s
<1>3. Range(s) = {b} /\ IsInjective(s)
  BY <1>2, SingletonRange, RangeSeq
<1> QED BY <1>2, <1>3 DEF s

\* A buffer that is made available alone.
LEMMA AddOne ==
  ASSUME NEW queue \in Seq(Bufs), NEW used \in Seq(Bufs), NEW b \in Bufs,
         IsInjective(queue), IsInjective(used), Range(queue) \cap Range(used) = {},
         b \notin Range(queue), b \notin Range(used)
  PROVE  /\ AddAvailable(queue, used, <<b>>) = queue \o <<b>>
         /\ AddAvailable(queue, used, <<b>>) \in Seq(Bufs)
         /\ IsInjective(AddAvailable(queue, used, <<b>>))
         /\ Range(AddAvailable(queue, used, <<b>>)) = Range(queue) \cup {b}
<1> DEFINE s == <<b>>
<1>1. s \in Seq(Bufs) /\ IsInjective(s) /\ Range(s) = {b}
  BY OneBuffer
<1> HIDE DEF s
<1>2. Range(queue) \cap Range(s) = {} /\ Range(used) \cap Range(s) = {}
  BY <1>1
<1>3. /\ AddAvailable(queue, used, s) = queue \o s
      /\ queue \o s \in Seq(Bufs) /\ IsInjective(queue \o s)
      /\ Range(queue \o s) = Range(queue) \cup Range(s)
  BY <1>1, <1>2, AddFits
<1> QED BY <1>1, <1>3 DEF s

\* A buffer that is taken out of the middle of a queue.
LEMMA Removed ==
  ASSUME NEW q \in Seq(Bufs), IsInjective(q), NEW b, FirstFor(q, b)
  PROVE  /\ b \in Range(q) /\ b \in Bufs
         /\ RemoveFirst(q, b) \in Seq(Bufs) /\ IsInjective(RemoveFirst(q, b))
         /\ Range(RemoveFirst(q, b)) = Range(q) \ {b}
<1>1. b \in Range(q) /\ b \in Bufs
  BY RangeSeq DEF FirstFor
<1>2. PICK i \in 1..Len(q) : q[i] = b /\ RemoveFirst(q, b) = RemoveAt(q, i)
  BY <1>1, RemoveFirstAt
<1> QED BY <1>1, <1>2, RemovedDistinct

LEMMA ListedFact ==
  ASSUME NEW S, IsFiniteSet(S)
  PROVE  Listed(S) \in Seq(S) /\ IsInjective(Listed(S)) /\ Range(Listed(S)) = S
<1> DEFINE n == Cardinality(S)
<1>1. n \in Nat
  BY FS_CardinalityType
<1>2. ExistsBijection(1..n, S)
  BY FS_CardinalityType
<1>3. PICK f \in Bijection(1..n, S) : TRUE
  BY <1>2 DEF ExistsBijection
<1>4. f \in [1..n -> S] /\ \A b \in S : \E i \in DOMAIN f : f[i] = b
  BY <1>3 DEF Bijection, Injection, Surjection
<1> DEFINE s == Listed(S)
<1>5. s \in [1..n -> S] /\ \A b \in S : \E i \in DOMAIN s : s[i] = b
  BY <1>4 DEF Listed
<1> HIDE DEF s, n
<1>6. s \in Surjection(1..n, S)
  BY <1>5 DEF Surjection
<1>7. IsFiniteSet(1..n) /\ Cardinality(1..n) = Cardinality(S)
  BY <1>1, IntervalSize DEF n
<1>8. s \in Injection(1..n, S)
  BY <1>6, <1>7, FS_SurjSameCardinalityImpliesInj
<1>9. s \in Seq(S) /\ IsInjective(s) /\ Range(s) = S
  BY <1>1, <1>5, <1>8 DEF Injection, IsInjective, Range
<1> QED BY <1>9 DEF s

LEMMA BufsInitInv == AsyncInit => BufsInv
<1> SUFFICES ASSUME AsyncInit PROVE BufsInv
  OBVIOUS
<1>1. /\ Listed(TcpBufs) \in Seq(TcpBufs) /\ IsInjective(Listed(TcpBufs))
      /\ Range(Listed(TcpBufs)) = TcpBufs
      /\ Listed(UdpBufs) \in Seq(UdpBufs) /\ IsInjective(Listed(UdpBufs))
      /\ Range(Listed(UdpBufs)) = UdpBufs
  BY ListedFact, BuffersAssumption
<1>2. Listed(TcpBufs) \in Seq(Bufs) /\ Listed(UdpBufs) \in Seq(Bufs)
  BY <1>1, SeqMonotonic DEF Bufs
<1>3. /\ rx_buf_pool = Listed(TcpBufs) /\ rxAvail = Listed(UdpBufs)
      /\ rxUsed = <<>> /\ txAvail = <<>> /\ txUsed = <<>> /\ tcp_echo_client = 0
  BY DEF AsyncInit, EchoSetup, TcpSetup, UdpSetup
<1>4. Range(<<>>) = {} /\ IsInjective(<<>>) /\ <<>> \in Seq(Bufs)
  BY EmptyFact
<1>5. QueuesOfBufs
  BY <1>1, <1>2, <1>3, <1>4 DEF QueuesOfBufs
<1>6. Range(rx_buf_pool) = TcpBufs /\ Range(rxAvail) = UdpBufs /\ Range(rxUsed) = {}
      /\ Range(txAvail) = {} /\ Range(txUsed) = {}
  BY <1>1, <1>3, <1>4
<1>7. QueuesApart /\ NoneMissing
  BY <1>6, BuffersAssumption DEF QueuesApart, NoneMissing, Bufs
<1>8. PoolIdle
  BY <1>3, <1>6 DEF PoolIdle
<1> QED BY <1>5, <1>7, <1>8 DEF BufsInv

\* A buffer goes from one place to another in every step that moves buffers,
\* but a new client gets all that are in the pool.
LEMMA BufsStepInv == BufsInv /\ AsyncNext => BufsInv'
<1> SUFFICES ASSUME BufsInv, AsyncNext PROVE BufsInv'
  OBVIOUS
<1> USE DEF BufsInv
<1>0. QueuesOfBufs /\ QueuesApart /\ NoneMissing /\ PoolIdle
  OBVIOUS
<1>1. ASSUME UNCHANGED <<rx_buf_pool, queues>>,
             tcp_echo_client' = tcp_echo_client \/ tcp_echo_client' = -1
      PROVE  BufsInv'
  <2>1. UNCHANGED <<rx_buf_pool, rxAvail, rxUsed, txAvail, txUsed>>
    BY <1>1 DEF queues
  <2>2. QueuesOfBufs' /\ QueuesApart' /\ NoneMissing'
    BY <1>0, <2>1 DEF QueuesOfBufs, QueuesApart, NoneMissing
  <2>3. PoolIdle'
    BY <1>0, <1>1, <2>1 DEF PoolIdle
  <2> QED BY <2>2, <2>3
<1>2. ASSUME NEW c, SConnect(c) PROVE BufsInv'
  BY <1>1, <1>2 DEF SConnect
<1>3. ASSUME NEW c, NEW e, SEvent(c, e) PROVE BufsInv'
  BY <1>1, <1>3 DEF SEvent
<1>4. ASSUME NEW b, \/ \E n : SReceive(b, n)
                    \/ \E n : SReturn(b, n)
      PROVE  BufsInv'
  <2>1. /\ FirstFor(rxAvail, b)
        /\ rxAvail' = RemoveFirst(rxAvail, b) /\ rxUsed' = Append(rxUsed, b)
        /\ UNCHANGED <<rx_buf_pool, txAvail, txUsed, tcp_echo_client>>
    BY <1>4 DEF SReceive, SReturn
  <2>2. /\ b \in Range(rxAvail) /\ b \in Bufs
        /\ rxAvail' \in Seq(Bufs) /\ IsInjective(rxAvail')
        /\ Range(rxAvail') = Range(rxAvail) \ {b}
    BY <1>0, <2>1, Removed DEF QueuesOfBufs
  <2>3. /\ rxUsed' \in Seq(Bufs) /\ IsInjective(rxUsed')
        /\ Range(rxUsed') = Range(rxUsed) \cup {b}
    <3>1. b \notin Range(rxUsed)
      BY <1>0, <2>2 DEF QueuesApart
    <3> QED BY <1>0, <2>1, <2>2, <3>1, AppendDistinct DEF QueuesOfBufs
  <2>4. QueuesOfBufs'
    BY <1>0, <2>1, <2>2, <2>3 DEF QueuesOfBufs
  <2>5. QueuesApart' /\ NoneMissing'
    BY <1>0, <2>1, <2>2, <2>3 DEF QueuesApart, NoneMissing
  <2> QED BY <1>0, <2>1, <2>4, <2>5 DEF PoolIdle
<1>5. ASSUME NEW b, SSend(b) PROVE BufsInv'
  <2>1. /\ FirstFor(txAvail, b)
        /\ txAvail' = RemoveFirst(txAvail, b) /\ txUsed' = Append(txUsed, b)
        /\ UNCHANGED <<rx_buf_pool, rxAvail, rxUsed, tcp_echo_client>>
    BY <1>5 DEF SSend
  <2>2. /\ b \in Range(txAvail) /\ b \in Bufs
        /\ txAvail' \in Seq(Bufs) /\ IsInjective(txAvail')
        /\ Range(txAvail') = Range(txAvail) \ {b}
    BY <1>0, <2>1, Removed DEF QueuesOfBufs
  <2>3. /\ txUsed' \in Seq(Bufs) /\ IsInjective(txUsed')
        /\ Range(txUsed') = Range(txUsed) \cup {b}
    <3>1. b \notin Range(txUsed)
      BY <1>0, <2>2 DEF QueuesApart
    <3> QED BY <1>0, <2>1, <2>2, <3>1, AppendDistinct DEF QueuesOfBufs
  <2>4. QueuesOfBufs'
    BY <1>0, <2>1, <2>2, <2>3 DEF QueuesOfBufs
  <2>5. QueuesApart' /\ NoneMissing'
    BY <1>0, <2>1, <2>2, <2>3 DEF QueuesApart, NoneMissing
  <2> QED BY <1>0, <2>1, <2>4, <2>5 DEF PoolIdle
<1>6. CASE TcpConn
  <2>1. /\ rxAvail' = AddAvailable(rxAvail, rxUsed, Reverse(rx_buf_pool))
        /\ rx_buf_pool' = <<>>
        /\ UNCHANGED <<rxUsed, txAvail, txUsed>>
    BY <1>6 DEF TcpConn
  <2>2. /\ Reverse(rx_buf_pool) \in Seq(Bufs) /\ IsInjective(Reverse(rx_buf_pool))
        /\ Range(Reverse(rx_buf_pool)) = Range(rx_buf_pool)
    BY <1>0, ReversedDistinct DEF QueuesOfBufs
  <2>3. /\ rxAvail' \in Seq(Bufs) /\ IsInjective(rxAvail')
        /\ Range(rxAvail') = Range(rxAvail) \cup Range(rx_buf_pool)
    <3>1. /\ Range(rxAvail) \cap Range(rxUsed) = {}
          /\ Range(rxAvail) \cap Range(Reverse(rx_buf_pool)) = {}
          /\ Range(rxUsed) \cap Range(Reverse(rx_buf_pool)) = {}
      BY <1>0, <2>2 DEF QueuesApart
    <3>2. /\ rxAvail' = rxAvail \o Reverse(rx_buf_pool)
          /\ rxAvail \o Reverse(rx_buf_pool) \in Seq(Bufs)
          /\ IsInjective(rxAvail \o Reverse(rx_buf_pool))
          /\ Range(rxAvail \o Reverse(rx_buf_pool)) =
               Range(rxAvail) \cup Range(Reverse(rx_buf_pool))
      <4>1. /\ rxAvail \in Seq(Bufs) /\ rxUsed \in Seq(Bufs)
            /\ IsInjective(rxAvail) /\ IsInjective(rxUsed)
        BY <1>0 DEF QueuesOfBufs
      <4> QED BY <2>1, <2>2, <3>1, <4>1, AddFits
    <3> QED BY <2>2, <3>2
  <2>4. /\ rx_buf_pool' \in Seq(Bufs) /\ IsInjective(rx_buf_pool')
        /\ Range(rx_buf_pool') = {}
    BY <2>1, EmptyFact
  <2>5. QueuesOfBufs'
    BY <1>0, <2>1, <2>3, <2>4 DEF QueuesOfBufs
  <2>6. QueuesApart' /\ NoneMissing'
    BY <1>0, <2>1, <2>3, <2>4 DEF QueuesApart, NoneMissing
  <2> QED BY <2>1, <2>4, <2>5, <2>6 DEF PoolIdle
<1>7. CASE TcpEnd
  BY <1>1, <1>7 DEF TcpEnd
<1>8. CASE \/ ControlNotified \/ LoopEnds \/ PeerConn \/ \E stop : PeerEvent(stop)
           \/ Unregistered \/ PollInBranch \/ PollAgain \/ AsyncNotified \/ NextQueue
  BY <1>1, <1>8 DEF ControlNotified, LoopEnds, PeerConn, PeerEvent, Unregistered,
                    PollInBranch, PollAgain, AsyncNotified, NextQueue
<1>9. CASE Sent
  <2> DEFINE b == Head(txUsed)
  <2>1. /\ txUsed # <<>> /\ txUsed' = Tail(txUsed) /\ SentTo(b)
        /\ UNCHANGED <<tcp_echo_client, rxUsed, txAvail>>
    BY <1>9 DEF Sent
  <2>2. /\ b \in Bufs /\ b \in Range(txUsed)
        /\ txUsed' \in Seq(Bufs) /\ IsInjective(txUsed')
        /\ Range(txUsed') = Range(txUsed) \ {b}
    BY <1>0, <2>1, TailDistinct DEF QueuesOfBufs
  <2> HIDE DEF b
  <2>3. /\ b \notin Range(rx_buf_pool) /\ b \notin Range(rxAvail)
        /\ b \notin Range(rxUsed) /\ b \notin Range(txAvail)
    BY <1>0, <2>2 DEF QueuesApart
  <2>4. CASE Pooled(b)
    <3>1. rx_buf_pool' = Append(rx_buf_pool, b) /\ rxAvail' = rxAvail
      BY <2>1, <2>4 DEF SentTo
    <3>2. /\ rx_buf_pool' \in Seq(Bufs) /\ IsInjective(rx_buf_pool')
          /\ Range(rx_buf_pool') = Range(rx_buf_pool) \cup {b}
      BY <1>0, <2>2, <2>3, <3>1, AppendDistinct DEF QueuesOfBufs
    <3>3. b \in TcpBufs /\ tcp_echo_client = -1
      BY <2>4 DEF Pooled, Foreign
    <3>4. QueuesOfBufs'
      BY <1>0, <2>1, <2>2, <3>1, <3>2 DEF QueuesOfBufs
    <3>5. QueuesApart' /\ NoneMissing'
      BY <1>0, <2>1, <2>2, <2>3, <3>1, <3>2 DEF QueuesApart, NoneMissing
    <3> QED BY <1>0, <2>1, <3>2, <3>3, <3>4, <3>5 DEF PoolIdle
  <2>5. CASE ~Pooled(b)
    <3>1. rxAvail' = AddAvailable(rxAvail, rxUsed, <<b>>) /\ rx_buf_pool' = rx_buf_pool
      BY <2>1, <2>5 DEF SentTo
    <3>2. /\ rxAvail' \in Seq(Bufs) /\ IsInjective(rxAvail')
          /\ Range(rxAvail') = Range(rxAvail) \cup {b}
      <4>1. /\ rxAvail \in Seq(Bufs) /\ rxUsed \in Seq(Bufs)
            /\ IsInjective(rxAvail) /\ IsInjective(rxUsed)
            /\ Range(rxAvail) \cap Range(rxUsed) = {}
        BY <1>0 DEF QueuesOfBufs, QueuesApart
      <4>2. /\ AddAvailable(rxAvail, rxUsed, <<b>>) \in Seq(Bufs)
            /\ IsInjective(AddAvailable(rxAvail, rxUsed, <<b>>))
            /\ Range(AddAvailable(rxAvail, rxUsed, <<b>>)) = Range(rxAvail) \cup {b}
        <5>1. b \in Bufs /\ b \notin Range(rxAvail) /\ b \notin Range(rxUsed)
          BY <2>2, <2>3
        <5> QED BY <4>1, <5>1, AddOne
      <4> QED BY <3>1, <4>2
    <3>3. QueuesOfBufs'
      BY <1>0, <2>1, <2>2, <3>1, <3>2 DEF QueuesOfBufs
    <3>4. QueuesApart' /\ NoneMissing'
      BY <1>0, <2>1, <2>2, <2>3, <3>1, <3>2 DEF QueuesApart, NoneMissing
    <3> QED BY <1>0, <2>1, <3>1, <3>3, <3>4 DEF PoolIdle
  <2> QED BY <2>4, <2>5
<1>10. CASE Received
  <2> DEFINE b == Head(rxUsed)
  <2>1. /\ rxUsed # <<>> /\ rxUsed' = Tail(rxUsed)
        /\ UNCHANGED <<tcp_echo_client, txUsed>>
        /\ \/ /\ Pooled(b) /\ rx_buf_pool' = Append(rx_buf_pool, b)
              /\ UNCHANGED <<rxAvail, txAvail>>
           \/ /\ rxAvail' = AddAvailable(rxAvail, Tail(rxUsed), <<b>>)
              /\ UNCHANGED <<rx_buf_pool, txAvail>>
           \/ /\ txAvail' = AddAvailable(txAvail, txUsed, <<b>>)
              /\ UNCHANGED <<rx_buf_pool, rxAvail>>
    BY <1>10 DEF Received
  <2>2. /\ b \in Bufs /\ b \in Range(rxUsed)
        /\ rxUsed' \in Seq(Bufs) /\ IsInjective(rxUsed')
        /\ Range(rxUsed') = Range(rxUsed) \ {b}
    BY <1>0, <2>1, TailDistinct DEF QueuesOfBufs
  <2> HIDE DEF b
  <2>3. /\ b \notin Range(rx_buf_pool) /\ b \notin Range(rxAvail)
        /\ b \notin Range(txUsed) /\ b \notin Range(txAvail) /\ b \notin Range(rxUsed')
    BY <1>0, <2>2 DEF QueuesApart
  <2>7. \A q, w \in Seq(Bufs) :
          /\ IsInjective(q) /\ IsInjective(w) /\ Range(q) \cap Range(w) = {}
          /\ b \notin Range(q) /\ b \notin Range(w)
          => /\ AddAvailable(q, w, <<b>>) \in Seq(Bufs)
             /\ IsInjective(AddAvailable(q, w, <<b>>))
             /\ Range(AddAvailable(q, w, <<b>>)) = Range(q) \cup {b}
    <3> TAKE q \in Seq(Bufs), w \in Seq(Bufs)
    <3> HAVE /\ IsInjective(q) /\ IsInjective(w) /\ Range(q) \cap Range(w) = {}
             /\ b \notin Range(q) /\ b \notin Range(w)
    <3> QED BY <2>2, AddOne, Zenon
  <2>4. CASE /\ Pooled(b) /\ rx_buf_pool' = Append(rx_buf_pool, b)
             /\ UNCHANGED <<rxAvail, txAvail>>
    <3>1. /\ rx_buf_pool' \in Seq(Bufs) /\ IsInjective(rx_buf_pool')
          /\ Range(rx_buf_pool') = Range(rx_buf_pool) \cup {b}
      BY <1>0, <2>2, <2>3, <2>4, AppendDistinct DEF QueuesOfBufs
    <3>2. b \in TcpBufs /\ tcp_echo_client = -1
      BY <2>4 DEF Pooled, Foreign
    <3>3. QueuesOfBufs'
      BY <1>0, <2>1, <2>2, <2>4, <3>1 DEF QueuesOfBufs
    <3>4. QueuesApart' /\ NoneMissing'
      BY <1>0, <2>1, <2>2, <2>3, <2>4, <3>1 DEF QueuesApart, NoneMissing
    <3> QED BY <1>0, <2>1, <3>1, <3>2, <3>3, <3>4 DEF PoolIdle
  <2>5. CASE /\ rxAvail' = AddAvailable(rxAvail, Tail(rxUsed), <<b>>)
             /\ UNCHANGED <<rx_buf_pool, txAvail>>
    <3>1. Range(rxAvail) \cap Range(rxUsed') = {}
      BY <1>0, <2>2 DEF QueuesApart
    <3>2. /\ rxAvail' \in Seq(Bufs) /\ IsInjective(rxAvail')
          /\ Range(rxAvail') = Range(rxAvail) \cup {b}
      <4>1. rxAvail \in Seq(Bufs) /\ IsInjective(rxAvail)
        BY <1>0 DEF QueuesOfBufs
      <4>2. rxAvail' = AddAvailable(rxAvail, rxUsed', <<b>>)
        BY <2>1, <2>5
      <4> QED BY <2>2, <2>3, <2>7, <3>1, <4>1, <4>2, Zenon
    <3>3. QueuesOfBufs'
      BY <1>0, <2>1, <2>2, <2>5, <3>2 DEF QueuesOfBufs
    <3>4. QueuesApart' /\ NoneMissing'
      BY <1>0, <2>1, <2>2, <2>3, <2>5, <3>2 DEF QueuesApart, NoneMissing
    <3> QED BY <1>0, <2>1, <2>5, <3>3, <3>4 DEF PoolIdle
  <2>6. CASE /\ txAvail' = AddAvailable(txAvail, txUsed, <<b>>)
             /\ UNCHANGED <<rx_buf_pool, rxAvail>>
    <3>1. /\ txAvail' \in Seq(Bufs) /\ IsInjective(txAvail')
          /\ Range(txAvail') = Range(txAvail) \cup {b}
      <4>1. /\ txAvail \in Seq(Bufs) /\ txUsed \in Seq(Bufs)
            /\ IsInjective(txAvail) /\ IsInjective(txUsed)
            /\ Range(txAvail) \cap Range(txUsed) = {}
        BY <1>0 DEF QueuesOfBufs, QueuesApart
      <4> QED BY <2>2, <2>3, <2>6, <2>7, <4>1, Zenon
    <3>2. QueuesOfBufs'
      BY <1>0, <2>1, <2>2, <2>6, <3>1 DEF QueuesOfBufs
    <3>3. QueuesApart' /\ NoneMissing'
      BY <1>0, <2>1, <2>2, <2>3, <2>6, <3>1 DEF QueuesApart, NoneMissing
    <3> QED BY <1>0, <2>1, <2>6, <3>2, <3>3 DEF PoolIdle
  <2> QED BY <2>1, <2>4, <2>5, <2>6
<1> QED BY <1>2, <1>3, <1>4, <1>5, <1>6, <1>7, <1>8, <1>9, <1>10
        DEF AsyncNext, EchoThread, Server

LEMMA BufsInvariance == Spec => []BufsInv
<1>1. Init => BufsInv
  BY BufsInitInv DEF Init
<1>2. BufsInv /\ [Next]_vars => BufsInv'
  <2> SUFFICES ASSUME BufsInv, [AsyncNext]_asyncVars PROVE BufsInv'
    BY SceneSteps
  <2>1. CASE AsyncNext
    BY <2>1, BufsStepInv
  <2>2. CASE UNCHANGED asyncVars
    BY <2>2 DEF asyncVars, queues, BufsInv, QueuesOfBufs, QueuesApart, NoneMissing, PoolIdle
  <2> QED BY <2>1, <2>2
<1> QED BY <1>1, <1>2, PTL DEF Spec

\* For any number of buffers and any connections, no buffer is lost, none is in
\* two places, UDP buffers never get into the pool, and no buffer lies idle there
\* while a client is connected.
THEOREM EchoBuffersConserved == Spec => []AsyncBuffersConserved
<1>1. BufsInv => AsyncBuffersConserved
  <2> SUFFICES ASSUME BufsInv PROVE AsyncBuffersConserved
    OBVIOUS
  <2> USE DEF BufsInv
  <2> DEFINE p1 == rx_buf_pool \o rxAvail
             p2 == p1 \o rxUsed
             p3 == p2 \o txAvail
             p4 == p3 \o txUsed
  <2>0. QueuesOfBufs /\ QueuesApart /\ NoneMissing /\ PoolIdle
    OBVIOUS
  <2>1. p1 \in Seq(Bufs) /\ IsInjective(p1) /\ Range(p1) = Range(rx_buf_pool) \cup Range(rxAvail)
    BY <2>0, ConcatDistinct DEF QueuesOfBufs, QueuesApart
  <2> HIDE DEF p1
  <2>2. p2 \in Seq(Bufs) /\ IsInjective(p2) /\ Range(p2) = Range(p1) \cup Range(rxUsed)
    <3>1. Range(p1) \cap Range(rxUsed) = {}
      BY <2>0, <2>1 DEF QueuesApart
    <3> QED BY <2>0, <2>1, <3>1, ConcatDistinct DEF QueuesOfBufs
  <2> HIDE DEF p2
  <2>3. p3 \in Seq(Bufs) /\ IsInjective(p3) /\ Range(p3) = Range(p2) \cup Range(txAvail)
    <3>1. Range(p2) \cap Range(txAvail) = {}
      BY <2>0, <2>1, <2>2 DEF QueuesApart
    <3> QED BY <2>0, <2>2, <3>1, ConcatDistinct DEF QueuesOfBufs
  <2> HIDE DEF p3
  <2>4. p4 \in Seq(Bufs) /\ IsInjective(p4) /\ Range(p4) = Range(p3) \cup Range(txUsed)
    <3>1. Range(p3) \cap Range(txUsed) = {}
      BY <2>0, <2>1, <2>2, <2>3 DEF QueuesApart
    <3> QED BY <2>0, <2>3, <3>1, ConcatDistinct DEF QueuesOfBufs
  <2> HIDE DEF p4
  <2>5. Places = p4
    BY DEF Places, p1, p2, p3, p4
  <2>6. Range(p4) = Bufs
    BY <2>0, <2>1, <2>2, <2>3, <2>4 DEF NoneMissing
  <2>7. Len(p4) = Cardinality(Bufs)
    BY <2>4, <2>6, BufsFinite, DistinctFinite
  <2> QED BY <2>0, <2>5, <2>6, <2>7 DEF AsyncBuffersConserved, PoolIdle
<1> QED BY <1>1, BufsInvariance, PTL
-----------------------------------------------------------------------------
(* What is echoed, for any number of buffers, connections and chunks.        *)

Chan == AConns \cup {udp_socket}
Chunks == Chan \X Nat \X Nat
Fds == Chan \cup {0, -1}
Headers == [socket_fd : Fds, total_len : Nat, done_len : Nat \cup {-1},
            data : {<<>>} \cup Chunks]
EchoTypeOK ==
  /\ tcp_echo_client \in AConns \cup {0, -1}
  /\ msg \in [Bufs -> Headers]
  /\ aReceived \in [Chan -> Seq({"READ"} \cup Chunks)]
  /\ aEchoed \in [DataSocks -> Seq(Chunks)]

\* The buffers on their way back: what each carries is a chunk that its socket
\* received, and of the chunks of one socket the earlier ones are ahead.
Flying(b) == b \in Range(txAvail) \/ (b \in Range(rxUsed) /\ msg[b].done_len > 0)
Amount(b) == IF b \in Range(txAvail) THEN msg[b].total_len ELSE msg[b].done_len
Serial(b) == msg[b].data[2]
Carries(b) ==
  /\ msg[b].socket_fd \in Chan /\ msg[b].data \in Chunks
  /\ msg[b].data = <<msg[b].socket_fd, Serial(b), Amount(b)>>
  /\ Serial(b) \in 1..Len(aReceived[msg[b].socket_fd])
  /\ aReceived[msg[b].socket_fd][Serial(b)] = msg[b].data
Ahead(a, b) ==
  \/ Precedes(txAvail, a, b) \/ Precedes(rxUsed, a, b)
  \/ a \in Range(txAvail) /\ b \in Range(rxUsed)
InFlight == \A b \in Bufs : Flying(b) => Carries(b)
InOrder ==
  \A a, b \in Bufs :
    Flying(a) /\ Flying(b) /\ Ahead(a, b) /\ msg[a].socket_fd = msg[b].socket_fd
      => Serial(a) < Serial(b)

\* What a socket was sent it had received, in the order received, and before
\* all that is on its way.
EchoedSoFar(s) ==
  /\ \A i \in 1..Len(aEchoed[s]) :
       /\ aEchoed[s][i][2] \in 1..Len(aReceived[s])
       /\ aReceived[s][aEchoed[s][i][2]] = aEchoed[s][i]
       /\ \A b \in Bufs : Flying(b) /\ msg[b].socket_fd = s => aEchoed[s][i][2] < Serial(b)
  /\ \A i, j \in 1..Len(aEchoed[s]) : i < j => aEchoed[s][i][2] < aEchoed[s][j][2]
EchoInv == EchoTypeOK /\ InFlight /\ InOrder /\ \A s \in DataSocks : EchoedSoFar(s)

LEMMA EchoInitInv == AsyncInit => EchoInv
<1> SUFFICES ASSUME AsyncInit PROVE EchoInv
  OBVIOUS
<1>1. /\ tcp_echo_client = 0 /\ rxUsed = <<>> /\ txAvail = <<>>
      /\ msg = [b \in Bufs |-> IF b \in TcpBufs THEN TcpBuffer ELSE UdpBuffer]
      /\ aReceived = [s \in AConns \cup {udp_socket} |-> <<>>]
      /\ aEchoed = [s \in DataSocks |-> <<>>]
  BY DEF AsyncInit, EchoSetup, TcpSetup
<1>2. TcpBuffer \in Headers /\ UdpBuffer \in Headers
  BY TuningAssumption DEF TcpBuffer, UdpBuffer, Headers, Fds, Chan
<1>3. EchoTypeOK
  BY <1>1, <1>2 DEF EchoTypeOK, Chan
<1>4. \A b : ~Flying(b)
  BY <1>1, EmptyFact DEF Flying
<1>5. \A s \in DataSocks : Len(aEchoed[s]) = 0
  BY <1>1
<1> QED BY <1>3, <1>4, <1>5 DEF EchoInv, InFlight, InOrder, EchoedSoFar

\* What a step needs that brings no new chunk on its way: the buffers still on
\* their way carry what they carried and keep their order.
OnTheWay ==
  /\ \A b \in Bufs : Flying(b)' =>
       /\ Flying(b) /\ Amount(b)' = Amount(b)
       /\ msg'[b].socket_fd = msg[b].socket_fd /\ msg'[b].data = msg[b].data
  /\ \A a, b \in Bufs : Flying(a)' /\ Flying(b)' /\ Ahead(a, b)' => Ahead(a, b)
Remembered ==
  \A s \in Chan : /\ Len(aReceived[s]) <= Len(aReceived'[s])
                  /\ \A i \in 1..Len(aReceived[s]) : aReceived'[s][i] = aReceived[s][i]

LEMMA FlightKept ==
  ASSUME EchoInv, EchoTypeOK', OnTheWay, Remembered
  PROVE  /\ InFlight' /\ InOrder'
         /\ \A s \in DataSocks : aEchoed'[s] = aEchoed[s] => EchoedSoFar(s)'
<1>1. /\ InFlight /\ InOrder /\ \A s \in DataSocks : EchoedSoFar(s)
      /\ \A s \in Chan : Len(aReceived[s]) \in Nat /\ Len(aReceived'[s]) \in Nat
  BY DEF EchoInv, EchoTypeOK
<1>2. ASSUME NEW b \in Bufs, Flying(b)' PROVE Carries(b)' /\ Serial(b)' = Serial(b)
  <2>1. /\ Flying(b) /\ Carries(b) /\ Amount(b)' = Amount(b) /\ Serial(b)' = Serial(b)
        /\ msg'[b].socket_fd = msg[b].socket_fd /\ msg'[b].data = msg[b].data
    BY <1>1, <1>2 DEF OnTheWay, InFlight, Serial
  <2>2. /\ Serial(b) \in 1..Len(aReceived'[msg[b].socket_fd])
        /\ aReceived'[msg[b].socket_fd][Serial(b)] = msg[b].data
    BY <1>1, <2>1 DEF Carries, Remembered
  <2> QED BY <2>1, <2>2 DEF Carries
<1>3. InFlight' /\ InOrder'
  BY <1>1, <1>2 DEF InFlight, InOrder, OnTheWay
<1>4. ASSUME NEW s \in DataSocks, aEchoed'[s] = aEchoed[s] PROVE EchoedSoFar(s)'
  <2>1. s \in Chan /\ EchoedSoFar(s)
    BY <1>1 DEF DataSocks, Chan, AConns
  <2>2. ASSUME NEW i \in 1..Len(aEchoed[s])
        PROVE  /\ aEchoed[s][i][2] \in 1..Len(aReceived'[s])
               /\ aReceived'[s][aEchoed[s][i][2]] = aEchoed[s][i]
    <3>1. aEchoed[s][i][2] \in 1..Len(aReceived[s]) /\ aReceived[s][aEchoed[s][i][2]] = aEchoed[s][i]
      BY <2>1 DEF EchoedSoFar
    <3>2. /\ Len(aReceived[s]) \in Nat /\ Len(aReceived'[s]) \in Nat
          /\ Len(aReceived[s]) <= Len(aReceived'[s])
          /\ \A k \in 1..Len(aReceived[s]) : aReceived'[s][k] = aReceived[s][k]
      BY <1>1, <2>1 DEF Remembered
    <3> QED BY <3>1, <3>2
  <2>3. ASSUME NEW i \in 1..Len(aEchoed[s]), NEW b \in Bufs, Flying(b)', msg'[b].socket_fd = s
        PROVE  aEchoed[s][i][2] < Serial(b)'
    BY <1>2, <2>1, <2>3 DEF EchoedSoFar, OnTheWay
  <2> QED BY <1>4, <2>1, <2>2, <2>3 DEF EchoedSoFar
<1> QED BY <1>3, <1>4

\* So do the steps that leave what is on its way where it is.
LEMMA NothingNew ==
  ASSUME EchoInv, EchoTypeOK', UNCHANGED <<rxUsed, txAvail, aEchoed>>, Remembered,
         \A b \in Range(rxUsed) \cup Range(txAvail) : msg'[b] = msg[b]
  PROVE  EchoInv'
<1>1. \A b : /\ Flying(b)' <=> Flying(b)
             /\ Flying(b) => msg'[b] = msg[b] /\ Amount(b)' = Amount(b)
  BY DEF Flying, Amount
<1>2. \A a, b : Ahead(a, b)' <=> Ahead(a, b)
  BY DEF Ahead, Precedes
<1>3. OnTheWay
  BY <1>1, <1>2 DEF OnTheWay
<1> QED BY <1>3, FlightKept DEF EchoInv

LEMMA EchoTypeStep == BufsInv /\ EchoTypeOK /\ InFlight /\ AsyncNext => EchoTypeOK'
<1> SUFFICES ASSUME BufsInv, EchoTypeOK, InFlight, AsyncNext PROVE EchoTypeOK'
  OBVIOUS
<1>1. ASSUME UNCHANGED <<msg, aReceived, aEchoed>>,
             tcp_echo_client' \in {tcp_echo_client, -1}
      PROVE  EchoTypeOK'
  BY <1>1 DEF EchoTypeOK
<1>2. ASSUME NEW c, SConnect(c) PROVE EchoTypeOK'
  BY <1>1, <1>2 DEF SConnect
<1>3. ASSUME NEW c \in AConns, NEW e \in {"READ", "CLOSE", "FIN"}, SEvent(c, e)
      PROVE  EchoTypeOK'
  <2>1. /\ aReceived' = [aReceived EXCEPT ![c] = IF e = "READ" THEN Append(@, e) ELSE @]
        /\ UNCHANGED <<msg, aEchoed, tcp_echo_client>>
    BY <1>3 DEF SEvent
  <2>2. c \in Chan /\ aReceived[c] \in Seq({"READ"} \cup Chunks)
    BY DEF Chan, EchoTypeOK
  <2>3. IF e = "READ" THEN Append(aReceived[c], e) \in Seq({"READ"} \cup Chunks) ELSE TRUE
    BY <2>2, AppendProperties
  <2> QED BY <2>1, <2>2, <2>3 DEF EchoTypeOK
<1>4. ASSUME NEW b \in Bufs, NEW n \in 1..READ_SIZE, SReceive(b, n) PROVE EchoTypeOK'
  <2> DEFINE s == msg[b].socket_fd
             chunk == <<s, Len(aReceived[s]) + 1, n>>
  <2>1. /\ Alive(s) /\ msg' = [msg EXCEPT ![b].done_len = n, ![b].data = chunk]
        /\ aReceived' = [aReceived EXCEPT ![s] = Append(@, chunk)]
        /\ UNCHANGED <<aEchoed, tcp_echo_client>>
    BY <1>4 DEF SReceive
  <2>2. s \in Chan /\ n \in Nat
    BY <2>1, TuningAssumption DEF Alive, Chan
  <2>3. aReceived[s] \in Seq({"READ"} \cup Chunks) /\ chunk \in Chunks
    BY <2>2 DEF EchoTypeOK, Chunks
  <2>4. msg[b] \in Headers
    BY DEF EchoTypeOK
  <2> HIDE DEF chunk, s
  <2>5. [msg[b] EXCEPT !.done_len = n, !.data = chunk] \in Headers
    BY <2>2, <2>3, <2>4 DEF Headers
  <2>6. msg' \in [Bufs -> Headers]
    BY <2>1, <2>5 DEF EchoTypeOK
  <2>7. Append(aReceived[s], chunk) \in Seq({"READ"} \cup Chunks)
    BY <2>3, AppendProperties
  <2> QED BY <2>1, <2>2, <2>6, <2>7 DEF EchoTypeOK
<1>5. ASSUME NEW b \in Bufs, NEW n \in {-1, 0}, SReturn(b, n) PROVE EchoTypeOK'
  <2>1. /\ msg' = [msg EXCEPT ![b].done_len = n]
        /\ UNCHANGED <<aReceived, aEchoed, tcp_echo_client>>
    BY <1>5 DEF SReturn
  <2>2. msg[b] \in Headers
    BY DEF EchoTypeOK
  <2>3. [msg[b] EXCEPT !.done_len = n] \in Headers
    BY <2>2 DEF Headers
  <2> QED BY <2>1, <2>3 DEF EchoTypeOK
<1>6. ASSUME NEW b \in Bufs, SSend(b) PROVE EchoTypeOK'
  <2> DEFINE s == msg[b].socket_fd
             chunk == <<msg[b].data[1], msg[b].data[2], msg[b].total_len>>
  <2>1. /\ FirstFor(txAvail, b)
        /\ \/ /\ aEchoed' = [aEchoed EXCEPT ![s] = Append(@, chunk)]
              /\ msg' = [msg EXCEPT ![b].done_len = msg[b].total_len]
           \/ msg' = [msg EXCEPT ![b].done_len = -1] /\ UNCHANGED aEchoed
        /\ UNCHANGED <<aReceived, tcp_echo_client>>
    BY <1>6 DEF SSend
  <2>2. b \in Range(txAvail)
    BY <2>1, Removed DEF BufsInv, QueuesOfBufs
  <2>3. msg[b].data \in Chunks /\ msg[b] \in Headers
    BY <2>2 DEF InFlight, Flying, Carries, EchoTypeOK
  <2>4. chunk \in Chunks
    BY <2>3 DEF Chunks, Headers
  <2> HIDE DEF chunk, s
  <2>5. /\ [msg[b] EXCEPT !.done_len = msg[b].total_len] \in Headers
        /\ [msg[b] EXCEPT !.done_len = -1] \in Headers
    BY <2>3 DEF Headers
  <2>6. msg' \in [Bufs -> Headers]
    BY <2>1, <2>5 DEF EchoTypeOK
  <2>7. [aEchoed EXCEPT ![s] = Append(@, chunk)] \in [DataSocks -> Seq(Chunks)]
    <3>1. s \in DataSocks => aEchoed[s] \in Seq(Chunks)
      BY DEF EchoTypeOK
    <3>2. s \in DataSocks => Append(aEchoed[s], chunk) \in Seq(Chunks)
      BY <2>4, <3>1, AppendProperties
    <3> QED BY <3>2 DEF EchoTypeOK
  <2> QED BY <2>1, <2>6, <2>7 DEF EchoTypeOK
<1>7. CASE TcpConn
  <2>1. PICK c \in AConns :
          /\ tcp_echo_client' = c
          /\ msg' = [b \in Bufs |->
               IF b \in Range(rx_buf_pool)
               THEN [msg[b] EXCEPT !.total_len = READ_SIZE, !.done_len = 0, !.socket_fd = c]
               ELSE msg[b]]
    BY <1>7 DEF TcpConn
  <2>2. ASSUME NEW b \in Bufs
        PROVE [msg[b] EXCEPT !.total_len = READ_SIZE, !.done_len = 0, !.socket_fd = c] \in Headers
    <3>1. msg[b] \in Headers /\ c \in Fds
      BY DEF EchoTypeOK, Fds, Chan
    <3> QED BY <3>1, TuningAssumption DEF Headers
  <2>3. msg' \in [Bufs -> Headers]
    BY <2>1, <2>2 DEF EchoTypeOK
  <2> QED BY <1>7, <2>1, <2>3 DEF TcpConn, EchoTypeOK
<1>8. CASE TcpEnd
  BY <1>1, <1>8 DEF TcpEnd
<1>9. CASE \/ ControlNotified \/ LoopEnds \/ PeerConn \/ \E stop : PeerEvent(stop)
           \/ Unregistered \/ PollInBranch \/ PollAgain \/ AsyncNotified \/ NextQueue
  BY <1>1, <1>9 DEF ControlNotified, LoopEnds, PeerConn, PeerEvent, Unregistered,
                    PollInBranch, PollAgain, AsyncNotified, NextQueue
<1>10. ASSUME NEW b \in Bufs
       PROVE  /\ ForClient(b) \in Headers
              /\ [msg[b] EXCEPT !.total_len = READ_SIZE, !.done_len = 0] \in Headers
              /\ msg[b].done_len \in Nat =>
                   [ForClient(b) EXCEPT !.total_len = msg[b].done_len] \in Headers
  <2>1. msg[b] \in Headers /\ tcp_echo_client \in Fds
    BY DEF EchoTypeOK, Fds, Chan
  <2>2. ForClient(b) \in Headers
    BY <2>1, TuningAssumption DEF Headers, ForClient
  <2>3. [msg[b] EXCEPT !.total_len = READ_SIZE, !.done_len = 0] \in Headers
    BY <2>1, TuningAssumption DEF Headers
  <2>4. msg[b].done_len \in Nat =>
          [ForClient(b) EXCEPT !.total_len = msg[b].done_len] \in Headers
    BY <2>2 DEF Headers
  <2> QED BY <2>2, <2>3, <2>4
<1>11. CASE Sent
  <2> DEFINE b == Head(txUsed)
  <2>1. /\ txUsed # <<>>
        /\ \/ msg' = [msg EXCEPT ![b] = [@ EXCEPT !.total_len = READ_SIZE, !.done_len = 0]]
           \/ msg' = [msg EXCEPT ![b] = ForClient(b)]
        /\ UNCHANGED <<tcp_echo_client, aReceived, aEchoed>>
    BY <1>11 DEF Sent
  <2>2. b \in Bufs
    BY <2>1, TailDistinct DEF BufsInv, QueuesOfBufs
  <2> HIDE DEF b
  <2>3. msg' \in [Bufs -> Headers]
    BY <1>10, <2>1, <2>2 DEF EchoTypeOK
  <2> QED BY <2>1, <2>3 DEF EchoTypeOK
<1>12. CASE Received
  <2> DEFINE b == Head(rxUsed)
  <2>1. /\ rxUsed # <<>>
        /\ \/ UNCHANGED msg
           \/ msg' = [msg EXCEPT ![b] = ForClient(b)]
           \/ /\ ~NothingToEcho(b)
              /\ msg' = [msg EXCEPT ![b] = [ForClient(b) EXCEPT !.total_len = msg[b].done_len]]
        /\ UNCHANGED <<tcp_echo_client, aReceived, aEchoed>>
    BY <1>12 DEF Received
  <2>2. b \in Bufs
    BY <2>1, TailDistinct DEF BufsInv, QueuesOfBufs
  <2> HIDE DEF b
  <2>3. ~NothingToEcho(b) => msg[b].done_len \in Nat
    BY <2>2 DEF NothingToEcho, NothingReceived, EchoTypeOK, Headers
  <2>4. msg' \in [Bufs -> Headers]
    BY <1>10, <2>1, <2>2, <2>3 DEF EchoTypeOK
  <2> QED BY <2>1, <2>4 DEF EchoTypeOK
<1> QED BY <1>2, <1>3, <1>4, <1>5, <1>6, <1>7, <1>8, <1>9, <1>11, <1>12
        DEF AsyncNext, EchoThread, Server

\* One more entry in what a socket received.
LEMMA OneMore ==
  ASSUME EchoTypeOK, NEW c \in Chan, NEW x \in {"READ"} \cup Chunks,
         aReceived' = [aReceived EXCEPT ![c] = Append(@, x)]
  PROVE  /\ Remembered
         /\ Len(aReceived'[c]) = Len(aReceived[c]) + 1
         /\ aReceived'[c][Len(aReceived[c]) + 1] = x
<1>1. aReceived[c] \in Seq({"READ"} \cup Chunks)
  BY DEF EchoTypeOK
<1> DEFINE t == Append(aReceived[c], x)
<1>2. /\ Len(t) = Len(aReceived[c]) + 1 /\ t[Len(aReceived[c]) + 1] = x
      /\ \A i \in 1..Len(aReceived[c]) : t[i] = aReceived[c][i]
      /\ Len(aReceived[c]) \in Nat
  BY <1>1, AppendProperties
<1> HIDE DEF t
<1>3. aReceived' = [aReceived EXCEPT ![c] = t]
  BY DEF t
<1>4. aReceived'[c] = t /\ \A s \in Chan \ {c} : aReceived'[s] = aReceived[s]
  BY <1>3 DEF EchoTypeOK
<1>5. \A s \in Chan : Len(aReceived[s]) \in Nat
  BY DEF EchoTypeOK
<1>6. ASSUME NEW s \in Chan
      PROVE  /\ Len(aReceived[s]) <= Len(aReceived'[s])
             /\ \A i \in 1..Len(aReceived[s]) : aReceived'[s][i] = aReceived[s][i]
  <2>1. CASE s = c
    BY <1>2, <1>4, <2>1
  <2>2. CASE s # c
    BY <1>4, <1>5, <2>2
  <2> QED BY <2>1, <2>2
<1> QED BY <1>2, <1>4, <1>6 DEF Remembered

LEMMA EchoStepInv == BufsInv /\ EchoInv /\ AsyncNext => EchoInv'
<1> SUFFICES ASSUME BufsInv, EchoInv, AsyncNext PROVE EchoInv'
  OBVIOUS
<1>1. EchoTypeOK /\ EchoTypeOK' /\ InFlight /\ InOrder /\ \A s \in DataSocks : EchoedSoFar(s)
  BY EchoTypeStep DEF EchoInv
<1>2. QueuesOfBufs /\ QueuesApart
  BY DEF BufsInv
<1>3. \A s \in Chan : Len(aReceived[s]) \in Nat
  BY <1>1 DEF EchoTypeOK
<1>4. aReceived' = aReceived => Remembered
  BY <1>3 DEF Remembered
<1>5. ASSUME UNCHANGED <<msg, rxUsed, txAvail, aReceived, aEchoed>> PROVE EchoInv'
  BY <1>1, <1>4, <1>5, NothingNew
<1>6. ASSUME NEW c, SConnect(c) PROVE EchoInv'
  BY <1>5, <1>6 DEF SConnect, queues
<1>7. ASSUME NEW c \in AConns, NEW e \in {"READ", "CLOSE", "FIN"}, SEvent(c, e)
      PROVE  EchoInv'
  <2>1. /\ aReceived' = [aReceived EXCEPT ![c] = IF e = "READ" THEN Append(@, e) ELSE @]
        /\ UNCHANGED <<msg, rxUsed, txAvail, aEchoed>>
    BY <1>7 DEF SEvent, queues
  <2>2. c \in Chan /\ aReceived[c] \in Seq({"READ"} \cup Chunks)
    BY <1>1 DEF Chan, EchoTypeOK
  <2>3. ASSUME e = "READ" PROVE Remembered
    <3>1. aReceived' = [aReceived EXCEPT ![c] = Append(@, e)] /\ e \in {"READ"} \cup Chunks
      BY <2>1, <2>3
    <3> QED BY <1>1, <2>2, <3>1, OneMore
  <2>4. ASSUME e # "READ" PROVE Remembered
    <3>1. aReceived' = aReceived
      BY <1>1, <2>1, <2>4 DEF EchoTypeOK
    <3> QED BY <1>4, <3>1
  <2>5. Remembered
    BY <2>3, <2>4
  <2> QED BY <1>1, <2>1, <2>5, NothingNew
\* A new chunk: all others on their way are ahead of it, with a lower number.
<1>8. ASSUME NEW b \in Bufs, NEW n \in 1..READ_SIZE, SReceive(b, n) PROVE EchoInv'
  <2> DEFINE s == msg[b].socket_fd
             k == Len(aReceived[s]) + 1
             chunk == <<s, k, n>>
  <2>1. /\ FirstFor(rxAvail, b) /\ Alive(s)
        /\ msg' = [msg EXCEPT ![b].done_len = n, ![b].data = chunk]
        /\ aReceived' = [aReceived EXCEPT ![s] = Append(@, chunk)]
        /\ rxUsed' = Append(rxUsed, b) /\ UNCHANGED <<txAvail, aEchoed>>
    BY <1>8 DEF SReceive
  <2>2. /\ s \in Chan /\ n \in Nat /\ n > 0 /\ k \in Nat
        /\ aReceived[s] \in Seq({"READ"} \cup Chunks) /\ chunk \in Chunks
        /\ chunk = <<s, k, n>> /\ chunk[2] = k
    BY <1>1, <2>1, TuningAssumption DEF Alive, Chan, EchoTypeOK, Chunks
  <2>3. /\ b \notin Range(rxUsed) /\ b \notin Range(txAvail)
        /\ Range(rxUsed') = Range(rxUsed) \cup {b}
        /\ \A x, y : Precedes(rxUsed', x, y) =>
             Precedes(rxUsed, x, y) \/ (y = b /\ x \in Range(rxUsed))
    <3>1. b \in Range(rxAvail)
      BY <1>2, <2>1, Removed DEF QueuesOfBufs
    <3>2. b \notin Range(rxUsed) /\ b \notin Range(txAvail)
      BY <1>2, <3>1 DEF QueuesApart
    <3>3. rxUsed \in Seq(Bufs) /\ IsInjective(rxUsed)
      BY <1>2 DEF QueuesOfBufs
    <3>4. Range(rxUsed') = Range(rxUsed) \cup {b}
      BY <2>1, <3>2, <3>3, AppendDistinct
    <3> QED BY <2>1, <3>2, <3>3, <3>4, PrecedesAppend
  <2>4. Remembered /\ Len(aReceived'[s]) = k /\ aReceived'[s][k] = chunk
    <3> HIDE DEF chunk, s
    <3> QED BY <1>1, <2>1, <2>2, OneMore
  <2>5. msg[b] \in Headers
    BY <1>1 DEF EchoTypeOK
  <2>6. /\ msg'[b].socket_fd = s /\ msg'[b].data = chunk /\ msg'[b].done_len = n
        /\ \A x \in Bufs : x # b => msg'[x] = msg[x]
    <3> HIDE DEF chunk, s
    <3>1. msg' = [msg EXCEPT ![b] = [msg[b] EXCEPT !.done_len = n, !.data = chunk]]
      BY <1>1, <2>1 DEF EchoTypeOK
    <3>2. msg'[b] = [msg[b] EXCEPT !.done_len = n, !.data = chunk]
          /\ \A x \in Bufs : x # b => msg'[x] = msg[x]
      BY <1>1, <3>1 DEF EchoTypeOK
    <3> QED BY <2>5, <3>2 DEF Headers, s
  <2> HIDE DEF chunk, s, k
  <2>7. \A r \in Chan : Len(aReceived'[r]) \in Nat
    BY <1>1 DEF EchoTypeOK
  <2>8. \A r \in Chan : /\ Len(aReceived[r]) <= Len(aReceived'[r])
                        /\ \A i \in 1..Len(aReceived[r]) : aReceived'[r][i] = aReceived[r][i]
    BY <2>4 DEF Remembered
  <2>9. ASSUME NEW x \in Bufs, x # b
        PROVE  /\ Flying(x)' <=> Flying(x)
               /\ Amount(x)' = Amount(x) /\ Serial(x)' = Serial(x) /\ msg'[x] = msg[x]
    <3>1. msg'[x] = msg[x] /\ txAvail' = txAvail
          /\ (x \in Range(rxUsed') <=> x \in Range(rxUsed))
      BY <2>1, <2>3, <2>6, <2>9
    <3> QED BY <3>1 DEF Flying, Amount, Serial
  <2>10. ASSUME NEW x \in Bufs, x # b, Flying(x)
         PROVE  Carries(x) /\ Carries(x)' /\ (msg[x].socket_fd = s => Serial(x) < k)
    <3>1. Carries(x)
      BY <1>1, <2>10 DEF InFlight
    <3>2. /\ Serial(x) \in 1..Len(aReceived'[msg[x].socket_fd])
          /\ aReceived'[msg[x].socket_fd][Serial(x)] = msg[x].data
      BY <1>3, <2>7, <2>8, <3>1 DEF Carries
    <3>3. msg[x].socket_fd = s => Serial(x) < k
      BY <1>3, <2>2, <3>1 DEF Carries, k
    <3> QED BY <2>9, <2>10, <3>1, <3>2, <3>3 DEF Carries
  <2>11. Amount(b)' = n /\ Serial(b)' = k /\ Carries(b)'
    <3>1. Amount(b)' = n /\ Serial(b)' = k
      BY <2>1, <2>2, <2>3, <2>6 DEF Amount, Serial
    <3> QED BY <1>3, <2>2, <2>4, <2>6, <2>7, <3>1 DEF Carries, chunk, k
  <2>12. InFlight'
    BY <2>9, <2>10, <2>11 DEF InFlight
  <2>13. \A x \in Bufs : ~Ahead(b, x)'
    <3> SUFFICES ASSUME NEW x \in Bufs, Ahead(b, x)' PROVE FALSE
      OBVIOUS
    <3>1. rxUsed \in Seq(Bufs) /\ txAvail \in Seq(Bufs) /\ txAvail' = txAvail
      BY <1>2, <2>1 DEF QueuesOfBufs
    <3>2. ~Precedes(rxUsed, b, x) /\ ~Precedes(txAvail, b, x)
      BY <2>3, <3>1, PrecedesIn
    <3> QED BY <2>3, <3>1, <3>2 DEF Ahead
  <2>14. \A x, y \in Bufs : Ahead(x, y)' /\ y # b => Ahead(x, y)
    BY <2>1, <2>3 DEF Ahead
  <2>15. InOrder'
    <3> SUFFICES ASSUME NEW x \in Bufs, NEW y \in Bufs, Flying(x)', Flying(y)', Ahead(x, y)',
                        msg'[x].socket_fd = msg'[y].socket_fd
                 PROVE  Serial(x)' < Serial(y)'
      BY DEF InOrder
    <3>1. x # b
      BY <2>13
    <3>2. CASE y = b
      BY <2>6, <2>9, <2>10, <2>11, <3>1, <3>2
    <3>3. CASE y # b
      BY <1>1, <2>9, <2>14, <3>1, <3>3 DEF InOrder
    <3> QED BY <3>2, <3>3
  <2>16. ASSUME NEW r \in DataSocks PROVE EchoedSoFar(r)'
    <3>1. r \in Chan /\ EchoedSoFar(r)
      BY <1>1 DEF DataSocks, Chan, AConns
    <3>2. ASSUME NEW i \in 1..Len(aEchoed[r])
          PROVE  /\ aEchoed[r][i][2] \in 1..Len(aReceived'[r])
                 /\ aReceived'[r][aEchoed[r][i][2]] = aEchoed[r][i]
                 /\ r = s => aEchoed[r][i][2] < k
      <4>1. /\ aEchoed[r][i][2] \in 1..Len(aReceived[r])
            /\ aReceived[r][aEchoed[r][i][2]] = aEchoed[r][i]
        BY <3>1 DEF EchoedSoFar
      <4>2. Len(aReceived[r]) \in Nat /\ Len(aReceived'[r]) \in Nat
        BY <1>1, <3>1 DEF EchoTypeOK
      <4> QED BY <2>8, <3>1, <4>1, <4>2 DEF k
    <3>3. ASSUME NEW i \in 1..Len(aEchoed[r]), NEW x \in Bufs, Flying(x)', msg'[x].socket_fd = r
          PROVE  aEchoed[r][i][2] < Serial(x)'
      <4>1. CASE x = b
        BY <2>6, <2>11, <3>2, <3>3, <4>1
      <4>2. CASE x # b
        BY <2>9, <3>1, <3>3, <4>2 DEF EchoedSoFar
      <4> QED BY <4>1, <4>2
    <3> QED BY <2>1, <3>1, <3>2, <3>3 DEF EchoedSoFar
  <2> QED BY <1>1, <2>12, <2>15, <2>16 DEF EchoInv
<1>9. ASSUME NEW b \in Bufs, NEW n \in {-1, 0}, SReturn(b, n) PROVE EchoInv'
  <2>1. /\ FirstFor(rxAvail, b) /\ msg' = [msg EXCEPT ![b].done_len = n]
        /\ rxUsed' = Append(rxUsed, b) /\ UNCHANGED <<txAvail, aReceived, aEchoed>>
    BY <1>9 DEF SReturn
  <2>2. /\ b \notin Range(txAvail) /\ b \notin Range(rxUsed)
        /\ rxUsed \in Seq(Bufs) /\ IsInjective(rxUsed)
    <3>1. b \in Range(rxAvail)
      BY <1>2, <2>1, Removed DEF QueuesOfBufs
    <3> QED BY <1>2, <3>1 DEF QueuesApart, QueuesOfBufs
  <2>3. /\ Range(rxUsed') = Range(rxUsed) \cup {b}
        /\ \A x, y : Precedes(rxUsed', x, y) => Precedes(rxUsed, x, y) \/ y = b
    BY <2>1, <2>2, AppendDistinct, PrecedesAppend
  <2>4. msg'[b].done_len = n /\ \A x \in Bufs : x # b => msg'[x] = msg[x]
    <3>1. msg' = [msg EXCEPT ![b] = [msg[b] EXCEPT !.done_len = n]] /\ msg[b] \in Headers
      BY <1>1, <2>1 DEF EchoTypeOK
    <3>2. /\ msg'[b] = [msg[b] EXCEPT !.done_len = n]
          /\ \A x \in Bufs : x # b => msg'[x] = msg[x]
      BY <1>1, <3>1 DEF EchoTypeOK
    <3> QED BY <3>1, <3>2 DEF Headers
  <2>5. ~Flying(b)'
    BY <2>1, <2>2, <2>4 DEF Flying
  <2>6. ASSUME NEW x \in Bufs, Flying(x)'
        PROVE  x # b /\ Flying(x) /\ Amount(x)' = Amount(x) /\ msg'[x] = msg[x]
    <3>1. /\ x # b /\ msg'[x] = msg[x] /\ txAvail' = txAvail
          /\ (x \in Range(rxUsed') <=> x \in Range(rxUsed))
      BY <2>1, <2>3, <2>4, <2>5, <2>6
    <3> QED BY <2>6, <3>1 DEF Flying, Amount
  <2>7. \A x, y \in Bufs : Ahead(x, y)' /\ y # b => Ahead(x, y)
    BY <2>1, <2>3 DEF Ahead
  <2>8. OnTheWay
    BY <2>6, <2>7 DEF OnTheWay
  <2> QED BY <1>1, <1>4, <2>1, <2>8, FlightKept DEF EchoInv
\* What is sent is ahead of all others that its socket has on their way.
<1>10. ASSUME NEW b \in Bufs, SSend(b) PROVE EchoInv'
  <2> DEFINE s == msg[b].socket_fd
             chunk == <<msg[b].data[1], msg[b].data[2], msg[b].total_len>>
  <2>1. /\ FirstFor(txAvail, b)
        /\ \/ /\ aEchoed' = [aEchoed EXCEPT ![s] = Append(@, chunk)]
              /\ msg' = [msg EXCEPT ![b].done_len = msg[b].total_len]
           \/ msg' = [msg EXCEPT ![b].done_len = -1] /\ UNCHANGED aEchoed
        /\ txAvail' = RemoveFirst(txAvail, b) /\ UNCHANGED <<rxUsed, aReceived>>
    BY <1>10 DEF SSend, queues
  <2>2. /\ txAvail \in Seq(Bufs) /\ IsInjective(txAvail) /\ b \in Range(txAvail)
        /\ b \notin Range(rxUsed) /\ Range(txAvail') = Range(txAvail) \ {b}
        /\ \A x, y : Precedes(txAvail', x, y) => Precedes(txAvail, x, y)
    <3>1. txAvail \in Seq(Bufs) /\ IsInjective(txAvail)
      BY <1>2 DEF QueuesOfBufs
    <3>2. b \in Range(txAvail) /\ Range(txAvail') = Range(txAvail) \ {b}
      BY <2>1, <3>1, Removed
    <3>3. \A x, y : Precedes(txAvail', x, y) => Precedes(txAvail, x, y)
      BY <2>1, <3>1, <3>2, PrecedesRemoved
    <3> QED BY <1>2, <3>1, <3>2, <3>3 DEF QueuesApart
  <2>3. \A x \in Bufs : x # b => msg'[x] = msg[x]
    BY <1>1, <2>1 DEF EchoTypeOK
  <2>4. ASSUME NEW x \in Bufs, Flying(x)'
        PROVE  x # b /\ Flying(x) /\ Amount(x)' = Amount(x) /\ msg'[x] = msg[x]
    <3>1. x # b
      BY <2>1, <2>2, <2>4 DEF Flying
    <3>2. msg'[x] = msg[x] /\ rxUsed' = rxUsed /\ (x \in Range(txAvail') <=> x \in Range(txAvail))
      BY <2>1, <2>2, <2>3, <3>1
    <3> QED BY <2>4, <3>1, <3>2 DEF Flying, Amount
  <2>5. \A x, y \in Bufs : Ahead(x, y)' => Ahead(x, y)
    BY <2>1, <2>2 DEF Ahead
  <2>6. OnTheWay
    BY <2>4, <2>5 DEF OnTheWay
  <2>7. /\ InFlight' /\ InOrder'
        /\ \A r \in DataSocks : aEchoed'[r] = aEchoed[r] => EchoedSoFar(r)'
    BY <1>4, <1>1, <2>1, <2>6, FlightKept
  <2>8. Carries(b) /\ Amount(b) = msg[b].total_len /\ Flying(b)
    BY <1>1, <2>2 DEF InFlight, Flying, Amount
  <2>9. /\ chunk = msg[b].data /\ chunk \in Chunks /\ chunk[2] = Serial(b) /\ s \in Chan
        /\ Serial(b) \in 1..Len(aReceived[s]) /\ aReceived[s][Serial(b)] = chunk
    BY <2>8 DEF Carries, Serial
  <2>10. ASSUME NEW x \in Bufs, Flying(x)', msg'[x].socket_fd = s PROVE Serial(b) < Serial(x)'
    <3>1. x # b /\ Flying(x) /\ msg'[x] = msg[x] /\ Serial(x)' = Serial(x)
      BY <2>4, <2>10 DEF Serial
    <3>2. Ahead(b, x)
      <4>1. CASE x \in Range(txAvail)
        <5>1. PICK i \in 1..Len(txAvail) : /\ txAvail[i] = b
                 /\ \A j \in 1..(i - 1) : msg[txAvail[j]].socket_fd # msg[b].socket_fd
          BY <2>1, <2>2, RangeSeq DEF FirstFor
        <5>2. \A j \in 1..(i - 1) : txAvail[j] # x
          BY <2>10, <3>1, <5>1
        <5> QED BY <2>2, <3>1, <4>1, <5>1, <5>2, PrecedesTotal DEF Ahead
      <4>2. CASE x \in Range(rxUsed)
        BY <2>2, <4>2 DEF Ahead
      <4> QED BY <3>1, <4>1, <4>2 DEF Flying
    <3> QED BY <1>1, <2>8, <2>10, <3>1, <3>2 DEF InOrder
  <2>11. ASSUME NEW r \in DataSocks, aEchoed'[r] # aEchoed[r] PROVE EchoedSoFar(r)'
    <3>1. r = s /\ aEchoed' = [aEchoed EXCEPT ![s] = Append(@, chunk)] /\ EchoedSoFar(s)
      BY <1>1, <2>1, <2>11 DEF EchoTypeOK
    <3>2. aEchoed[s] \in Seq(Chunks)
      BY <1>1, <2>11, <3>1 DEF EchoTypeOK
    <3> DEFINE t == Append(aEchoed[s], chunk)
               m == Len(aEchoed[s])
    <3>3. /\ m \in Nat /\ Len(t) = m + 1 /\ t[m + 1] = chunk
          /\ \A i \in 1..m : t[i] = aEchoed[s][i]
      BY <2>9, <3>2, AppendProperties
    <3>4. aEchoed'[s] = t
      BY <1>1, <2>11, <3>1 DEF EchoTypeOK
    <3> HIDE DEF t, m, chunk
    <3>5. \A i \in 1..m : /\ aEchoed[s][i][2] \in 1..Len(aReceived[s])
                          /\ aReceived[s][aEchoed[s][i][2]] = aEchoed[s][i]
                          /\ aEchoed[s][i][2] < Serial(b)
      BY <2>8, <3>1 DEF EchoedSoFar, m
    <3>6. \A i \in 1..m, j \in 1..m : i < j => aEchoed[s][i][2] < aEchoed[s][j][2]
      BY <3>1 DEF EchoedSoFar, m
    <3>7. Serial(b) \in Int /\ aReceived' = aReceived /\ s \in Chan
          /\ Len(aReceived[s]) \in Nat
      BY <1>3, <2>1, <2>9
    <3>8. ASSUME NEW i \in 1..(m + 1)
          PROVE  /\ t[i][2] \in 1..Len(aReceived[s]) /\ aReceived[s][t[i][2]] = t[i]
                 /\ t[i][2] <= Serial(b)
      <4>1. CASE i \in 1..m
        BY <3>3, <3>5, <3>7, <4>1
      <4>2. CASE i = m + 1
        BY <2>9, <3>3, <3>7, <4>2
      <4> QED BY <3>3, <4>1, <4>2
    <3>9. ASSUME NEW i \in 1..(m + 1), NEW x \in Bufs, Flying(x)', msg'[x].socket_fd = s
          PROVE  t[i][2] < Serial(x)'
      <4>1. Serial(b) < Serial(x)' /\ t[i][2] <= Serial(b) /\ t[i][2] \in Int
        BY <2>10, <3>7, <3>8, <3>9
      <4>2. Serial(x)' \in Int
        BY <2>7, <3>9 DEF InFlight, Carries
      <4> QED BY <3>7, <4>1, <4>2
    <3>10. ASSUME NEW i \in 1..(m + 1), NEW j \in 1..(m + 1), i < j PROVE t[i][2] < t[j][2]
      <4>1. i \in 1..m
        BY <3>3, <3>10
      <4>2. CASE j \in 1..m
        BY <3>3, <3>6, <3>10, <4>1, <4>2
      <4>3. CASE j = m + 1
        BY <2>9, <3>3, <3>5, <4>1, <4>3
      <4> QED BY <3>3, <4>2, <4>3
    <3>11. r = s /\ aEchoed'[r] = t /\ 1..Len(t) = 1..(m + 1) /\ aReceived'[r] = aReceived[s]
      BY <3>1, <3>3, <3>4, <3>7
    <3> HIDE DEF s
    <3>12. /\ \A i \in 1..Len(aEchoed'[r]) :
                /\ aEchoed'[r][i][2] \in 1..Len(aReceived'[r])
                /\ aReceived'[r][aEchoed'[r][i][2]] = aEchoed'[r][i]
                /\ \A x \in Bufs : Flying(x)' /\ msg'[x].socket_fd = r
                                      => aEchoed'[r][i][2] < Serial(x)'
          /\ \A i, j \in 1..Len(aEchoed'[r]) : i < j => aEchoed'[r][i][2] < aEchoed'[r][j][2]
      BY <3>8, <3>9, <3>10, <3>11
    <3> QED BY <3>12 DEF EchoedSoFar
  <2> QED BY <1>1, <2>7, <2>11 DEF EchoInv
\* A step that moves no buffer that is on its way.
<1>11. CASE TcpConn
  <2>1. PICK c \in AConns :
          msg' = [b \in Bufs |->
            IF b \in Range(rx_buf_pool)
            THEN [msg[b] EXCEPT !.total_len = READ_SIZE, !.done_len = 0, !.socket_fd = c]
            ELSE msg[b]]
    BY <1>11 DEF TcpConn
  <2>2. UNCHANGED <<rxUsed, txAvail, aReceived, aEchoed>>
    BY <1>11 DEF TcpConn
  <2>3. /\ Range(rxUsed) \subseteq Bufs /\ Range(txAvail) \subseteq Bufs
        /\ Range(rx_buf_pool) \cap Range(rxUsed) = {}
        /\ Range(rx_buf_pool) \cap Range(txAvail) = {}
    BY <1>2, RangeSeq DEF QueuesOfBufs, QueuesApart
  <2>4. \A b \in Range(rxUsed) \cup Range(txAvail) : msg'[b] = msg[b]
    BY <2>1, <2>3
  <2> QED BY <1>1, <1>4, <2>2, <2>4, NothingNew
<1>12. CASE TcpEnd
  BY <1>5, <1>12 DEF TcpEnd, queues
<1>13. CASE \/ ControlNotified \/ LoopEnds \/ PeerConn \/ \E stop : PeerEvent(stop)
            \/ Unregistered \/ PollInBranch \/ PollAgain \/ AsyncNotified \/ NextQueue
  BY <1>5, <1>13 DEF ControlNotified, LoopEnds, PeerConn, PeerEvent, Unregistered,
                     PollInBranch, PollAgain, AsyncNotified, NextQueue, queues
<1>14. CASE Sent
  <2> DEFINE b == Head(txUsed)
  <2>1. /\ txUsed # <<>>
        /\ msg' = [msg EXCEPT ![b] = IF Pooled(b) THEN [@ EXCEPT !.total_len = READ_SIZE, !.done_len = 0]
                                     ELSE ForClient(b)]
        /\ UNCHANGED <<rxUsed, txAvail, aReceived, aEchoed>>
    BY <1>14 DEF Sent
  <2>2. b \notin Range(rxUsed) /\ b \notin Range(txAvail)
    BY <1>2, <2>1, TailDistinct DEF QueuesOfBufs, QueuesApart
  <2>3. Range(rxUsed) \subseteq Bufs /\ Range(txAvail) \subseteq Bufs
    BY <1>2, RangeSeq DEF QueuesOfBufs
  <2> HIDE DEF b
  <2>4. \A x \in Bufs : x # b => msg'[x] = msg[x]
    BY <1>1, <2>1 DEF EchoTypeOK
  <2> QED BY <1>1, <1>4, <2>1, <2>2, <2>3, <2>4, NothingNew
<1>15. CASE Received
  <2> DEFINE b == Head(rxUsed)
  <2>1. /\ rxUsed # <<>> /\ rxUsed' = Tail(rxUsed) /\ UNCHANGED <<txUsed, aReceived, aEchoed>>
        /\ \/ UNCHANGED <<msg, txAvail>>
           \/ msg' = [msg EXCEPT ![b] = ForClient(b)] /\ UNCHANGED txAvail
           \/ /\ ~Pooled(b) /\ ~NothingToEcho(b)
              /\ msg' = [msg EXCEPT ![b] = [ForClient(b) EXCEPT !.total_len = msg[b].done_len]]
              /\ txAvail' = AddAvailable(txAvail, txUsed, <<b>>)
    BY <1>15 DEF Received
  <2>2. /\ b \in Bufs /\ b \in Range(rxUsed) /\ b \notin Range(txAvail)
        /\ b \notin Range(txUsed) /\ Range(rxUsed') = Range(rxUsed) \ {b}
        /\ rxUsed \in Seq(Bufs) /\ txAvail \in Seq(Bufs) /\ txUsed \in Seq(Bufs)
        /\ IsInjective(txAvail) /\ IsInjective(txUsed)
        /\ Range(txAvail) \cap Range(txUsed) = {}
    <3>1. rxUsed \in Seq(Bufs) /\ IsInjective(rxUsed)
      BY <1>2 DEF QueuesOfBufs
    <3>2. b \in Bufs /\ b \in Range(rxUsed) /\ Range(rxUsed') = Range(rxUsed) \ {b}
      BY <2>1, <3>1, TailDistinct
    <3> QED BY <1>2, <3>1, <3>2 DEF QueuesOfBufs, QueuesApart
  <2>3. /\ \A x, y : Precedes(rxUsed', x, y) => Precedes(rxUsed, x, y)
        /\ \A y \in Range(rxUsed') : Precedes(rxUsed, b, y)
    BY <2>1, <2>2, PrecedesTail
  <2> HIDE DEF b
  <2>4. \A x \in Bufs : x # b => (msg'[x] = msg[x])
    BY <1>1, <2>1 DEF EchoTypeOK
  <2>5. CASE UNCHANGED txAvail
    <3>1. ASSUME NEW x \in Bufs, Flying(x)'
          PROVE  x # b /\ Flying(x) /\ Amount(x)' = Amount(x) /\ msg'[x] = msg[x]
      <4>1. x # b /\ msg'[x] = msg[x]
        BY <2>2, <2>4, <2>5, <3>1 DEF Flying
      <4>2. (x \in Range(rxUsed') <=> x \in Range(rxUsed)) /\ txAvail' = txAvail
        BY <2>2, <2>5, <4>1
      <4> QED BY <3>1, <4>1, <4>2 DEF Flying, Amount
    <3>2. \A x, y \in Bufs : Ahead(x, y)' => Ahead(x, y)
      BY <2>2, <2>3, <2>5 DEF Ahead
    <3>3. OnTheWay
      BY <3>1, <3>2 DEF OnTheWay
    <3> QED BY <1>1, <1>4, <2>1, <3>3, FlightKept DEF EchoInv
\* Passed on: the length received is the one to send, and it stays where it was
\* among those on their way.
  <2>6. CASE /\ ~Pooled(b) /\ ~NothingToEcho(b)
             /\ msg' = [msg EXCEPT ![b] = [ForClient(b) EXCEPT !.total_len = msg[b].done_len]]
             /\ txAvail' = AddAvailable(txAvail, txUsed, <<b>>)
    <3>1. /\ txAvail' = Append(txAvail, b) /\ Range(txAvail') = Range(txAvail) \cup {b}
      <4>1. AddAvailable(txAvail, txUsed, <<b>>) = txAvail \o <<b>>
        <5>1. /\ b \in Bufs /\ b \notin Range(txAvail) /\ b \notin Range(txUsed)
              /\ txAvail \in Seq(Bufs) /\ txUsed \in Seq(Bufs) /\ IsInjective(txAvail)
              /\ IsInjective(txUsed) /\ Range(txAvail) \cap Range(txUsed) = {}
          BY <2>2
        <5> QED BY <5>1, AddOne, Zenon
      <4>2. txAvail' = Append(txAvail, b)
        BY <2>2, <2>6, <4>1
      <4> QED BY <2>2, <4>2, AppendDistinct
    <3>2. msg[b] \in Headers /\ msg[b].done_len > 0 /\ Flying(b) /\ Amount(b) = msg[b].done_len
      <4>1. msg[b] \in Headers /\ msg[b].done_len \notin {-1, 0}
        BY <1>1, <2>2, <2>6 DEF EchoTypeOK, NothingToEcho, NothingReceived
      <4>2. msg[b].done_len > 0
        BY <4>1 DEF Headers
      <4> QED BY <2>2, <4>1, <4>2 DEF Flying, Amount
    <3>3. /\ msg'[b].total_len = msg[b].done_len /\ msg'[b].data = msg[b].data
          /\ msg'[b].socket_fd = msg[b].socket_fd
      <4>1. msg'[b] = [ForClient(b) EXCEPT !.total_len = msg[b].done_len]
        BY <1>1, <2>2, <2>6 DEF EchoTypeOK
      <4>2. b \in TcpBufs => msg[b].socket_fd = tcp_echo_client
        BY <2>6 DEF NothingToEcho, Foreign
      <4> QED BY <3>2, <4>1, <4>2 DEF ForClient, Headers
    <3>4. ASSUME NEW x \in Bufs, Flying(x)'
          PROVE  /\ Flying(x) /\ Amount(x)' = Amount(x)
                 /\ msg'[x].socket_fd = msg[x].socket_fd /\ msg'[x].data = msg[x].data
      <4>1. CASE x = b
        BY <3>1, <3>2, <3>3, <4>1 DEF Amount
      <4>2. CASE x # b
        <5>1. /\ msg'[x] = msg[x] /\ (x \in Range(txAvail') <=> x \in Range(txAvail))
              /\ (x \in Range(rxUsed') <=> x \in Range(rxUsed))
          BY <2>2, <2>4, <3>1, <4>2
        <5> QED BY <3>4, <5>1 DEF Flying, Amount
      <4> QED BY <4>1, <4>2
    <3>5. ASSUME NEW x \in Bufs, NEW y \in Bufs, Ahead(x, y)' PROVE Ahead(x, y)
      <4>1. CASE Precedes(txAvail', x, y)
        <5>1. Precedes(txAvail, x, y) \/ (y = b /\ x \in Range(txAvail))
          BY <2>2, <3>1, <4>1, PrecedesAppend
        <5> QED BY <2>2, <5>1 DEF Ahead
      <4>2. CASE Precedes(rxUsed', x, y)
        BY <2>3, <4>2 DEF Ahead
      <4>3. CASE x \in Range(txAvail') /\ y \in Range(rxUsed')
        BY <2>2, <2>3, <3>1, <4>3 DEF Ahead
      <4> QED BY <3>5, <4>1, <4>2, <4>3 DEF Ahead
    <3>6. OnTheWay
      BY <3>4, <3>5 DEF OnTheWay
    <3> QED BY <1>1, <1>4, <2>1, <3>6, FlightKept DEF EchoInv
  <2> QED BY <2>1, <2>5, <2>6
<1> QED BY <1>6, <1>7, <1>8, <1>9, <1>10, <1>11, <1>12, <1>13, <1>14, <1>15
        DEF AsyncNext, EchoThread, Server

LEMMA EchoInvariance == Spec => []EchoInv
<1>1. Init => EchoInv
  BY EchoInitInv DEF Init
<1>2. BufsInv /\ EchoInv /\ [Next]_vars => EchoInv'
  <2> SUFFICES ASSUME BufsInv, EchoInv, [AsyncNext]_asyncVars PROVE EchoInv'
    BY SceneSteps
  <2>1. CASE AsyncNext
    BY <2>1, EchoStepInv
  <2>2. CASE UNCHANGED asyncVars
    <3>1. UNCHANGED <<tcp_echo_client, msg, rxUsed, txAvail, aReceived, aEchoed>>
      BY <2>2 DEF asyncVars, queues
    <3>2. EchoTypeOK /\ EchoTypeOK'
      BY <3>1 DEF EchoInv, EchoTypeOK
    <3>3. Remembered
      BY <3>1, <3>2 DEF Remembered, EchoTypeOK
    <3> QED BY <3>1, <3>2, <3>3, NothingNew
  <2> QED BY <2>1, <2>2
<1> QED BY <1>1, <1>2, BufsInvariance, PTL DEF Spec

\* For any number of buffers, connections and chunks, a socket is sent only what
\* it received, whole, once and in order, whatever connection was replaced while
\* the chunk was on its way.
THEOREM OnlyOwnIsEchoed == Spec => []EchoedToSender
<1>1. EchoInv => EchoedToSender
  <2> SUFFICES ASSUME EchoInv, NEW s \in DataSocks
               PROVE  IsSubSequence(aEchoed[s], aReceived[s])
    BY DEF EchoedToSender
  <2>1. EchoedSoFar(s)
    BY DEF EchoInv
  <2> DEFINE f == [i \in 1..Len(aEchoed[s]) |-> aEchoed[s][i][2]]
  <2>2. f \in [1..Len(aEchoed[s]) -> 1..Len(aReceived[s])]
    BY <2>1 DEF EchoedSoFar
  <2>3. /\ \A i, j \in 1..Len(aEchoed[s]) : i < j => f[i] < f[j]
        /\ \A i \in 1..Len(aEchoed[s]) : aEchoed[s][i] = aReceived[s][f[i]]
    BY <2>1 DEF EchoedSoFar
  <2> HIDE DEF f
  <2> QED BY <2>2, <2>3 DEF IsSubSequence
<1> QED BY <1>1, EchoInvariance, PTL
=============================================================================
