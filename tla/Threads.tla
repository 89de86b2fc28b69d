------------------------------ MODULE Threads ------------------------------
(* The applications whose point is how threads and components wait for each  *)
(* other.  Each is a system of its own; scene says which of them is running, *)
(* the others stay as they were started.                                     *)
EXTENDS Locks, HandOver, SpinSocket, Pthreads, Notifications, ReplyCaps, Tipc,
        DataportMux, Dhcp, AsyncEcho

VARIABLE scene

vars == <<scene, lockVars, handVars, spinVars, pthreadVars, notifyVars, replyVars,
          tipcVars, muxVars, dhcpVars, asyncVars>>

\* An application that is not running is started in one way only.
Init ==
  /\ scene \in {"locks", "hand", "spin", "pthreads", "notify", "reply", "tipc",
               "mux", "dhcp", "async"}
  /\ LocksInit /\ HandInit /\ SpinInit /\ PthreadsInit /\ NotifyInit /\ ReplyInit
  /\ TipcInit /\ MuxInit /\ DhcpInit /\ AsyncInit
  /\ scene = "locks" \/ lockApp = "mutex"
  /\ scene = "hand" \/ hApp = "reversestring"
  /\ scene = "notify" \/ nApp = "event"
  /\ scene = "async" <=> active # {}

Next ==
  \/ /\ scene = "locks" /\ LocksNext
     /\ UNCHANGED <<scene, handVars, spinVars, pthreadVars, notifyVars, replyVars, tipcVars, muxVars, dhcpVars, asyncVars>>
  \/ /\ scene = "hand" /\ HandNext
     /\ UNCHANGED <<scene, lockVars, spinVars, pthreadVars, notifyVars, replyVars, tipcVars, muxVars, dhcpVars, asyncVars>>
  \/ /\ scene = "spin" /\ SpinNext
     /\ UNCHANGED <<scene, lockVars, handVars, pthreadVars, notifyVars, replyVars, tipcVars, muxVars, dhcpVars, asyncVars>>
  \/ /\ scene = "pthreads" /\ PthreadsNext
     /\ UNCHANGED <<scene, lockVars, handVars, spinVars, notifyVars, replyVars, tipcVars, muxVars, dhcpVars, asyncVars>>
  \/ /\ scene = "notify" /\ NotifyNext
     /\ UNCHANGED <<scene, lockVars, handVars, spinVars, pthreadVars, replyVars, tipcVars, muxVars, dhcpVars, asyncVars>>
  \/ /\ scene = "reply" /\ ReplyNext
     /\ UNCHANGED <<scene, lockVars, handVars, spinVars, pthreadVars, notifyVars, tipcVars, muxVars, dhcpVars, asyncVars>>
  \/ /\ scene = "tipc" /\ TipcNext
     /\ UNCHANGED <<scene, lockVars, handVars, spinVars, pthreadVars, notifyVars, replyVars, muxVars, dhcpVars, asyncVars>>
  \/ /\ scene = "mux" /\ MuxNext
     /\ UNCHANGED <<scene, lockVars, handVars, spinVars, pthreadVars, notifyVars, replyVars, tipcVars, dhcpVars, asyncVars>>
  \/ /\ scene = "dhcp" /\ DhcpNext
     /\ UNCHANGED <<scene, lockVars, handVars, spinVars, pthreadVars, notifyVars, replyVars, tipcVars, muxVars, asyncVars>>
  \/ /\ scene = "async" /\ AsyncNext
     /\ UNCHANGED <<scene, lockVars, handVars, spinVars, pthreadVars, notifyVars, replyVars, tipcVars, muxVars, dhcpVars>>

Spec == Init /\ [][Next]_vars

\* The kernel schedules every thread again and again, and a message it can
\* deliver is delivered.
Scheduling ==
  /\ \A u \in LockUsers : WF_lockVars(scene = "locks" /\ LockStep(u))
  /\ WF_handVars(scene = "hand" /\ WriterStep)
  /\ WF_handVars(scene = "hand" /\ ServerStep)
  /\ \A c \in Stages : WF_spinVars(scene = "spin" /\ SpinStep(c))
  /\ \A t \in Incs : WF_pthreadVars(scene = "pthreads" /\ IncStep(t))
  /\ WF_pthreadVars(scene = "pthreads" /\ (PLock(Watch) \/ WatchCount))
  /\ WF_pthreadVars(scene = "pthreads" /\ Join)
  /\ WF_notifyVars(scene = "notify" /\ Emit)
  /\ WF_notifyVars(scene = "notify" /\ GlueStep)
  /\ WF_notifyVars(scene = "notify" /\ MainStep)
  /\ \A c \in Callers : WF_replyVars(scene = "reply" /\ (CallerWakes(c) \/ CallReceiver(c)))
  /\ WF_replyVars(scene = "reply" /\ (ReceiveCall \/ ReceiverLine))
  /\ \A n \in Nodes : /\ WF_tipcVars(scene = "tipc" /\ Start(n))
                      /\ WF_tipcVars(scene = "tipc" /\ WorkerStep(n))
  /\ \A c \in IDs : WF_muxVars(scene = "mux" /\ MuxStep(c))
  /\ \A c \in DhcpClients : WF_dhcpVars(scene = "dhcp" /\ DhcpStep(c))
  /\ WF_asyncVars(scene = "async" /\ EchoThread)

\* A thread that tries over and over to take a lock which another one takes and
\* gives back over and over finds it free in the end: threads are preempted at
\* any point.  Echo's thread takes the notification of its queues however often
\* the control event comes, and PicoServer sends what it is given.  (One formula
\* serves a thread of each scene.)
spinningVars == <<spinVars, pthreadVars, asyncVars>>
Locking ==
  /\ SF_spinningVars(
       \/ scene = "spin" /\ TakeSend("sender") /\ UNCHANGED <<pthreadVars, asyncVars>>
       \/ scene = "pthreads" /\ PLock("t2") /\ UNCHANGED <<spinVars, asyncVars>>
       \/ scene = "async" /\ AsyncNotified /\ UNCHANGED <<spinVars, pthreadVars>>)
  /\ SF_spinningVars(
       \/ scene = "spin" /\ TakeSend("transport") /\ UNCHANGED <<pthreadVars, asyncVars>>
       \/ scene = "pthreads" /\ PLock("t3") /\ UNCHANGED <<spinVars, asyncVars>>
       \/ scene = "async" /\ (\E b \in Bufs : SSend(b)) /\ UNCHANGED <<spinVars, pthreadVars>>)

LiveSpec == Spec /\ Scheduling /\ Locking
-----------------------------------------------------------------------------
\* Texts handed over in shared memory arrive whole, and nobody writes while the
\* other side reads (reversestring, rumprun_ethernet, global_async, socket).
TextsWhole == HandOverFaithful /\ SpinExclusive

SceneDone ==
  CASE scene = "locks" -> LocksDone
    [] scene = "hand" -> HandDone
    [] scene = "spin" -> SpinDone
    [] scene = "pthreads" -> PthreadsDone
    [] scene = "notify" -> NotifyDone
    [] scene = "reply" -> ReplyDone
    [] scene = "tipc" -> TipcDone
    [] scene = "mux" -> MuxDone
    [] scene = "dhcp" -> DhcpDone
    [] scene = "async" -> TRUE

\* The only ways for an application to end before that.
SceneStopped == \/ scene = "hand" /\ HandStopped
                \/ scene = "tipc" /\ TipcStopped

\* Nobody waits for ever, however the threads are scheduled: each application
\* gets to what its main function is for.  The lock users have had the lock,
\* the texts have come back, the joins return with every increment counted, the
\* events have been collected, the call is answered (although another thread
\* used the reply capability's slot), every client has counted up to the limit,
\* the last counter has left its loop (counter.c:37), and as many DHCP clients
\* have an address as there are addresses.  (Echo of picotcp_tcp_echo has no
\* end; EventuallyEchoed says what it gets to.)  Two applications may stop before
\* that, and only in these ways: rumprun_ethernet exits when a socket call fails
\* and may fault on a message with a '%' or one that fills its buffer, and a
\* client of cakeml_tipc faults when it is notified before it has queues: then the
\* output that its README shows (lines 77-106) is right as far as it gets, and
\* stops short.
ThreadsFinish == <>(SceneDone \/ SceneStopped)
=============================================================================
