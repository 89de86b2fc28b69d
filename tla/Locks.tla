------------------------------- MODULE Locks -------------------------------
(* The applications mutex and lockserver: users share one mutex that lives   *)
(* in a server.  A remote user asks the server by message and is answered by *)
(* a thread of the server that serves it alone: in mutex the thread of the   *)
(* connector seL4MyConnector, which sends and receives both on one endpoint, *)
(* in lockserver the thread of interface a, b or c.  In mutex the server     *)
(* component b is a user itself and locks by a plain call.                   *)
EXTENDS Naturals

VARIABLES
  lockApp,        \* "mutex" or "lockserver"
  user,           \* where each user is
  message,        \* between a user and its server thread
  held,           \* the mutex
  rounds          \* how many times a user will yet lock

lockVars == <<lockApp, user, message, held, rounds>>

LockUsers == {"a", "b", "c"}
InApp(u) == lockApp = "lockserver" \/ u \in {"a", "b"}
Remote(u) == lockApp = "lockserver" \/ u = "a"

\* seL4MyConnector's __init: the mutex is free and the threads wait.
LocksInit ==
  /\ lockApp \in {"mutex", "lockserver"}
  /\ user = [u \in LockUsers |-> "start"]
  /\ message = [u \in LockUsers |-> "none"]
  /\ held = FALSE
  /\ rounds = [u \in LockUsers |-> IF u = "b" /\ lockApp = "mutex" THEN 2 ELSE 1]

\* sync_mutex_lock and sync_mutex_unlock (external).
MutexLock == ~held /\ held' = TRUE
MutexUnlock == held' = FALSE

\* lock and unlock at a remote user: the message is sent when the server
\* thread receives.
AskLock(u) ==
  /\ InApp(u) /\ Remote(u) /\ user[u] = "start" /\ message[u] = "none"
  /\ user' = [user EXCEPT ![u] = "locking"]
  /\ message' = [message EXCEPT ![u] = "lock"]
  /\ UNCHANGED <<lockApp, held, rounds>>

AskUnlock(u) ==
  /\ InApp(u) /\ Remote(u) /\ user[u] = "critical" /\ message[u] = "none"
  /\ user' = [user EXCEPT ![u] = "unlocking"]
  /\ message' = [message EXCEPT ![u] = "unlock"]
  /\ UNCHANGED <<lockApp, held, rounds>>

\* The server thread: one turn of __run, or a_lock .. c_unlock.
\* Mutant: the answer goes out before the mutex is taken.
Serve_answers(u) ==
  /\ \/ message[u] = "lock" /\ UNCHANGED held
     \/ message[u] = "unlock" /\ MutexUnlock
  /\ message' = [message EXCEPT ![u] = "reply"]
  /\ UNCHANGED <<lockApp, user, rounds>>
Serve(u) ==
  /\ \/ message[u] = "lock" /\ MutexLock
     \/ message[u] = "unlock" /\ MutexUnlock
  /\ message' = [message EXCEPT ![u] = "reply"]
  /\ UNCHANGED <<lockApp, user, rounds>>

Entered(u) == user' = [user EXCEPT ![u] = "critical"] /\ UNCHANGED rounds
Left(u) == /\ rounds' = [rounds EXCEPT ![u] = @ - 1]
           /\ user' = [user EXCEPT ![u] = IF rounds[u] = 1 THEN "done" ELSE "start"]

\* The user receives the answer and goes on.
Answered(u) ==
  /\ message[u] = "reply"
  /\ \/ user[u] = "locking" /\ Entered(u)
     \/ user[u] = "unlocking" /\ Left(u)
  /\ message' = [message EXCEPT ![u] = "none"]
  /\ UNCHANGED <<lockApp, held>>

\* lock_lock and lock_unlock called by the component that holds the mutex.
LocalLock(u) ==
  /\ InApp(u) /\ ~Remote(u) /\ user[u] = "start"
  /\ MutexLock /\ Entered(u)
  /\ UNCHANGED <<lockApp, message>>

LocalUnlock(u) ==
  /\ InApp(u) /\ ~Remote(u) /\ user[u] = "critical"
  /\ MutexUnlock /\ Left(u)
  /\ UNCHANGED <<lockApp, message>>

LockStep(u) == \/ AskLock(u) \/ AskUnlock(u) \/ Serve(u) \/ Answered(u)
               \/ LocalLock(u) \/ LocalUnlock(u)

LocksNext == \E u \in LockUsers : LockStep(u)
-----------------------------------------------------------------------------
Abstract == INSTANCE AbstractLock WITH
  Users <- LockUsers, holders <- {u \in LockUsers : user[u] = "critical"}

\* The users of mutex and of lockserver, who learn of the lock by messages,
\* hold it one at a time: the whole is the lock of AbstractLock.
LockImplemented == Abstract!LockSpec

LocksDone == \A u \in LockUsers : InApp(u) => user[u] = "done"
=============================================================================
