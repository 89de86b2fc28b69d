-------------------------------- MODULE Tipc --------------------------------
(* cakeml_tipc: four clients and a CakeML filter between the first two pass  *)
(* a counter round.  From each node to the next goes a virtqueue: the sender *)
(* allocates a buffer of the queue's pool and makes it available, the next   *)
(* node handles it and gives it back used, and the sender frees it.  A node  *)
(* is notified of both its queues by one bit and has one thread for them     *)
(* (virtqueue_wait_callback, the filter's run_loop).  Clients initialise     *)
(* their queues in run, another thread; the filter in post_init.             *)
EXTENDS Naturals, Sequences

CONSTANTS
  CLIENTS,             \* 4
  TIPC_LIMIT,          \* COUNT_LIMIT
  POOL                 \* buffers of a queue (external)

Clients == 0..(CLIENTS - 1)
filter == CLIENTS
Nodes == Clients \cup {filter}
After(n) == IF n = 0 THEN filter ELSE IF n = filter THEN 1 ELSE (n + 1) % CLIENTS
Before(n) == CHOOSE m \in Nodes : After(m) = n

ASSUME PoolAssumption == 
  POOL \in Nat \ 0..2 /\ TIPC_LIMIT \in Nat \ {0} /\ CLIENTS \in Nat \ {0, 1}

VARIABLES
  avail, usedBufs, free,   \* the queue a node sends on: values, and counts
  bell,                    \* its notification
  worker, hand,            \* its thread, and the value it handles
  ready,                   \* are its queues initialised?
  counted                  \* what is printed: <<client, value>>

tipcVars == <<avail, usedBufs, free, bell, worker, hand, ready,
              counted>>

TipcInit ==
  /\ avail = [n \in Nodes |-> <<>>] /\ usedBufs = [n \in Nodes |-> 0]
  /\ free = [n \in Nodes |-> POOL]
  /\ bell = [n \in Nodes |-> FALSE] /\ worker = [n \in Nodes |-> "wait"]
  /\ hand = [n \in Nodes |-> 0]
  /\ ready = [n \in Nodes |-> n = filter]
  /\ counted = <<>>

\* handle_send_callback: one used buffer is collected and freed.
Collected(n) == IF usedBufs[n] > 0 THEN 1 ELSE 0

\* send_payload_message: collect, allocate, make available, notify.
Send(n, v) ==
  LET f == free[n] + Collected(n)
  IN  /\ usedBufs' = [usedBufs EXCEPT ![n] = @ - Collected(n)]
      /\ IF f > 0
         THEN /\ avail' = [avail EXCEPT ![n] = Append(@, v)]
              /\ free' = [free EXCEPT ![n] = f - 1]
              /\ bell' = [bell EXCEPT ![After(n)] = TRUE]
         ELSE free' = [free EXCEPT ![n] = f] /\ UNCHANGED <<avail, bell>>

\* run of a client: its queues, and client 0's first message.
Start(n) ==
  /\ n \in Clients /\ ~ready[n] /\ worker[n] # "dead"
  /\ ready' = [ready EXCEPT ![n] = TRUE]
  /\ IF n = 0 THEN Send(n, 1)
     ELSE UNCHANGED <<avail, usedBufs, free, bell>>
  /\ UNCHANGED <<worker, hand, counted>>

\* The thread is woken.  Queues that run has not initialised yet make the first
\* poll fault.
Wake(n) ==
  /\ worker[n] = "wait" /\ bell[n]
  /\ bell' = [bell EXCEPT ![n] = FALSE]
  /\ worker' = [worker EXCEPT ![n] = IF ready[n] THEN "recv" ELSE "dead"]
  /\ UNCHANGED <<avail, usedBufs, free, hand, ready, counted>>

\* virtqueue_wait_callback polls the queue from the node before; one message is
\* taken.
PollRecv(n) ==
  /\ worker[n] = "recv"
  /\ IF avail[Before(n)] = <<>>
     THEN worker' = [worker EXCEPT ![n] = "send"] /\ UNCHANGED <<avail, hand>>
     ELSE /\ hand' = [hand EXCEPT ![n] = Head(avail[Before(n)])]
          /\ avail' = [avail EXCEPT ![Before(n)] = Tail(@)]
          /\ worker' = [worker EXCEPT ![n] = "handle"]
  /\ UNCHANGED <<usedBufs, free, bell, ready, counted>>

\* handle_virtqueue_message: printed, and unless the limit is reached sent on.
HandleMessage(n) ==
  /\ n \in Clients /\ worker[n] = "handle"
  /\ counted' = Append(counted, <<n, hand[n]>>)
  /\ IF hand[n] = TIPC_LIMIT THEN UNCHANGED <<avail, usedBufs, free, bell>>
     ELSE Send(n, hand[n] + 1)
  /\ worker' = [worker EXCEPT ![n] = "return"]
  /\ UNCHANGED <<hand, ready>>

GiveBack(n) ==
  /\ usedBufs' = [usedBufs EXCEPT ![Before(n)] = @ + 1]
  /\ bell' = [bell EXCEPT ![Before(n)] = TRUE]
  /\ UNCHANGED <<avail, free, hand, ready, counted>>

\* The rest of handle_recv_callback: the buffer goes back.
ReturnUsed(n) ==
  /\ n \in Clients /\ worker[n] = "return" /\ GiveBack(n)
  /\ worker' = [worker EXCEPT ![n] = "send"]

\* virtqueue_wait_callback polls the queue to the next node: one used buffer is
\* collected.  The filter's select_loop (external) goes over its two queues until
\* there is nothing in them.
PollSend(n) ==
  /\ worker[n] = "send"
  /\ usedBufs' = [usedBufs EXCEPT ![n] = @ - Collected(n)]
  /\ free' = [free EXCEPT ![n] = @ + Collected(n)]
  /\ worker' = [worker EXCEPT ![n] = IF n = filter /\ Collected(n) = 1
                                     THEN "recv" ELSE "wait"]
  /\ UNCHANGED <<avail, bell, hand, ready, counted>>

\* forward_message of the filter: the message has been copied, its buffer goes
\* back first, then it is sent on.
FilterReturns(n) ==
  /\ n = filter /\ worker[n] = "handle" /\ GiveBack(n)
  /\ worker' = [worker EXCEPT ![n] = "forward"]

\* driver_send collects nothing.
FilterForwards(n) ==
  /\ n = filter /\ worker[n] = "forward"
  /\ IF free[n] > 0
     THEN /\ avail' = [avail EXCEPT ![n] = Append(@, hand[n])]
          /\ free' = [free EXCEPT ![n] = @ - 1]
     ELSE UNCHANGED <<avail, free>>
  /\ bell' = [bell EXCEPT ![After(n)] = TRUE]
  /\ worker' = [worker EXCEPT ![n] = "send"]
  /\ UNCHANGED <<usedBufs, hand, ready, counted>>
-----------------------------------------------------------------------------
WorkerStep(n) == \/ Wake(n) \/ PollRecv(n) \/ HandleMessage(n) \/ ReturnUsed(n)
                 \/ PollSend(n) \/ FilterReturns(n) \/ FilterForwards(n)
TipcNext == \E n \in Nodes : Start(n) \/ WorkerStep(n)
-----------------------------------------------------------------------------
\* The output of README.md:80-105: client v % 4 prints value v, up to the limit.
Expected == [v \in 1..TIPC_LIMIT |-> <<v % CLIENTS, v>>]
TipcDone == counted = Expected

\* A client was notified before its run had initialised the queues: its callback
\* thread has faulted, and the output stops short; what was printed till then is
\* as expected.
TipcStopped ==
  /\ \E n \in Clients : worker[n] = "dead" /\ ~ready[n]
  /\ Len(counted) < TIPC_LIMIT /\ counted = SubSeq(Expected, 1, Len(counted))

=============================================================================
