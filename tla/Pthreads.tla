------------------------------ MODULE Pthreads ------------------------------
(* rumprun_pthreads: two threads increment count under a mutex and signal a  *)
(* condition variable when it reaches COUNT_LIMIT; a third waits for that    *)
(* and adds BONUS; the main thread joins all three.                          *)
EXTENDS Naturals

CONSTANTS TCOUNT, COUNT_LIMIT

BONUS == 125
Incs == {"t2", "t3"}
Watch == "t1"

ASSUME LimitAssumption ==
  TCOUNT \in Nat /\ COUNT_LIMIT \in 1..(2 * TCOUNT)

VARIABLES
  count, count_mutex,    \* count_mutex: its holder, or "free"
  thread,                \* where each thread is
  loopI,                 \* i of the incrementing threads
  joined                 \* threads main has joined, in order; 3 when it is done

pthreadVars == <<count, count_mutex, thread, loopI, joined>>

PthreadsInit ==
  /\ count = 0 /\ count_mutex = "free"
  /\ thread = [t \in Incs \cup {Watch} |-> "lock"]
  /\ loopI = [t \in Incs |-> 0] /\ joined = 0

\* pthread_mutex_lock; the loop of inc_count ends after TCOUNT turns.
PLock(t) ==
  /\ thread[t] = "lock" /\ (t \in Incs => loopI[t] < TCOUNT)
  /\ count_mutex = "free" /\ count_mutex' = t
  /\ thread' = [thread EXCEPT ![t] = "locked"]
  /\ UNCHANGED <<count, loopI, joined>>

\* pthread_cond_signal: a waiting thread has to take the mutex again.
Signalled == [thread EXCEPT ![Watch] = IF @ = "waiting" THEN "lock" ELSE @]

\* inc_count with the mutex locked, and the unlock.
\* Mutant: the limit is tested after the unlock, on whatever count is then.
Increment_late(t) ==
  \/ /\ thread[t] = "locked"
     /\ count' = count + 1 /\ count_mutex' = "free"
     /\ thread' = [thread EXCEPT ![t] = "test"]
     /\ UNCHANGED <<loopI, joined>>
  \/ /\ thread[t] = "test"
     /\ thread' = [(IF count = COUNT_LIMIT THEN Signalled ELSE thread) EXCEPT ![t] = "lock"]
     /\ loopI' = [loopI EXCEPT ![t] = @ + 1]
     /\ UNCHANGED <<count, count_mutex, joined>>
Increment(t) ==
  /\ thread[t] = "locked"
  /\ count' = count + 1
  /\ thread' = [(IF count' = COUNT_LIMIT THEN Signalled ELSE thread) EXCEPT ![t] = "lock"]
  /\ loopI' = [loopI EXCEPT ![t] = @ + 1]
  /\ count_mutex' = "free"
  /\ UNCHANGED joined

IncExit(t) ==
  /\ thread[t] = "lock" /\ loopI[t] = TCOUNT
  /\ thread' = [thread EXCEPT ![t] = "exit"]
  /\ UNCHANGED <<count, count_mutex, loopI, joined>>

\* watch_count with the mutex locked: wait, which unlocks, or add and exit.
WatchCount ==
  /\ thread[Watch] = "locked"
  /\ \/ /\ count < COUNT_LIMIT
        /\ thread' = [thread EXCEPT ![Watch] = "waiting"] /\ UNCHANGED count
     \/ /\ count >= COUNT_LIMIT
        /\ thread' = [thread EXCEPT ![Watch] = "exit"] /\ count' = count + BONUS
  /\ count_mutex' = "free"
  /\ UNCHANGED <<loopI, joined>>

\* pthread_cond_wait may return without a signal.
SpuriousWakeup ==
  /\ thread[Watch] = "waiting"
  /\ thread' = [thread EXCEPT ![Watch] = "lock"]
  /\ UNCHANGED <<count, count_mutex, loopI, joined>>

\* main: pthread_join of threads[0], threads[1], threads[2].
Join ==
  /\ joined < 3 /\ thread[<<Watch, "t2", "t3">>[joined + 1]] = "exit"
  /\ joined' = joined + 1
  /\ UNCHANGED <<count, count_mutex, thread, loopI>>

IncStep(t) == PLock(t) \/ Increment(t) \/ IncExit(t)
PthreadsNext == \/ \E t \in Incs : IncStep(t)
                \/ PLock(Watch) \/ WatchCount \/ SpuriousWakeup \/ Join

PthreadsDone == joined = 3 /\ count = 2 * TCOUNT + BONUS
=============================================================================
