------------------------------- MODULE Timers -------------------------------
(* Clients and drivers of timers.                                            *)
(* timeserver: a client of the time server takes TICKS periodic time-outs,   *)
(* then a relative and an absolute one, all of timer 0, waiting on one       *)
(* notification and asserting that enough time has passed.  pit and epit:    *)
(* drivers that count timer interrupts.  periodic: clients that count and    *)
(* report.                                                                   *)
EXTENDS Integers

CONSTANTS
  TICKS, WAIT,        \* 3 and 10 ms
  IRQS_PER_SECOND,    \* 100
  MAX_VALUE, RATE,    \* 100000 and 10000
  MaxTime             \* bound: units of time, and periods of the timers

ASSUME TimersAssumption ==
  /\ TICKS \in Nat \ {0} /\ WAIT \in Nat \ {0} /\ IRQS_PER_SECOND \in Nat \ {0}
  /\ MAX_VALUE \in Nat /\ RATE \in Nat \ {0} /\ MaxTime \in Nat

VARIABLES
  tApp,               \* "timeserver", "pit", "epit" or "periodic"
  now, timerDue, every,  \* the time server: the time, timer 0, its period
  tBell,              \* the client's notification
  tPc, ticks, t1, t2,
  stale,              \* history: the last time-out was armed with the bit set
  fired, irqLine,     \* periods the device has counted, and its interrupt line
  irq, masked,        \* the kernel: an interrupt to deliver; not acknowledged
  hPc, count, seconds,
  noted,              \* history: the periods the counted interrupts stand for
  acc, reported

serverVars == <<now, timerDue, every, tBell>>
tClientVars == <<tPc, ticks, t1, t2, stale>>
irqVars == <<fired, irqLine, irq, masked, hPc, count, seconds, noted>>
timerVars == <<tApp, serverVars, tClientVars, irqVars, acc, reported>>

\* epit_init sets the period, clears what is left of an earlier one and lets the
\* timer run; pre_init of pit acknowledges so that interrupts come.
epit_init == fired = 0 /\ irqLine = FALSE
pre_init == irq = FALSE /\ masked = FALSE

TimersInit ==
  /\ tApp \in {"timeserver", "pit", "epit", "periodic"}
  /\ now = 0 /\ timerDue = 0 /\ every = 0 /\ tBell = FALSE
  /\ tPc = "start" /\ ticks = 0 /\ t1 = 0 /\ t2 = 0 /\ stale = FALSE
  /\ epit_init /\ pre_init
  /\ hPc = "idle" /\ count = 0 /\ seconds = 0 /\ noted = 0
  /\ acc = 0 /\ reported = 0
-----------------------------------------------------------------------------
(* timeserver                                                                *)

\* The time server (external): when a time-out is due the bit is set.
TimePasses ==
  /\ tApp = "timeserver" /\ now < MaxTime
  /\ now' = now + 1
  /\ IF timerDue = now + 1
     THEN tBell' = TRUE /\ timerDue' = IF every = 0 THEN 0 ELSE timerDue + every
     ELSE UNCHANGED <<tBell, timerDue>>
  /\ UNCHANGED <<tApp, every, tClientVars, irqVars, acc, reported>>

\* Arming timer 0 again replaces its time-out and leaves the bit alone; a time
\* that has passed is due at once.
SetTimer(at, period) ==
  /\ timerDue' = IF at > now THEN at ELSE now + 1
  /\ every' = period
  /\ UNCHANGED <<now, tBell>>

\* seL4_Wait takes the bit.
TakeBell == tBell /\ tBell' = FALSE /\ UNCHANGED <<now, timerDue, every>>

Goto(from, to) == tApp = "timeserver" /\ tPc = from /\ tPc' = to

\* run, call by call.
TimeClient ==
  /\ \/ Goto("start", "periodic") /\ t1' = now
        /\ UNCHANGED <<serverVars, ticks, t2, stale>>
     \/ Goto("periodic", "tick") /\ SetTimer(now + WAIT, WAIT)
        /\ UNCHANGED <<ticks, t1, t2, stale>>
     \/ Goto("tick", IF ticks + 1 < TICKS THEN "tick" ELSE "ticked") /\ TakeBell
        /\ ticks' = ticks + 1 /\ UNCHANGED <<t1, t2, stale>>
     \/ Goto("ticked", "relative") /\ t2' = now
        /\ UNCHANGED <<serverVars, ticks, t1, stale>>
     \/ Goto("relative", "once") /\ SetTimer(now + WAIT, 0)
        /\ UNCHANGED <<ticks, t1, t2, stale>>
     \/ Goto("once", "time") /\ TakeBell /\ UNCHANGED <<ticks, t1, t2, stale>>
     \/ Goto("time", "absolute") /\ t1' = now
        /\ UNCHANGED <<serverVars, ticks, t2, stale>>
     \/ Goto("absolute", "last") /\ SetTimer(t1 + WAIT, 0) /\ stale' = tBell
        /\ UNCHANGED <<ticks, t1, t2>>
     \/ Goto("last", "end") /\ TakeBell /\ UNCHANGED <<ticks, t1, t2, stale>>
     \/ Goto("end", "stop") /\ t2' = now /\ UNCHANGED <<serverVars, ticks, t1, stale>>
     \/ Goto("stop", "done") /\ timerDue' = 0 /\ every' = 0
        /\ UNCHANGED <<now, tBell, ticks, t1, t2, stale>>
  /\ UNCHANGED <<tApp, irqVars, acc, reported>>
-----------------------------------------------------------------------------
(* pit and epit                                                              *)

\* The device (external): the PIT interrupts at the end of a period, the EPIT
\* holds its line until the status is cleared.
Fire ==
  /\ tApp \in {"pit", "epit"} /\ fired < MaxTime
  /\ fired' = fired + 1
  /\ IF tApp = "epit" THEN irqLine' = TRUE /\ UNCHANGED irq
     ELSE irq' = TRUE /\ UNCHANGED irqLine
  /\ UNCHANGED <<tApp, serverVars, tClientVars, masked, hPc, count, seconds, noted, acc, reported>>

\* The kernel (external): a line that is high and not masked interrupts.
Latch ==
  /\ irqLine /\ ~masked
  /\ irq' = TRUE /\ masked' = TRUE
  /\ UNCHANGED <<tApp, serverVars, tClientVars, fired, irqLine, hPc, count, seconds, noted, acc, reported>>

\* irq_handle of pit: counts, reports each second, then acknowledges.
PitHandle ==
  /\ tApp = "pit"
  /\ \/ /\ hPc = "idle" /\ irq /\ ~masked
        /\ irq' = FALSE /\ masked' = TRUE /\ hPc' = "ack" /\ noted' = fired
        /\ IF count + 1 = IRQS_PER_SECOND
           THEN seconds' = seconds + 1 /\ count' = 0
           ELSE count' = count + 1 /\ UNCHANGED seconds
     \/ hPc = "ack" /\ masked' = FALSE /\ hPc' = "idle" /\ UNCHANGED <<irq, count, seconds, noted>>
  /\ UNCHANGED <<tApp, serverVars, tClientVars, fired, irqLine, acc, reported>>

\* irq_handle of epit: the status is cleared before the acknowledgement.
\* Mutant: the other order, a line still high interrupts once more.
EpitSteps_swapped == <<"ack", "clear">>
EpitSteps == <<"clear", "ack">>

EpitHandle ==
  /\ tApp = "epit"
  /\ \/ hPc = "idle" /\ irq /\ irq' = FALSE /\ hPc' = EpitSteps[1]
        /\ UNCHANGED <<irqLine, masked, count, noted>>
     \/ /\ hPc \in {"clear", "ack"}
        /\ hPc' = IF hPc = EpitSteps[1] THEN EpitSteps[2] ELSE "count"
        /\ IF hPc = "clear" THEN irqLine' = FALSE /\ noted' = fired /\ UNCHANGED masked
           ELSE masked' = FALSE /\ UNCHANGED <<irqLine, noted>>
        /\ UNCHANGED <<irq, count>>
     \/ hPc = "count" /\ count' = count + 1 /\ hPc' = "idle"
        /\ UNCHANGED <<irq, irqLine, masked, noted>>
  /\ UNCHANGED <<tApp, serverVars, tClientVars, fired, seconds, acc, reported>>
-----------------------------------------------------------------------------
(* periodic: acc = (17 * acc + 1) / 17 + 1, with a report at each multiple.  *)
Work ==
  LET a == (17 * acc + 1) \div 17 + 1
  IN  /\ tApp = "periodic" /\ acc < MAX_VALUE
      /\ acc' = a
      /\ reported' = IF a % RATE = 0 THEN reported + 1 ELSE reported
      /\ UNCHANGED <<tApp, serverVars, tClientVars, irqVars>>

TimersNext == TimePasses \/ TimeClient \/ Fire \/ Latch \/ PitHandle \/ EpitHandle \/ Work
-----------------------------------------------------------------------------
\* "assert(t2 - t1 >= WAIT)": the wait for the last time-out takes its time
\* (timeserver client.c:44).
LastWaitIsLong == tPc = "stop" => t2 - t1 >= WAIT

\* The ticks take the time they should (client.c:31), and the last wait is cut
\* short only by a bit that was set before its time-out was armed; no driver
\* counts more periods than passed, and with nothing left to deliver the last
\* one was counted (pit driver.c:18-28, epit driver.c:70-78); each multiple of
\* RATE is reported once, up to the last value (periodic client.c:24-34).
TimersHonest ==
  /\ tPc = "relative" => t2 - t1 >= TICKS * WAIT
  /\ tPc = "stop" /\ t2 - t1 < WAIT => stale
  /\ seconds * IRQS_PER_SECOND + count <= fired
  /\ hPc = "idle" /\ ~irq /\ ~irqLine => noted = fired /\ (fired > 0 => seconds + count > 0)
  /\ acc <= MAX_VALUE /\ reported = acc \div RATE
=============================================================================
