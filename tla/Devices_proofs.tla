----------------------------- MODULE Devices_proofs -----------------------------
(* Proofs about the applications of Devices, for every size of their         *)
(* buffers, number of peers and period of their timers.  scene keeps the     *)
(* applications apart, so the invariant of each is about its own variables:  *)
(* a step is a step of that application or leaves it alone.                  *)
EXTENDS Devices, SequenceFacts
-----------------------------------------------------------------------------
(* Timers: the client of the time server                                     *)

USE TimersAssumption

ClientPcs == {"start", "periodic", "tick", "ticked", "relative", "once", "time",
              "absolute", "last", "end", "stop", "done"}

Bell == IF tBell THEN 1 ELSE 0

\* While the client ticks, a time-out that is due has come after one period for
\* every tick before it, and the bit stands for one of them.
TicksInv ==
  /\ tPc \in {"start", "periodic"} => timerDue = 0 /\ ~tBell /\ ticks = 0
  /\ tPc = "periodic" => t1 <= now
  /\ tPc = "tick" => /\ ticks < TICKS /\ every = WAIT /\ now < timerDue
                     /\ timerDue <= now + WAIT
                     /\ timerDue - t1 >= WAIT * (ticks + 1 + Bell)
  /\ tPc = "ticked" => now - t1 >= TICKS * WAIT
  /\ tPc = "relative" => t2 - t1 >= TICKS * WAIT

\* The last time-out: unless the bit was set when it was armed, the bit or the
\* time-out comes after the wait.
LastInv ==
  /\ tPc = "absolute" => t1 <= now
  /\ tPc = "last" => /\ every = 0
                     /\ timerDue # 0 => timerDue >= t1 + WAIT
                     /\ ~stale /\ tBell => now >= t1 + WAIT
  /\ tPc = "end" /\ ~stale => now >= t1 + WAIT
  /\ tPc = "stop" /\ ~stale => t2 >= t1 + WAIT

ServerTypeInv ==
  /\ tPc \in ClientPcs /\ now \in Nat /\ timerDue \in Nat /\ every \in Nat
  /\ ticks \in Nat /\ t1 \in Nat /\ t2 \in Nat

TimeoutInv == ServerTypeInv /\ TicksInv /\ LastInv

LEMMA TimePassesInv ==
  ASSUME TimeoutInv, TimePasses
  PROVE  TimeoutInv'
<1> USE DEF TimeoutInv
<1>1. /\ now' = now + 1
      /\ UNCHANGED <<every, tPc, ticks, t1, t2, stale>>
      /\ IF timerDue = now + 1
         THEN tBell' = TRUE /\ timerDue' = IF every = 0 THEN 0 ELSE timerDue + every
         ELSE UNCHANGED <<tBell, timerDue>>
  BY DEF TimePasses, tClientVars
<1>2. ServerTypeInv'
  BY <1>1 DEF ServerTypeInv
<1>3. TicksInv'
  <2>1. tPc \in {"start", "periodic"} => timerDue' = 0 /\ ~tBell' /\ ticks = 0
    BY <1>1 DEF TicksInv, ServerTypeInv
  <2>2. ASSUME tPc = "tick"
        PROVE  /\ ticks < TICKS /\ every = WAIT /\ now' < timerDue' /\ timerDue' <= now' + WAIT
               /\ timerDue' - t1 >= WAIT * (ticks + 1 + Bell')
    <3>1. /\ ticks < TICKS /\ every = WAIT /\ now < timerDue /\ timerDue <= now + WAIT
          /\ timerDue - t1 >= WAIT * (ticks + 1 + Bell)
      BY <2>2 DEF TicksInv
    <3>2. CASE timerDue = now + 1
      <4>1. tBell' = TRUE /\ timerDue' = timerDue + WAIT
        BY <1>1, <3>1, <3>2
      <4>2. Bell' = 1 /\ Bell \in {0, 1}
        BY <4>1 DEF Bell
      <4>3. WAIT * (ticks + 1 + Bell) >= WAIT * (ticks + 1)
        BY <4>2 DEF ServerTypeInv
      <4>4. WAIT * (ticks + 1 + 1) = WAIT * (ticks + 1) + WAIT
        BY DEF ServerTypeInv
      <4>5. timerDue' - t1 >= WAIT * (ticks + 1 + 1)
        BY <3>1, <4>1, <4>2, <4>3, <4>4 DEF ServerTypeInv
      <4>6. now' < timerDue' /\ timerDue' <= now' + WAIT
        BY <1>1, <3>2, <4>1 DEF ServerTypeInv
      <4> QED BY <3>1, <4>2, <4>5, <4>6
    <3>3. CASE timerDue # now + 1
      <4>1. tBell' = tBell /\ timerDue' = timerDue
        BY <1>1, <3>3
      <4>2. Bell' = Bell
        BY <4>1 DEF Bell
      <4>3. now' < timerDue /\ timerDue <= now' + WAIT
        BY <1>1, <3>1, <3>3 DEF ServerTypeInv
      <4> QED BY <3>1, <4>1, <4>2, <4>3
    <3> QED BY <3>2, <3>3
  <2>3. tPc = "ticked" => now' - t1 >= TICKS * WAIT
    BY <1>1 DEF TicksInv, ServerTypeInv
  <2>4. tPc = "periodic" => t1 <= now'
    BY <1>1 DEF TicksInv, ServerTypeInv
  <2>5. tPc = "relative" => t2 - t1 >= TICKS * WAIT
    BY DEF TicksInv
  <2> QED BY <1>1, <2>1, <2>2, <2>3, <2>4, <2>5 DEF TicksInv
<1>4. LastInv'
  BY <1>1 DEF LastInv, ServerTypeInv
<1> QED BY <1>2, <1>3, <1>4

LEMMA TimeClientInv ==
  ASSUME TimeoutInv, TimeClient
  PROVE  TimeoutInv'
<1> USE DEF TimeoutInv
<1>1. CASE \/ Goto("start", "periodic") /\ t1' = now /\ UNCHANGED <<serverVars, ticks, t2, stale>>
           \/ Goto("ticked", "relative") /\ t2' = now /\ UNCHANGED <<serverVars, ticks, t1, stale>>
           \/ Goto("time", "absolute") /\ t1' = now /\ UNCHANGED <<serverVars, ticks, t2, stale>>
           \/ Goto("end", "stop") /\ t2' = now /\ UNCHANGED <<serverVars, ticks, t1, stale>>
  <2> USE <1>1 DEF Goto, serverVars
  <2>1. ServerTypeInv'
    BY DEF ServerTypeInv, ClientPcs
  <2>2. TicksInv'
    BY DEF ServerTypeInv, TicksInv, Bell
  <2>3. LastInv'
    BY DEF ServerTypeInv, LastInv
  <2> QED BY <2>1, <2>2, <2>3
<1>2. CASE Goto("periodic", "tick") /\ SetTimer(now + WAIT, WAIT) /\ UNCHANGED <<ticks, t1, t2, stale>>
  <2>1. /\ tPc = "periodic" /\ tPc' = "tick" /\ timerDue' = now + WAIT /\ every' = WAIT
        /\ UNCHANGED <<now, tBell, ticks, t1, t2, stale>>
    BY <1>2 DEF Goto, SetTimer, ServerTypeInv
  <2>2. ServerTypeInv'
    BY <2>1 DEF ServerTypeInv, ClientPcs
  <2>3. t1 <= now /\ ticks = 0 /\ ~tBell
    BY <2>1 DEF TicksInv
  <2>4. Bell' = 0
    BY <2>1, <2>3 DEF Bell
  <2>5. TicksInv'
    <3>1. WAIT * (ticks' + 1 + Bell') = WAIT
      BY <2>1, <2>3, <2>4
    <3>2. timerDue' - t1' >= WAIT
      BY <2>1, <2>3 DEF ServerTypeInv
    <3>3. now' < timerDue' /\ timerDue' <= now' + WAIT
      BY <2>1 DEF ServerTypeInv
    <3> QED BY <2>1, <2>3, <3>1, <3>2, <3>3 DEF TicksInv
  <2>6. LastInv'
    BY <2>1 DEF LastInv
  <2> QED BY <2>2, <2>5, <2>6
<1>3. CASE /\ Goto("tick", IF ticks + 1 < TICKS THEN "tick" ELSE "ticked") /\ TakeBell
           /\ ticks' = ticks + 1 /\ UNCHANGED <<t1, t2, stale>>
  <2>1. /\ tPc = "tick" /\ tPc' = IF ticks + 1 < TICKS THEN "tick" ELSE "ticked"
        /\ tBell /\ ~tBell' /\ UNCHANGED <<now, timerDue, every, t1, t2, stale>>
        /\ ticks' = ticks + 1
    BY <1>3 DEF Goto, TakeBell
  <2>2. /\ ticks < TICKS /\ every = WAIT /\ now < timerDue /\ timerDue <= now + WAIT
        /\ timerDue - t1 >= WAIT * (ticks + 1 + 1) /\ Bell' = 0
    BY <2>1 DEF TicksInv, Bell
  <2>3. ServerTypeInv'
    BY <2>1 DEF ServerTypeInv, ClientPcs
  <2>4. TicksInv'
    <3>1. CASE ticks + 1 < TICKS
      <4>1. WAIT * (ticks' + 1 + Bell') = WAIT * (ticks + 1 + 1)
        BY <2>1, <2>2 DEF ServerTypeInv
      <4> QED BY <2>1, <2>2, <3>1, <4>1 DEF TicksInv
    <3>2. CASE ~(ticks + 1 < TICKS)
      <4>1. ticks + 1 = TICKS
        BY <2>2, <3>2 DEF ServerTypeInv
      <4>2. WAIT * (ticks + 1 + 1) = TICKS * WAIT + WAIT
        BY <4>1 DEF ServerTypeInv
      <4>3. now - t1 >= TICKS * WAIT
        BY <2>2, <4>2 DEF ServerTypeInv
      <4> QED BY <2>1, <3>2, <4>3 DEF TicksInv
    <3> QED BY <3>1, <3>2
  <2>5. LastInv'
    BY <2>1 DEF LastInv
  <2> QED BY <2>3, <2>4, <2>5
<1>4. CASE \/ Goto("relative", "once") /\ SetTimer(now + WAIT, 0) /\ UNCHANGED <<ticks, t1, t2, stale>>
           \/ Goto("once", "time") /\ TakeBell /\ UNCHANGED <<ticks, t1, t2, stale>>
           \/ Goto("last", "end") /\ TakeBell /\ UNCHANGED <<ticks, t1, t2, stale>>
           \/ /\ Goto("stop", "done") /\ timerDue' = 0 /\ every' = 0
              /\ UNCHANGED <<now, tBell, ticks, t1, t2, stale>>
  <2> USE <1>4 DEF Goto, SetTimer, TakeBell
  <2>1. ServerTypeInv'
    BY DEF ServerTypeInv, ClientPcs
  <2>2. TicksInv'
    BY DEF TicksInv
  <2>3. LastInv'
    BY DEF ServerTypeInv, LastInv
  <2> QED BY <2>1, <2>2, <2>3
<1>5. CASE Goto("absolute", "last") /\ SetTimer(t1 + WAIT, 0) /\ stale' = tBell /\ UNCHANGED <<ticks, t1, t2>>
  <2> USE <1>5 DEF Goto, SetTimer
  <2>1. ServerTypeInv'
    BY DEF ServerTypeInv, ClientPcs
  <2>2. TicksInv'
    BY DEF TicksInv
  <2>3. LastInv'
    BY DEF ServerTypeInv, LastInv
  <2> QED BY <2>1, <2>2, <2>3
<1> QED BY <1>1, <1>2, <1>3, <1>4, <1>5 DEF TimeClient
-----------------------------------------------------------------------------
(* Timers: the interrupt drivers.  noted counts the periods that the         *)
(* interrupts counted so far stand for; a period not noted has an interrupt  *)
(* on its way.                                                               *)

Counted == seconds * IRQS_PER_SECOND + count

IrqTypeInv ==
  /\ tApp \in {"timeserver", "pit", "epit", "periodic"}
  /\ fired \in Nat /\ noted \in Nat /\ count \in Nat /\ seconds \in Nat
  /\ hPc \in {"idle", "clear", "ack", "count"}

PitInv ==
  tApp # "epit" =>
    /\ ~irqLine /\ hPc \in {"idle", "ack"}
    /\ Counted <= noted /\ noted <= fired
    /\ irq <=> noted < fired
    /\ noted > 0 => seconds + count > 0

EpitInv ==
  tApp = "epit" =>
    /\ seconds = 0
    /\ noted <= fired /\ (irqLine <=> noted < fired)
    /\ irq => irqLine
    /\ hPc = "clear" => irqLine
    /\ masked <=> irq \/ hPc \in {"clear", "ack"}
    /\ irq => hPc \in {"idle", "count"}
    /\ count + (IF hPc \in {"ack", "count"} THEN 1 ELSE 0) <= noted
    /\ noted > 0 => count > 0 \/ hPc \in {"ack", "count"}

InterruptInv == IrqTypeInv /\ PitInv /\ EpitInv

LEMMA DeviceInv ==
  ASSUME InterruptInv, Fire \/ Latch \/ EpitHandle
  PROVE  InterruptInv'
<1> USE DEF InterruptInv
<1>1. CASE Fire
  <2> USE <1>1 DEF Fire
  <2>1. IrqTypeInv'
    BY DEF IrqTypeInv
  <2>2. PitInv' /\ EpitInv'
    BY DEF IrqTypeInv, PitInv, EpitInv, Counted
  <2> QED BY <2>1, <2>2
<1>2. CASE Latch
  <2> USE <1>2 DEF Latch
  <2>1. IrqTypeInv'
    BY DEF IrqTypeInv
  <2>2. PitInv' /\ EpitInv'
    BY DEF IrqTypeInv, PitInv, EpitInv
  <2> QED BY <2>1, <2>2
<1>3. CASE EpitHandle
  <2> USE <1>3 DEF EpitHandle, EpitSteps
  <2>1. IrqTypeInv'
    BY DEF IrqTypeInv
  <2>2. PitInv'
    BY DEF PitInv
  <2>3. EpitInv'
    BY DEF IrqTypeInv, EpitInv
  <2> QED BY <2>1, <2>2, <2>3
<1> QED BY <1>1, <1>2, <1>3

LEMMA PitHandleInv ==
  ASSUME InterruptInv, PitHandle
  PROVE  InterruptInv'
<1> USE DEF InterruptInv
<1>1. tApp = "pit" /\ tApp' = tApp /\ UNCHANGED <<fired, irqLine>>
  BY DEF PitHandle
<1>2. CASE /\ hPc = "idle" /\ irq /\ ~masked
           /\ irq' = FALSE /\ masked' = TRUE /\ hPc' = "ack" /\ noted' = fired
           /\ IF count + 1 = IRQS_PER_SECOND
              THEN seconds' = seconds + 1 /\ count' = 0
              ELSE count' = count + 1 /\ UNCHANGED seconds
  <2>1. IrqTypeInv'
    BY <1>1, <1>2 DEF IrqTypeInv
  <2>2. Counted' = Counted + 1
    <3>1. CASE count + 1 = IRQS_PER_SECOND
      <4>1. (seconds + 1) * IRQS_PER_SECOND + 0 = seconds * IRQS_PER_SECOND + IRQS_PER_SECOND
        BY DEF IrqTypeInv
      <4> QED BY <1>2, <3>1, <4>1 DEF Counted, IrqTypeInv
    <3>2. CASE count + 1 # IRQS_PER_SECOND
      BY <1>2, <3>2 DEF Counted, IrqTypeInv
    <3> QED BY <3>1, <3>2
  <2>3. Counted <= noted /\ noted < fired /\ Counted \in Int
    BY <1>1, <1>2 DEF PitInv, Counted, IrqTypeInv
  <2>4. seconds' + count' > 0
    BY <1>2 DEF IrqTypeInv
  <2>5. Counted' <= noted' /\ noted' <= fired'
    BY <1>1, <1>2, <2>2, <2>3 DEF IrqTypeInv
  <2>6. PitInv'
    BY <1>1, <1>2, <2>4, <2>5 DEF PitInv, IrqTypeInv
  <2> QED BY <1>1, <2>1, <2>6 DEF EpitInv
<1>3. CASE hPc = "ack" /\ masked' = FALSE /\ hPc' = "idle" /\ UNCHANGED <<irq, count, seconds, noted>>
  BY <1>1, <1>3 DEF IrqTypeInv, PitInv, EpitInv, Counted
<1> QED BY <1>2, <1>3 DEF PitHandle
-----------------------------------------------------------------------------
(* Timers: the clients that count                                            *)

WorkInv == acc \in Nat /\ acc <= MAX_VALUE /\ reported = acc \div RATE

\* One more makes a new multiple or stays above the last one.
LEMMA NextMultiple ==
  ASSUME NEW a \in Nat, NEW r \in Nat \ {0}
  PROVE  (a + 1) \div r = IF (a + 1) % r = 0 THEN (a \div r) + 1 ELSE a \div r
<1> DEFINE q == a \div r
           m == a % r
           p == (a + 1) \div r
           n == (a + 1) % r
<1>1. q \in Int /\ m \in 0..(r - 1) /\ a = r * q + m
  OBVIOUS
<1>2. p \in Int /\ n \in 0..(r - 1) /\ a + 1 = r * p + n
  OBVIOUS
<1> HIDE DEF q, m, p, n
<1>3. r * p - r * q = (m + 1) - n /\ r * p - r * q = r * (p - q)
  BY <1>1, <1>2
<1>4. r * (p - q) > -r /\ r * (p - q) <= r
  BY <1>1, <1>2, <1>3
<1>5. p - q \in {0, 1}
  <2>1. p - q > -1
    <3>1. p - q <= -1 => r * (p - q) <= -r
      BY <1>1, <1>2
    <3> QED BY <1>1, <1>2, <1>4, <3>1
  <2>2. p - q < 2
    <3>1. p - q >= 2 => r * (p - q) >= r * 2
      BY <1>1, <1>2
    <3> QED BY <1>1, <1>2, <1>4, <3>1
  <2> QED BY <1>1, <1>2, <2>1, <2>2
<1>6. CASE p - q = 0
  <2>1. n = m + 1
    BY <1>1, <1>2, <1>3, <1>6
  <2> QED BY <1>1, <1>2, <1>6, <2>1 DEF p, q, n
<1>7. CASE p - q = 1
  <2>1. r = (m + 1) - n
    BY <1>1, <1>2, <1>3, <1>7
  <2>2. n = 0
    BY <1>1, <1>2, <2>1
  <2> QED BY <1>1, <1>2, <1>7, <2>2 DEF p, q, n
<1> QED BY <1>5, <1>6, <1>7

LEMMA WorkStep ==
  ASSUME WorkInv, Work
  PROVE  WorkInv'
<1>1. acc \in Nat /\ acc < MAX_VALUE /\ acc' = (17 * acc + 1) \div 17 + 1
      /\ reported' = IF acc' % RATE = 0 THEN reported + 1 ELSE reported
  BY DEF WorkInv, Work
<1>2. acc' = acc + 1
  <2>1. (17 * acc + 1) \div 17 = acc
    BY <1>1
  <2> QED BY <1>1, <2>1
<1>3. reported' = acc' \div RATE
  <2>1. \A a \in Nat : (a + 1) \div RATE = IF (a + 1) % RATE = 0 THEN (a \div RATE) + 1
                                            ELSE a \div RATE
    BY NextMultiple
  <2>2. (acc + 1) \div RATE = IF (acc + 1) % RATE = 0 THEN (acc \div RATE) + 1
                              ELSE acc \div RATE
    BY <1>1, <2>1
  <2>3. reported = acc \div RATE
    BY DEF WorkInv
  <2> QED BY <1>1, <1>2, <2>2, <2>3
<1>4. acc' \in Nat /\ acc' <= MAX_VALUE
  BY <1>1, <1>2
<1> QED BY <1>3, <1>4 DEF WorkInv

TimersInv == TimeoutInv /\ InterruptInv /\ WorkInv

LEMMA TimersInit_Inv == TimersInit => TimersInv
<1> SUFFICES ASSUME TimersInit PROVE TimersInv
  OBVIOUS
<1> USE DEF TimersInit, epit_init, pre_init
<1>1. TimeoutInv
  BY DEF TimeoutInv, ServerTypeInv, TicksInv, LastInv, ClientPcs
<1>2. InterruptInv
  BY DEF InterruptInv, IrqTypeInv, PitInv, EpitInv, Counted
<1>3. WorkInv
  <2>1. 0 \div RATE = 0
    OBVIOUS
  <2> QED BY <2>1 DEF WorkInv
<1> QED BY <1>1, <1>2, <1>3 DEF TimersInv

LEMMA TimersStep ==
  ASSUME TimersInv, TimersNext \/ UNCHANGED timerVars
  PROVE  TimersInv'
<1> USE DEF TimersInv
<1>1. ASSUME UNCHANGED <<serverVars, tClientVars>> PROVE TimeoutInv'
  BY <1>1 DEF TimeoutInv, ServerTypeInv, TicksInv, LastInv, Bell, serverVars, tClientVars
<1>2. ASSUME UNCHANGED <<tApp, irqVars>> PROVE InterruptInv'
  BY <1>2 DEF InterruptInv, IrqTypeInv, PitInv, EpitInv, Counted, irqVars
<1>3. ASSUME UNCHANGED <<acc, reported>> PROVE WorkInv'
  BY <1>3 DEF WorkInv
<1>4. CASE TimePasses \/ TimeClient
  <2>1. UNCHANGED <<tApp, irqVars, acc, reported>>
    BY <1>4 DEF TimePasses, TimeClient
  <2> QED BY <1>2, <1>3, <1>4, <2>1, TimePassesInv, TimeClientInv
<1>5. CASE Fire \/ Latch \/ EpitHandle \/ PitHandle
  <2>1. UNCHANGED <<serverVars, tClientVars, acc, reported>>
    BY <1>5 DEF Fire, Latch, EpitHandle, PitHandle
  <2> QED BY <1>1, <1>3, <1>5, <2>1, DeviceInv, PitHandleInv
<1>6. CASE Work
  <2>1. UNCHANGED <<tApp, serverVars, tClientVars, irqVars>>
    BY <1>6 DEF Work
  <2> QED BY <1>1, <1>2, <1>6, <2>1, WorkStep
<1>7. CASE UNCHANGED timerVars
  BY <1>1, <1>2, <1>3, <1>7 DEF timerVars
<1> QED BY <1>4, <1>5, <1>6, <1>7 DEF TimersNext

\* The ticks of timeserver take their time and only an old bit cuts its last wait
\* short, no driver counts a period that has not passed or forgets the last one,
\* and each multiple of RATE is reported once (timeserver client.c:31-43, pit and
\* epit irq_handle, periodic run).
THEOREM TimersAreHonest == Spec => []TimersHonest
<1>1. Init => TimersInv
  BY TimersInit_Inv DEF Init
<1>2. TimersInv /\ [Next]_vars => TimersInv'
  <2> SUFFICES ASSUME TimersInv, [Next]_vars PROVE TimersInv'
    OBVIOUS
  <2>1. TimersNext \/ UNCHANGED timerVars
    BY DEF Next, vars
  <2> QED BY <2>1, TimersStep
<1>3. TimersInv => TimersHonest
  <2> SUFFICES ASSUME TimersInv PROVE TimersHonest
    OBVIOUS
  <2>1. tPc = "relative" => t2 - t1 >= TICKS * WAIT
    BY DEF TimersInv, TimeoutInv, TicksInv
  <2>2. tPc = "stop" /\ t2 - t1 < WAIT => stale
    BY DEF TimersInv, TimeoutInv, LastInv, ServerTypeInv
  <2>3. Counted <= fired
    <3>1. CASE tApp # "epit"
      <4>1. Counted \in Int
        BY DEF TimersInv, InterruptInv, IrqTypeInv, Counted
      <4> QED BY <3>1, <4>1 DEF TimersInv, InterruptInv, IrqTypeInv, PitInv
    <3>2. CASE tApp = "epit"
      <4>1. Counted = count
        BY <3>2 DEF TimersInv, InterruptInv, IrqTypeInv, EpitInv, Counted
      <4> QED BY <3>2, <4>1 DEF TimersInv, InterruptInv, IrqTypeInv, EpitInv
    <3> QED BY <3>1, <3>2
  <2>4. hPc = "idle" /\ ~irq /\ ~irqLine => noted = fired /\ (fired > 0 => seconds + count > 0)
    BY DEF TimersInv, InterruptInv, IrqTypeInv, PitInv, EpitInv
  <2> QED BY <2>1, <2>2, <2>3, <2>4 DEF TimersHonest, Counted, TimersInv, WorkInv
<1> QED BY <1>1, <1>2, <1>3, PTL DEF Spec
-----------------------------------------------------------------------------
(* Clients of PicoServer: events                                             *)

HIDE TimersAssumption
USE BufAssumption

TextEvents == {"CONN", "READ", "CLOSE", "FIN", "ERR"}

\* The connections a client reads from.
Sources(k) == IF k = "echo" THEN TextPeers ELSE {Pipe}

DueInv ==
  /\ due \in [Loops -> [TextSocks -> SUBSET TextEvents]] /\ DOMAIN note = Loops
  /\ \A k \in Loops, s \in TextSocks : "READ" \in due[k][s] => s \in Sources(k)

EventInv ==
  /\ event \in [Loops -> [socket : TextSocks, events : SUBSET TextEvents]]
  /\ DOMAIN loop = Loops
  /\ \A k \in Loops : "READ" \in event[k].events => event[k].socket \in Sources(k)

ClientEvents == DueInv /\ EventInv /\ NoEventForgotten

\* PicoServer raises an event.
LEMMA AnnounceEvents ==
  ASSUME ClientEvents, NEW k \in Loops, NEW s \in TextSocks, NEW e \in TextEvents,
         e = "READ" => s \in Sources(k), Announce(k, s, e)
  PROVE  /\ DueInv'
         /\ UNCHANGED loop => NoEventForgotten'
<1>1. /\ due' = [due EXCEPT ![k][s] = due[k][s] \cup {e}]
      /\ note' = [note EXCEPT ![k] = TRUE]
  BY DEF Announce
<1>2. /\ due \in [Loops -> [TextSocks -> SUBSET TextEvents]] /\ DOMAIN note = Loops
  BY DEF ClientEvents, DueInv
<1>3. /\ due' \in [Loops -> [TextSocks -> SUBSET TextEvents]]
      /\ \A j \in Loops, t \in TextSocks :
           due'[j][t] = IF j = k /\ t = s THEN due[j][t] \cup {e} ELSE due[j][t]
  BY <1>1, <1>2
<1>4. DOMAIN note' = Loops /\ \A j \in Loops : note'[j] = IF j = k THEN TRUE ELSE note[j]
  BY <1>1, <1>2
<1>5. DueInv'
  <2>1. ASSUME NEW j \in Loops, NEW t \in TextSocks, "READ" \in due'[j][t] PROVE t \in Sources(j)
    <3>1. CASE "READ" \in due[j][t]
      BY <3>1 DEF ClientEvents, DueInv
    <3>2. CASE "READ" \notin due[j][t]
      <4>1. due'[j][t] = IF j = k /\ t = s THEN due[j][t] \cup {e} ELSE due[j][t]
        BY <1>3
      <4>2. j = k /\ t = s /\ e = "READ"
        BY <2>1, <3>2, <4>1
      <4> QED BY <4>2
    <3> QED BY <3>1, <3>2
  <2> QED BY <1>3, <1>4, <2>1 DEF DueInv
<1>6. ASSUME UNCHANGED loop PROVE NoEventForgotten'
  <2> SUFFICES ASSUME NEW j \in Loops, NEW t \in TextSocks, due'[j][t] # {}, loop'[j] = "wait"
      PROVE  note'[j]
    BY DEF NoEventForgotten
  <2>1. CASE j = k
    BY <1>4, <2>1
  <2>2. CASE j # k
    <3>1. due[j][t] # {} /\ loop[j] = "wait" /\ note'[j] = note[j]
      BY <1>3, <1>4, <1>6, <2>2
    <3> QED BY <3>1 DEF ClientEvents, NoEventForgotten
  <2> QED BY <2>1, <2>2
<1> QED BY <1>5, <1>6

\* A client polls: it waits again only when there was no event left.
LEMMA PollEvents ==
  ASSUME ClientEvents, NEW k \in Loops, PollEvent(k), note' \in {note, [note EXCEPT ![k] = FALSE]}
  PROVE  ClientEvents'
<1> DEFINE some == {s \in TextSocks : due[k][s] # {}}
<1>1. /\ due \in [Loops -> [TextSocks -> SUBSET TextEvents]] /\ DOMAIN note = Loops
      /\ event \in [Loops -> [socket : TextSocks, events : SUBSET TextEvents]]
      /\ DOMAIN loop = Loops
  BY DEF ClientEvents, DueInv, EventInv
<1>2. DOMAIN note' = Loops /\ \A j \in Loops : j # k => note'[j] = note[j]
  BY <1>1
<1>3. CASE some = {}
  <2>1. /\ loop' = [loop EXCEPT ![k] = "wait"] /\ event' = [event EXCEPT ![k] = NoText]
        /\ UNCHANGED due
    BY <1>3 DEF PollEvent
  <2>2. DueInv'
    BY <1>2, <2>1 DEF ClientEvents, DueInv
  <2>3. EventInv'
    BY <1>1, <2>1 DEF ClientEvents, EventInv, NoText, TextSocks
  <2>4. NoEventForgotten'
    BY <1>1, <1>2, <1>3, <2>1 DEF ClientEvents, NoEventForgotten
  <2> QED BY <2>2, <2>3, <2>4 DEF ClientEvents
<1>4. CASE some # {}
  <2>1. PICK s \in some :
          /\ loop' = [loop EXCEPT ![k] = "loop"]
          /\ event' = [event EXCEPT ![k] = [socket |-> s, events |-> due[k][s]]]
          /\ due' = [due EXCEPT ![k][s] = {}]
    BY <1>4 DEF PollEvent
  <2>2. /\ due' \in [Loops -> [TextSocks -> SUBSET TextEvents]]
        /\ \A j \in Loops, t \in TextSocks :
             due'[j][t] = IF j = k /\ t = s THEN {} ELSE due[j][t]
    BY <1>1, <2>1
  <2>3. DueInv'
    BY <1>2, <2>2 DEF ClientEvents, DueInv
  <2>4. EventInv'
    BY <1>1, <2>1 DEF ClientEvents, EventInv, DueInv
  <2>5. NoEventForgotten'
    BY <1>1, <1>2, <2>1, <2>2 DEF ClientEvents, NoEventForgotten
  <2> QED BY <2>3, <2>4, <2>5 DEF ClientEvents
<1> QED BY <1>3, <1>4

\* A client has handled some of the events it polled, and may have died.
LEMMA HandledEvents ==
  ASSUME ClientEvents, NEW k \in Loops, NEW es, Handled(k, es) \/ UNCHANGED event,
         UNCHANGED loop \/ loop' = [loop EXCEPT ![k] = "dead"]
  PROVE  EventInv' /\ (UNCHANGED <<due, note>> => ClientEvents')
<1>1. /\ event \in [Loops -> [socket : TextSocks, events : SUBSET TextEvents]]
      /\ DOMAIN loop = Loops
  BY DEF ClientEvents, EventInv
<1>2. EventInv'
  BY <1>1 DEF Handled, ClientEvents, EventInv
<1>3. ASSUME UNCHANGED <<due, note>> PROVE DueInv' /\ NoEventForgotten'
  BY <1>1, <1>3 DEF ClientEvents, DueInv, NoEventForgotten
<1> QED BY <1>2, <1>3 DEF ClientEvents

LEMMA ClientEventsStep ==
  ASSUME ClientEvents, ClientsNext \/ UNCHANGED clientVars
  PROVE  ClientEvents'
<1>1. ASSUME UNCHANGED <<loop, event>> PROVE EventInv'
  BY <1>1 DEF ClientEvents, EventInv
<1>2. CASE UNCHANGED clientVars
  BY <1>2 DEF ClientEvents, DueInv, EventInv, NoEventForgotten, clientVars
<1>3. ASSUME NEW s \in TextPeers \cup {Pipe}, TConnect(s) PROVE ClientEvents'
  <2>1. Announce(Owner(s), "in", "CONN") /\ UNCHANGED <<loop, event>>
    BY <1>3 DEF TConnect
  <2>2. Owner(s) \in Loops /\ "in" \in TextSocks /\ "CONN" \in TextEvents
    BY DEF Owner, Loops, TextSocks, TextEvents
  <2> QED BY <1>1, <2>1, <2>2, AnnounceEvents DEF ClientEvents
<1>4. ASSUME NEW p \in TextPeers, NEW n, TArrive(p, n) PROVE ClientEvents'
  <2>1. Announce("echo", p, "READ") /\ UNCHANGED <<loop, event>>
    BY <1>4 DEF TArrive
  <2>2. "echo" \in Loops /\ p \in TextSocks /\ p \in Sources("echo") /\ "READ" \in TextEvents
    BY DEF Loops, TextSocks, TextEvents, Sources
  <2> QED BY <1>1, <2>1, <2>2, AnnounceEvents DEF ClientEvents
<1>5. ASSUME NEW p \in TextPeers, NEW e \in {"CLOSE", "ERR", "FIN"}, TEnd(p, e) PROVE ClientEvents'
  <2>1. Announce("echo", p, e) /\ UNCHANGED <<loop, event>>
    BY <1>5 DEF TEnd
  <2>2. "echo" \in Loops /\ p \in TextSocks /\ e # "READ" /\ e \in TextEvents
    BY DEF Loops, TextSocks, TextEvents
  <2> QED BY <1>1, <2>1, <2>2, AnnounceEvents DEF ClientEvents
<1>6. ASSUME NEW k \in Loops, Woken(k) \/ PollNext(k) PROVE ClientEvents'
  <2>1. PollEvent(k) /\ note' \in {note, [note EXCEPT ![k] = FALSE]}
    BY <1>6 DEF Woken, PollNext
  <2> QED BY <2>1, PollEvents
<1>7. ASSUME NEW k \in Loops, \/ HandleConn(k) \/ HandleReadPrint(k) \/ HandleEnd(k)
                               \/ StringFaults(k) \/ (k = "echo" /\ CopyFaults)
      PROVE  ClientEvents'
  <2>1. /\ UNCHANGED <<due, note>>
        /\ \E es : Handled(k, es) \/ UNCHANGED event
        /\ UNCHANGED loop \/ loop' = [loop EXCEPT ![k] = "dead"]
    BY <1>7 DEF HandleConn, HandleReadPrint, HandleEnd, StringFaults, CopyFaults
  <2> QED BY <2>1, HandledEvents
<1>8. ASSUME NEW m, HandleReadForward(m) PROVE ClientEvents'
  <2>1. /\ Handled("echo", {"READ"}) /\ UNCHANGED loop
        /\ Announce("listener", Pipe, "READ") \/ UNCHANGED <<due, note>>
    BY <1>8 DEF HandleReadForward
  <2>2. /\ "echo" \in Loops /\ "listener" \in Loops /\ Pipe \in TextSocks
        /\ Pipe \in Sources("listener") /\ "READ" \in TextEvents
    BY DEF Loops, TextSocks, TextEvents, Sources
  <2>3. EventInv' /\ (UNCHANGED <<due, note>> => ClientEvents')
    BY <2>1, <2>2, HandledEvents
  <2> QED BY <2>1, <2>2, <2>3, AnnounceEvents DEF ClientEvents
<1> QED BY <1>2, <1>3, <1>4, <1>5, <1>6, <1>7, <1>8 DEF ClientsNext, ClientStep

LEMMA ClientEventsInit == ClientsInit => ClientEvents
<1> SUFFICES ASSUME ClientsInit PROVE ClientEvents
  OBVIOUS
<1>1. DueInv /\ NoEventForgotten
  BY DEF ClientsInit, DueInv, NoEventForgotten
<1>2. NoText \in [socket : TextSocks, events : SUBSET TextEvents] /\ NoText.events = {}
  BY DEF NoText, TextSocks
<1>3. EventInv
  BY <1>2 DEF ClientsInit, EventInv
<1> QED BY <1>1, <1>3 DEF ClientEvents

\* A client that waits with events it has not polled has been notified
\* (handle_picoserver_notification polls until there is none), for any number
\* of peers and whatever one notification stands for.
THEOREM EventsAreNotForgotten == Spec => []NoEventForgotten
<1>1. Init => ClientEvents
  BY ClientEventsInit DEF Init
<1>2. ClientEvents /\ [Next]_vars => ClientEvents'
  <2>1. [Next]_vars => ClientsNext \/ UNCHANGED clientVars
    BY DEF Next, vars
  <2> QED BY <2>1, ClientEventsStep
<1>3. ClientEvents => NoEventForgotten
  BY DEF ClientEvents
<1> QED BY <1>1, <1>2, <1>3, PTL DEF Spec
-----------------------------------------------------------------------------
(* Clients of PicoServer: text                                               *)

TextBytes == TextPeers \X Nat \X Kinds

\* A peer's bytes in order, and before those of another sequence.
Rising(s) == \A a, b : Precedes(s, a, b) /\ a[1] = b[1] => a[2] < b[2]
Before(s, t) == \A a \in Range(s), b \in Range(t) : a[1] = b[1] => a[2] < b[2]

\* The text that has been printed or is on its way to Listener.
Out == printed \o stream[Pipe]

TextTypeInv ==
  /\ app \in {"picoserver", "picoserver_uboot"} /\ typed \in Nat
  /\ stream \in [TextPeers \cup {Pipe} -> Seq(TextBytes)]
  /\ got \in Seq(TextBytes) /\ printed \in Seq(TextBytes)
  /\ heard \in Seq(TextBytes)
  /\ recv_buf = [k \in Loops |-> Zeroes] /\ send_buf = Zeroes

ArrivedInv ==
  /\ \A p \in TextPeers :
       /\ Rising(stream[p]) /\ \A a \in Range(stream[p]) : a[1] = p /\ a[2] <= typed
       /\ Before(got, stream[p])
  /\ Rising(got) /\ \A a \in Range(got) : a[2] <= typed

OutInv ==
  /\ Rising(Out) /\ Range(Out) \subseteq Range(got)
  /\ ~cut => Out = heard
  /\ \A a \in Range(stream[Pipe]) : ~IsZero(a)
  /\ app = "picoserver_uboot" => stream[Pipe] = <<>>

TextInv == TextTypeInv /\ ArrivedInv /\ OutInv

LEMMA RisingConcat ==
  ASSUME NEW s \in Seq(TextBytes), NEW t \in Seq(TextBytes), Rising(s), Rising(t), Before(s, t)
  PROVE  Rising(s \o t)
<1>1. \A a, b : Precedes(s \o t, a, b) =>
        \/ Precedes(s, a, b) \/ Precedes(t, a, b) \/ (a \in Range(s) /\ b \in Range(t))
  BY ConcatOrder
<1> QED BY <1>1 DEF Rising, Before

\* What a concatenation is made of keeps its order in it.
LEMMA ConcatKeeps ==
  ASSUME NEW s \in Seq(TextBytes), NEW t \in Seq(TextBytes)
  PROVE  /\ \A a, b : Precedes(s, a, b) => Precedes(s \o t, a, b)
         /\ \A a, b : Precedes(t, a, b) => Precedes(s \o t, a, b)
         /\ \A a \in Range(s), b \in Range(t) : Precedes(s \o t, a, b)
<1> DEFINE u == s \o t
           m == Len(s)
           n == Len(t)
<1>1. /\ m \in Nat /\ n \in Nat /\ Len(u) = m + n
      /\ \A i \in 1..m : u[i] = s[i]
      /\ \A i \in 1..n : u[m + i] = t[i]
  BY ConcatProperties
<1>2. Range(s) = {s[i] : i \in 1..m} /\ Range(t) = {t[i] : i \in 1..n}
  BY RangeSeq
<1>3. DOMAIN s = 1..m /\ DOMAIN t = 1..n
  OBVIOUS
<1> HIDE DEF u, m, n
<1>4. ASSUME NEW a, NEW b, Precedes(s, a, b) PROVE Precedes(u, a, b)
  <2>1. PICK i, j \in 1..m : i < j /\ s[i] = a /\ s[j] = b
    BY <1>4 DEF Precedes, m
  <2>2. i \in 1..Len(u) /\ j \in 1..Len(u) /\ u[i] = a /\ u[j] = b
    BY <1>1, <2>1
  <2> QED BY <2>1, <2>2 DEF Precedes
<1>5. ASSUME NEW a, NEW b, Precedes(t, a, b) PROVE Precedes(u, a, b)
  <2>1. PICK i, j \in 1..n : i < j /\ t[i] = a /\ t[j] = b
    BY <1>5 DEF Precedes, n
  <2>2. /\ m + i \in 1..Len(u) /\ m + j \in 1..Len(u) /\ m + i < m + j
        /\ u[m + i] = a /\ u[m + j] = b
    BY <1>1, <2>1
  <2> QED BY <2>2 DEF Precedes
<1>6. ASSUME NEW a \in Range(s), NEW b \in Range(t) PROVE Precedes(u, a, b)
  <2>1. PICK i \in 1..m, j \in 1..n : s[i] = a /\ t[j] = b
    BY <1>2
  <2>2. /\ i \in 1..Len(u) /\ m + j \in 1..Len(u) /\ i < m + j
        /\ u[i] = a /\ u[m + j] = b
    BY <1>1, <2>1
  <2> QED BY <2>2 DEF Precedes
<1> QED BY <1>4, <1>5, <1>6 DEF u

\* What a peer sends comes after all that was sent before.
LEMMA NewText ==
  ASSUME NEW p \in TextPeers, NEW t \in Nat, NEW n \in Nat, NEW kinds \in [1..n -> Kinds]
  PROVE  LET new == [i \in 1..n |-> <<p, t + i, kinds[i]>>]
         IN  /\ new \in Seq(TextBytes) /\ Rising(new)
             /\ \A a \in Range(new) : a[1] = p /\ a[2] > t /\ a[2] <= t + n
<1> DEFINE new == [i \in 1..n |-> <<p, t + i, kinds[i]>>]
<1>1. \A i \in 1..n : <<p, t + i, kinds[i]>> \in TextBytes
  BY DEF TextBytes
<1>2. new \in Seq(TextBytes) /\ Len(new) = n /\ \A i \in 1..n : new[i] = <<p, t + i, kinds[i]>>
  BY <1>1
<1> HIDE DEF new
<1>3. Range(new) = {new[i] : i \in 1..n}
  <2>1. Range(new) = {new[i] : i \in 1..Len(new)}
    BY <1>2, RangeSeq
  <2> QED BY <1>2, <2>1
<1>4. ASSUME NEW a, NEW b, Precedes(new, a, b) PROVE a[2] < b[2]
  <2>1. PICK i \in 1..n, j \in 1..n : i < j /\ new[i] = a /\ new[j] = b
    BY <1>2, <1>4 DEF Precedes
  <2> QED BY <1>2, <2>1
<1>5. Rising(new)
  BY <1>4 DEF Rising
<1>6. \A a \in Range(new) : a[1] = p /\ a[2] > t /\ a[2] <= t + n
  BY <1>2, <1>3
<1> QED BY <1>2, <1>5, <1>6 DEF new

\* A sequence has one length as a string.
LEMMA StringLength ==
  ASSUME NEW S, NEW s \in Seq(S)
  PROVE  /\ strlen(s) \in 0..Len(s) /\ IsLength(s, strlen(s))
         /\ \A n \in 0..Len(s) : IsLength(s, n) => strlen(s) = n
<1> DEFINE T == {n \in 0..Len(s) : n < Len(s) => IsZero(s[n + 1])}
<1>1. Len(s) \in Nat
  OBVIOUS
<1>2. Len(s) \in T /\ T \subseteq Nat
  BY <1>1
<1>3. PICK n \in T : \A k \in T : n <= k
  BY <1>2, LeastNat
<1>4. IsLength(s, n)
  <2>1. ASSUME NEW i \in 1..n PROVE ~IsZero(s[i])
    <3>1. n \in Nat /\ n <= Len(s) /\ i - 1 \in 0..Len(s) /\ (i - 1) + 1 = i /\ i - 1 < n
      BY <1>1, <1>3
    <3>2. i - 1 \notin T
      <4> HIDE DEF T
      <4>1. i - 1 \in T => n <= i - 1
        BY <1>3
      <4> QED BY <3>1, <4>1
    <3> QED BY <3>1, <3>2
  <2> QED BY <1>3, <2>1 DEF IsLength
<1>5. ASSUME NEW m \in 0..Len(s), NEW k \in 0..Len(s), IsLength(s, m), IsLength(s, k)
      PROVE  ~(m < k)
  <2>1. SUFFICES ASSUME m < k PROVE FALSE
    OBVIOUS
  <2>2. m + 1 \in 1..k /\ m < Len(s)
    BY <1>1, <2>1
  <2> QED BY <1>5, <2>2 DEF IsLength
<1>6. \A m, k \in 0..Len(s) : IsLength(s, m) /\ IsLength(s, k) => m = k
  <2> TAKE m, k \in 0..Len(s)
  <2>1. IsLength(s, m) /\ IsLength(s, k) => ~(m < k) /\ ~(k < m)
    BY <1>5
  <2> QED BY <1>1, <2>1
<1>7. strlen(s) \in 0..Len(s) /\ IsLength(s, strlen(s))
  BY <1>3, <1>4 DEF strlen
<1> QED BY <1>6, <1>7

\* A buffer that begins with the string of a message and has a zero behind it,
\* unless it is full, holds that string.
LEMMA BufferText ==
  ASSUME NEW q \in Seq(TextBytes), Len(q) <= BUF, NEW l \in 0..Len(q), l = strlen(q),
         NEW buf \in [1..BUF -> TextBytes \cup {NUL}], \A i \in 1..l : buf[i] = q[i],
         l < BUF => IsZero(buf[l + 1])
  PROVE  /\ buf \in Seq(TextBytes \cup {NUL}) /\ Len(buf) = BUF
         /\ strlen(buf) = l /\ \A m \in 0..l : SubSeq(buf, 1, m) = SubSeq(q, 1, m)
<1> DEFINE S == TextBytes \cup {NUL}
<1>1. Len(q) \in Nat /\ BUF \in Nat /\ l \in Nat /\ l <= BUF /\ l <= Len(q)
  OBVIOUS
<1>2. buf \in Seq(S) /\ Len(buf) = BUF
  BY <1>1
<1> HIDE DEF S
<1>3. IsLength(q, l)
  BY StringLength
<1>4. IsLength(buf, l)
  BY <1>2, <1>3 DEF IsLength
<1>5. l \in 0..Len(buf)
  BY <1>1, <1>2
<1>6. strlen(buf) = l
  BY <1>2, <1>4, <1>5, StringLength
<1>7. ASSUME NEW m \in 0..l PROVE SubSeq(buf, 1, m) = SubSeq(q, 1, m)
  <2>1. m \in 0..Len(q) /\ m \in 0..Len(buf) /\ \A i \in 1..m : i \in 1..l
    BY <1>1, <1>2
  <2>2. \A i \in 1..m : buf[i] = q[i]
    BY <2>1
  <2>3. q \in Seq(S)
    BY DEF S
  <2>4. \A s \in Seq(S), t \in Seq(S) :
          \A j \in 0..Len(s) :
            j \in 0..Len(t) /\ (\A i \in 1..j : s[i] = t[i]) => SubSeq(s, 1, j) = SubSeq(t, 1, j)
    BY SamePrefix
  <2> QED BY <1>2, <2>1, <2>2, <2>3, <2>4, Zenon
<1> QED BY <1>2, <1>6, <1>7 DEF S

\* The first n bytes of a connection, and those after them.
First(s, n) == SubSeq(s, 1, n)
Rest(s, n) == SubSeq(s, n + 1, Len(s))

\* k bytes of a connection f are received behind g, m of them sent behind o.
LEMMA MoreText ==
  ASSUME NEW g \in Seq(TextBytes), NEW o \in Seq(TextBytes), NEW f \in Seq(TextBytes),
         NEW k \in 0..Len(f), NEW m \in 0..k,
         Rising(g), Rising(o), Rising(f), Before(g, f), Range(o) \subseteq Range(g)
  PROVE  /\ First(f, k) \in Seq(TextBytes) /\ Rest(f, k) \in Seq(TextBytes)
         /\ Range(First(f, k)) \subseteq Range(f) /\ Range(Rest(f, k)) \subseteq Range(f)
         /\ Rising(Rest(f, k)) /\ Before(First(f, k), Rest(f, k))
         /\ g \o First(f, k) \in Seq(TextBytes) /\ Rising(g \o First(f, k))
         /\ Range(g \o First(f, k)) = Range(g) \cup Range(First(f, k))
         /\ Rising(o \o First(f, m)) /\ Range(o \o First(f, m)) \subseteq Range(g \o First(f, k))
<1>1. k \in Nat /\ m \in Nat /\ m \in 0..Len(f) /\ m <= k
  OBVIOUS
<1> DEFINE t == First(f, k)
           r == Rest(f, k)
           u == First(f, m)
<1>2. /\ t \in Seq(TextBytes) /\ Len(t) = k /\ \A i \in 1..k : t[i] = f[i]
      /\ Range(t) \subseteq Range(f) /\ \A a, b : Precedes(t, a, b) => Precedes(f, a, b)
  BY PrefixOrder DEF First
<1>3. /\ u \in Seq(TextBytes) /\ Len(u) = m /\ \A i \in 1..m : u[i] = f[i]
      /\ Range(u) \subseteq Range(f) /\ \A a, b : Precedes(u, a, b) => Precedes(f, a, b)
  BY <1>1, PrefixOrder DEF First
<1>4. /\ r \in Seq(TextBytes) /\ Range(r) \subseteq Range(f)
      /\ \A a, b : Precedes(r, a, b) => Precedes(f, a, b)
      /\ \A i \in 1..k, b \in Range(r) : Precedes(f, f[i], b)
  BY SuffixOrder DEF Rest
<1> HIDE DEF t, r, u
<1>5. Range(t) = {t[i] : i \in 1..k} /\ Range(u) = {u[i] : i \in 1..m}
  <2>1. \A s \in Seq(TextBytes) : Range(s) = {s[i] : i \in 1..Len(s)}
    BY RangeSeq
  <2>2. Range(t) = {t[i] : i \in 1..Len(t)} /\ Range(u) = {u[i] : i \in 1..Len(u)}
    BY <1>2, <1>3, <2>1
  <2> QED BY <1>2, <1>3, <2>2
<1>6. Rising(t) /\ Rising(u) /\ Rising(r)
  BY <1>2, <1>3, <1>4 DEF Rising
<1>7. Before(g, t) /\ Before(o, u)
  BY <1>2, <1>3 DEF Before
<1>8. Before(t, r)
  <2> SUFFICES ASSUME NEW a \in Range(t), NEW b \in Range(r), a[1] = b[1] PROVE a[2] < b[2]
    BY DEF Before
  <2>1. PICK i \in 1..k : a = f[i]
    BY <1>2, <1>5
  <2>2. Precedes(f, a, b)
    BY <1>4, <2>1
  <2> QED BY <2>2 DEF Rising
<1>9. Rising(g \o t) /\ Rising(o \o u)
  BY <1>2, <1>3, <1>6, <1>7, RisingConcat
<1>10. g \o t \in Seq(TextBytes) /\ Range(g \o t) = Range(g) \cup Range(t)
  BY <1>2, ConcatOrder
<1>11. Range(o \o u) = Range(o) \cup Range(u)
  BY <1>3, ConcatOrder
<1>12. Range(u) \subseteq Range(t)
  BY <1>1, <1>2, <1>3, <1>5
<1>13. Range(o \o u) \subseteq Range(g \o t)
  BY <1>10, <1>11, <1>12
<1> QED BY <1>2, <1>4, <1>6, <1>8, <1>9, <1>10, <1>13 DEF t, r, u

\* A receive into a cleared buffer: the string in it is that of what was received,
\* and a cleared buffer it is copied to holds the same.
LEMMA ReceivedText ==
  ASSUME TextTypeInv, NEW k \in Loops, NEW s \in TextPeers \cup {Pipe}
  PROVE  LET buf == Filled(recv_buf[k], s, Readable(s))
             out == Copied(send_buf, buf, Readable(s))
             l == strlen(Received(s))
         IN  /\ Readable(s) \in 0..Len(stream[s]) /\ l \in 0..Readable(s)
             /\ Received(s) = First(stream[s], Readable(s))
             /\ Text(Received(s)) = First(stream[s], l) /\ Text(buf) = First(stream[s], l)
             /\ strlen(out) = l
             /\ \A m \in 0..l : SubSeq(out, 1, m) = First(stream[s], m)
<1> DEFINE n == Readable(s)
           f == stream[s]
           q == Received(s)
           l == strlen(q)
           buf == Filled(recv_buf[k], s, n)
           out == Copied(send_buf, buf, n)
<1>1. f \in Seq(TextBytes) /\ recv_buf[k] = Zeroes /\ send_buf = Zeroes
  BY DEF TextTypeInv
<1>2. n \in 0..Len(f) /\ n \in 0..BUF /\ n <= BUF /\ n \in Nat /\ BUF \in Nat
  <2>1. Len(f) \in Nat /\ BUF \in Nat
    BY <1>1
  <2> HIDE DEF f
  <2>2. n = MinNat(BUF, Len(f))
    BY DEF Readable, f
  <2> QED BY <2>1, <2>2 DEF MinNat
<1>3. q = First(f, n)
  BY DEF Received, First
<1> HIDE DEF n, f
<1>4. q \in Seq(TextBytes) /\ Len(q) = n /\ \A i \in 1..n : q[i] = f[i]
  <2>1. SubSeq(f, 1, n) \in Seq(TextBytes) /\ Len(SubSeq(f, 1, n)) = n
        /\ \A i \in 1..n : SubSeq(f, 1, n)[i] = f[i]
    BY <1>1, <1>2, PrefixOrder
  <2> QED BY <1>3, <2>1 DEF First
<1> HIDE DEF q
<1>5. /\ l \in 0..n /\ IsLength(q, l)
  BY <1>4, StringLength
<1> HIDE DEF l
<1>6. l \in Nat /\ l <= n
  BY <1>2, <1>5
<1>7. buf = [i \in 1..BUF |-> IF i <= n THEN q[i] ELSE NUL]
  <2>1. buf = [i \in 1..BUF |-> IF i <= n THEN f[i] ELSE NUL]
    BY <1>1, <1>2 DEF Filled, Zeroes, f
  <2>2. \A i \in 1..BUF : i <= n => i \in 1..n
    BY <1>2
  <2> QED BY <1>4, <2>1, <2>2
<1> HIDE DEF buf
<1>8. /\ buf \in [1..BUF -> TextBytes \cup {NUL}]
      /\ \A i \in 1..l : buf[i] = q[i]
      /\ l < BUF => IsZero(buf[l + 1])
  <2>1. \A i \in 1..n : q[i] \in TextBytes
    BY <1>4
  <2>2. \A i \in 1..BUF : i <= n => i \in 1..n
    BY <1>2
  <2>3. buf \in [1..BUF -> TextBytes \cup {NUL}]
    BY <1>7, <2>1, <2>2
  <2>4. \A i \in 1..l : i \in 1..BUF /\ i <= n
    BY <1>2, <1>6
  <2>5. ASSUME l < BUF PROVE IsZero(buf[l + 1])
    <3>1. l + 1 \in 1..BUF
      BY <1>2, <1>6, <2>5
    <3>2. CASE l < n
      <4>1. l + 1 <= n /\ IsZero(q[l + 1])
        BY <1>2, <1>4, <1>5, <1>6, <3>2 DEF IsLength
      <4> QED BY <1>7, <3>1, <4>1
    <3>3. CASE l = n
      <4>1. ~(l + 1 <= n)
        BY <1>2, <3>3
      <4> QED BY <1>7, <3>1, <4>1 DEF IsZero
    <3> QED BY <1>2, <1>6, <3>2, <3>3
  <2> QED BY <1>7, <2>3, <2>4, <2>5
<1>9. \A b \in [1..BUF -> TextBytes \cup {NUL}] :
        (\A i \in 1..l : b[i] = q[i]) /\ (l < BUF => IsZero(b[l + 1]))
        => /\ b \in Seq(TextBytes \cup {NUL}) /\ Len(b) = BUF
           /\ strlen(b) = l /\ \A m \in 0..l : SubSeq(b, 1, m) = SubSeq(q, 1, m)
  <2>1. Len(q) <= BUF /\ l \in 0..Len(q) /\ l = strlen(q)
    BY <1>2, <1>4, <1>5 DEF l
  <2> QED BY <1>4, <2>1, BufferText
<1>10. strlen(buf) = l /\ \A m \in 0..l : SubSeq(buf, 1, m) = SubSeq(q, 1, m)
  BY <1>8, <1>9
<1>11. /\ out \in [1..BUF -> TextBytes \cup {NUL}]
       /\ \A i \in 1..l : out[i] = q[i]
       /\ l < BUF => IsZero(out[l + 1])
  <2>1. out = [i \in 1..BUF |-> IF i > n THEN NUL ELSE IF i <= l THEN buf[i] ELSE NUL]
    BY <1>1, <1>10 DEF Copied, Zeroes
  <2>2. \A i \in 1..l : i \in 1..BUF /\ ~(i > n) /\ i <= l
    BY <1>2, <1>6
  <2>3. l < BUF => l + 1 \in 1..BUF /\ ~(l + 1 <= l)
    BY <1>2, <1>6
  <2>4. IsZero(NUL)
    BY DEF IsZero
  <2> QED BY <1>8, <2>1, <2>2, <2>3, <2>4
<1> HIDE DEF out
<1>12. strlen(out) = l /\ \A m \in 0..l : SubSeq(out, 1, m) = SubSeq(q, 1, m)
  BY <1>9, <1>11
<1>13. \A m \in 0..l : SubSeq(q, 1, m) = First(f, m)
  <2> TAKE m \in 0..l
  <2>1. m \in 0..Len(q) /\ m \in 0..Len(f) /\ \A i \in 1..m : i \in 1..n
    BY <1>1, <1>2, <1>4, <1>6
  <2>2. \A i \in 1..m : q[i] = f[i]
    BY <1>4, <2>1
  <2>3. \A u \in Seq(TextBytes), v \in Seq(TextBytes) :
          \A j \in 0..Len(u) :
            j \in 0..Len(v) /\ (\A i \in 1..j : u[i] = v[i]) => SubSeq(u, 1, j) = SubSeq(v, 1, j)
    BY SamePrefix
  <2> QED BY <1>1, <1>4, <2>1, <2>2, <2>3, Zenon DEF First
<1>14. l \in 0..l
  BY <1>6
<1>15. Text(q) = First(f, l) /\ Text(buf) = First(f, l)
  BY <1>10, <1>13, <1>14 DEF Text, l
<1> QED BY <1>2, <1>3, <1>5, <1>12, <1>13, <1>15 DEF n, f, q, l, buf, out

\* Echo receives what it can hold from p, and m bytes of it go on.
LEMMA EchoReceives ==
  ASSUME TextInv, NEW p \in TextPeers, NEW m \in 0..Readable(p), Hear("echo", p),
         \A q \in TextPeers : stream'[q] = IF q = p THEN Rest(stream[p], Readable(p)) ELSE stream[q],
         Out' = Out \o First(stream[p], m),
         UNCHANGED <<app, typed>>, ~cut' => ~cut /\ m = strlen(Received(p)),
         \A a \in Range(stream'[Pipe]) : ~IsZero(a),
         app = "picoserver_uboot" => stream'[Pipe] = <<>>
  PROVE  /\ ArrivedInv' /\ OutInv' /\ got' \in Seq(TextBytes) /\ heard' \in Seq(TextBytes)
         /\ Rest(stream[p], Readable(p)) \in Seq(TextBytes)
<1> DEFINE f == stream[p]
           k == Readable(p)
           o == Out
           t == First(f, k)
           r == Rest(f, k)
           l == strlen(Received(p))
<1>1. /\ f \in Seq(TextBytes) /\ got \in Seq(TextBytes) /\ o \in Seq(TextBytes)
  <2>1. stream[Pipe] \in Seq(TextBytes) /\ printed \in Seq(TextBytes)
    BY DEF TextInv, TextTypeInv
  <2> QED BY <2>1 DEF TextInv, TextTypeInv, Out
<1>2. /\ k \in 0..Len(f) /\ l \in 0..k
      /\ Received(p) = First(f, k) /\ Text(Received(p)) = First(f, l)
  <2>1. "echo" \in Loops
    BY DEF Loops
  <2> QED BY <2>1, ReceivedText DEF TextInv
<1>3. /\ Rising(got) /\ Rising(o) /\ Rising(f) /\ Before(got, f)
      /\ Range(o) \subseteq Range(got)
      /\ \A a \in Range(f) : a[1] = p /\ a[2] <= typed
      /\ \A a \in Range(got) : a[2] <= typed
      /\ ~cut => o = heard
  BY DEF TextInv, ArrivedInv, OutInv
<1>4. got' = got \o t /\ heard' = heard \o First(f, l) /\ Out' = o \o First(f, m)
  BY <1>2 DEF Hear
<1>5. m \in 0..k
  OBVIOUS
<1> HIDE DEF f, k, o, l
<1>6. /\ t \in Seq(TextBytes) /\ r \in Seq(TextBytes)
      /\ Range(t) \subseteq Range(f) /\ Range(r) \subseteq Range(f)
      /\ Rising(r) /\ Before(t, r)
      /\ got \o t \in Seq(TextBytes) /\ Rising(got \o t)
      /\ Range(got \o t) = Range(got) \cup Range(t)
      /\ Rising(o \o First(f, m)) /\ Range(o \o First(f, m)) \subseteq Range(got \o t)
  BY <1>1, <1>2, <1>3, <1>5, MoreText
<1> HIDE DEF t, r
<1>7. Range(got') = Range(got) \cup Range(t) /\ Rising(got') /\ got' \in Seq(TextBytes)
  BY <1>4, <1>6
<1>8. ASSUME NEW q \in TextPeers
      PROVE  /\ Rising(stream'[q]) /\ \A a \in Range(stream'[q]) : a[1] = q /\ a[2] <= typed'
             /\ Before(got', stream'[q])
  <2>1. CASE q = p
    <3>1. stream'[q] = r
      BY <2>1 DEF r, f, k
    <3>2. Before(got', r)
      BY <1>3, <1>6, <1>7 DEF Before
    <3> QED BY <1>3, <1>6, <2>1, <3>1, <3>2
  <2>2. CASE q # p
    <3>1. stream'[q] = stream[q]
      BY <2>2
    <3>2. /\ Rising(stream[q]) /\ \A a \in Range(stream[q]) : a[1] = q /\ a[2] <= typed
          /\ Before(got, stream[q])
      BY DEF TextInv, ArrivedInv
    <3>3. Before(got', stream[q])
      BY <1>3, <1>6, <1>7, <2>2, <3>2 DEF Before
    <3> QED BY <3>1, <3>2, <3>3
  <2> QED BY <2>1, <2>2
<1>9. \A a \in Range(got') : a[2] <= typed'
  BY <1>3, <1>6, <1>7
<1>10. ArrivedInv'
  BY <1>7, <1>8, <1>9 DEF ArrivedInv
<1>11. Rising(Out') /\ Range(Out') \subseteq Range(got')
  BY <1>4, <1>6
<1>12. ~cut' => Out' = heard'
  BY <1>3, <1>4 DEF l
<1>13. OutInv'
  BY <1>11, <1>12 DEF OutInv
<1>14. heard' \in Seq(TextBytes)
  <2>1. l \in 0..Len(f)
    BY <1>1, <1>2
  <2>2. First(f, l) \in Seq(TextBytes)
    BY <1>1, <2>1, PrefixOrder DEF First
  <2>3. heard \in Seq(TextBytes)
    BY DEF TextInv, TextTypeInv
  <2> QED BY <1>4, <2>2, <2>3, ConcatOrder
<1> QED BY <1>6, <1>7, <1>10, <1>13, <1>14 DEF r, f, k

\* A peer sends n bytes.
LEMMA TextArrives ==
  ASSUME TextInv, NEW p \in TextPeers, NEW n \in 1..BUF, TArrive(p, n)
  PROVE  TextInv'
<1>0. PICK kinds \in [1..n -> Kinds] :
        stream' = [stream EXCEPT ![p] = @ \o [i \in 1..n |-> <<p, typed + i, kinds[i]>>]]
  BY DEF TArrive
<1> DEFINE new == [i \in 1..n |-> <<p, typed + i, kinds[i]>>]
           f == stream[p]
<1>1. n \in Nat /\ typed \in Nat /\ f \in Seq(TextBytes) /\ p # Pipe
      /\ stream \in [TextPeers \cup {Pipe} -> Seq(TextBytes)] /\ got \in Seq(TextBytes)
  BY DEF TextInv, TextTypeInv, Pipe
<1>2. /\ new \in Seq(TextBytes) /\ Rising(new)
      /\ \A a \in Range(new) : a[1] = p /\ a[2] > typed /\ a[2] <= typed + n
  BY <1>1, NewText
<1>3. /\ stream' = [stream EXCEPT ![p] = f \o new] /\ typed' = typed + n
      /\ UNCHANGED <<app, loop, recv_buf, send_buf, got, printed, heard, cut>>
  BY <1>0 DEF TArrive
<1>4. /\ Rising(f) /\ \A a \in Range(f) : a[1] = p /\ a[2] <= typed
      /\ Before(got, f) /\ Rising(got) /\ \A a \in Range(got) : a[2] <= typed
  BY DEF TextInv, ArrivedInv
<1> HIDE DEF new, f
<1>5. f \o new \in Seq(TextBytes) /\ Range(f \o new) = Range(f) \cup Range(new)
  BY <1>1, <1>2, ConcatOrder
<1>6. Range(f) \subseteq TextBytes /\ Range(got) \subseteq TextBytes /\ Range(new) \subseteq TextBytes
  BY <1>1, <1>2, RangeSeq
<1>7. \A a \in TextBytes : a[2] \in Nat
  BY DEF TextBytes
<1>8. Before(f, new) /\ Before(got, new)
  BY <1>1, <1>2, <1>4, <1>6, <1>7 DEF Before
<1>9. Rising(f \o new)
  BY <1>1, <1>2, <1>4, <1>8, RisingConcat
<1>10. \A a \in Range(f \o new) : a[1] = p /\ a[2] <= typed'
  BY <1>1, <1>2, <1>3, <1>4, <1>5, <1>6, <1>7
<1>11. Before(got, f \o new)
  BY <1>4, <1>5, <1>8 DEF Before
<1>12. ASSUME NEW q \in TextPeers
       PROVE  /\ Rising(stream'[q]) /\ \A a \in Range(stream'[q]) : a[1] = q /\ a[2] <= typed'
              /\ Before(got', stream'[q])
  <2>1. CASE q = p
    <3>1. stream'[q] = f \o new
      BY <1>1, <1>3, <2>1
    <3> QED BY <1>3, <1>9, <1>10, <1>11, <2>1, <3>1
  <2>2. CASE q # p
    <3>1. stream'[q] = stream[q] /\ got' = got
      BY <1>1, <1>3, <2>2
    <3>2. /\ Rising(stream[q]) /\ \A a \in Range(stream[q]) : a[1] = q /\ a[2] <= typed
          /\ Before(got, stream[q])
      BY DEF TextInv, ArrivedInv
    <3>3. Range(stream[q]) \subseteq TextBytes
      BY <1>1, RangeSeq
    <3>4. \A a \in Range(stream[q]) : a[2] <= typed'
      BY <1>1, <1>3, <1>7, <3>2, <3>3
    <3> QED BY <3>1, <3>2, <3>4
  <2> QED BY <2>1, <2>2
<1>13. Rising(got') /\ \A a \in Range(got') : a[2] <= typed'
  <2>1. \A a \in Range(got) : a[2] <= typed'
    BY <1>1, <1>3, <1>4, <1>6, <1>7
  <2> QED BY <1>3, <1>4, <2>1
<1>14. ArrivedInv'
  BY <1>12, <1>13 DEF ArrivedInv
<1>15. stream'[Pipe] = stream[Pipe]
  BY <1>1, <1>3
<1>16. OutInv'
  BY <1>3, <1>15 DEF TextInv, OutInv, Out
<1>17. TextTypeInv'
  BY <1>1, <1>3, <1>5 DEF TextInv, TextTypeInv
<1> QED BY <1>14, <1>16, <1>17 DEF TextInv

\* The bytes that Listener reads are not zero: it prints all it receives.
LEMMA WholeText ==
  ASSUME TextInv
  PROVE  strlen(Received(Pipe)) = Readable(Pipe)
<1> DEFINE f == stream[Pipe]
           n == Readable(Pipe)
           q == Received(Pipe)
<1>1. f \in Seq(TextBytes) /\ \A a \in Range(f) : ~IsZero(a)
  BY DEF TextInv, TextTypeInv, OutInv
<1>2. n \in 0..Len(f) /\ q = SubSeq(f, 1, n)
  BY ReceivedText DEF TextInv, Loops, Received
<1> HIDE DEF f, n, q
<1>3. /\ q \in Seq(TextBytes) /\ Len(q) = n /\ \A i \in 1..n : q[i] = f[i]
      /\ Range(q) \subseteq Range(f)
  BY <1>1, <1>2, PrefixOrder
<1>4. \A i \in 1..Len(q) : q[i] \in Range(q)
  BY <1>3, RangeSeq
<1>5. IsLength(q, Len(q))
  BY <1>1, <1>3, <1>4 DEF IsLength
<1>6. Len(q) \in 0..Len(q)
  BY <1>3
<1> QED BY <1>3, <1>5, <1>6, StringLength DEF q, n

\* Listener reads.
LEMMA ListenerPrints ==
  ASSUME TextInv, HandleReadPrint("listener"), event["listener"].socket = Pipe
  PROVE  TextInv'
<1> DEFINE n == Readable(Pipe)
           f == stream[Pipe]
           t == First(f, n)
           r == Rest(f, n)
<1>1. "listener" \in Loops /\ Pipe \in TextPeers \cup {Pipe}
  BY DEF Loops
<1>2. n \in 0..Len(f) /\ Text(Filled(recv_buf["listener"], Pipe, n)) = t
  BY <1>1, ReceivedText, WholeText DEF TextInv
<1>3. /\ stream' = [stream EXCEPT ![Pipe] = r]
      /\ printed' = printed \o t /\ UNCHANGED <<got, heard>>
      /\ recv_buf' = [recv_buf EXCEPT !["listener"] = Zeroes]
      /\ UNCHANGED <<app, send_buf, typed, cut>>
  BY <1>2 DEF HandleReadPrint, Consumed, Rest, First, Cleared, Hear
<1>4. /\ stream \in [TextPeers \cup {Pipe} -> Seq(TextBytes)] /\ printed \in Seq(TextBytes)
      /\ Pipe \notin TextPeers /\ f \in Seq(TextBytes)
  BY DEF TextInv, TextTypeInv, Pipe
<1>5. recv_buf' = [j \in Loops |-> Zeroes]
  BY <1>3 DEF TextInv, TextTypeInv
<1>6. stream'[Pipe] = r /\ \A q \in TextPeers : stream'[q] = stream[q]
  BY <1>3, <1>4
<1>7. f = <<>> => r = <<>>
  <2>1. ASSUME f = <<>> PROVE r = <<>>
    <3>1. Len(f) = 0 /\ n = 0
      BY <1>2, <2>1
    <3> QED BY <2>1, <3>1 DEF Rest
  <2> QED BY <2>1
<1> HIDE DEF n, f
<1>8. t \in Seq(TextBytes) /\ r \in Seq(TextBytes) /\ t \o r = f /\ Range(r) \subseteq Range(f)
  BY <1>2, <1>4, PrefixOrder, SuffixOrder, SplitSeq DEF First, Rest
<1> HIDE DEF t, r
<1>9. printed' \in Seq(TextBytes)
  BY <1>3, <1>4, <1>8, ConcatOrder
<1>10. Out' = Out
  <2>1. \A x, y, z \in Seq(TextBytes) : (x \o y) \o z = x \o (y \o z)
    <3> TAKE x, y, z \in Seq(TextBytes)
    <3> QED BY ConcatAssoc, SMTT(20)
  <2>2. printed \in Seq(TextBytes) /\ t \in Seq(TextBytes) /\ r \in Seq(TextBytes)
    BY <1>4, <1>8
  <2>3. (printed \o t) \o r = printed \o (t \o r)
    BY <2>1, <2>2, Zenon
  <2>4. printed' = printed \o t /\ stream'[Pipe] = r /\ t \o r = stream[Pipe]
    BY <1>3, <1>6, <1>8 DEF f
  <2> QED BY <2>3, <2>4, Zenon DEF Out
<1>11. ArrivedInv'
  BY <1>3, <1>6 DEF TextInv, ArrivedInv
<1>12. OutInv'
  BY <1>3, <1>6, <1>7, <1>8, <1>10 DEF TextInv, OutInv, f
<1>13. TextTypeInv'
  <2>1. stream' \in [TextPeers \cup {Pipe} -> Seq(TextBytes)]
    BY <1>3, <1>4, <1>8
  <2> QED BY <1>3, <1>5, <1>9, <2>1 DEF TextInv, TextTypeInv
<1> QED BY <1>11, <1>12, <1>13 DEF TextInv

\* Echo of picoserver_uboot prints the string of what it receives.
LEMMA EchoPrints ==
  ASSUME TextInv, HandleReadPrint("echo"), event["echo"].socket \in TextPeers
  PROVE  TextInv'
<1> DEFINE s == event["echo"].socket
           n == Readable(s)
           l == strlen(Received(s))
           f == stream[s]
<1>1. "echo" \in Loops /\ s \in TextPeers \cup {Pipe} /\ s \in TextPeers
  BY DEF Loops
<1>2. /\ n \in 0..Len(f) /\ l \in 0..n
      /\ Text(Filled(recv_buf["echo"], s, n)) = First(f, l)
  BY <1>1, ReceivedText DEF TextInv
<1>3. /\ stream' = [stream EXCEPT ![s] = Rest(f, n)]
      /\ printed' = printed \o First(f, l) /\ Hear("echo", s)
      /\ recv_buf' = [recv_buf EXCEPT !["echo"] = Zeroes]
      /\ app = "picoserver_uboot"
      /\ UNCHANGED <<app, send_buf, typed, cut>>
  BY <1>2 DEF HandleReadPrint, Consumed, Rest, Cleared
<1>4. /\ stream \in [TextPeers \cup {Pipe} -> Seq(TextBytes)] /\ Pipe \notin TextPeers
      /\ printed \in Seq(TextBytes) /\ stream[Pipe] = <<>> /\ f \in Seq(TextBytes)
      /\ \A a \in Range(stream[Pipe]) : ~IsZero(a)
  BY <1>1, <1>3 DEF TextInv, TextTypeInv, OutInv, Pipe
<1>5. recv_buf' = [j \in Loops |-> Zeroes]
  BY <1>3 DEF TextInv, TextTypeInv
<1>6. /\ stream'[Pipe] = stream[Pipe]
      /\ \A q \in TextPeers : stream'[q] = IF q = s THEN Rest(f, n) ELSE stream[q]
  BY <1>1, <1>3, <1>4
<1>7. First(f, l) \in Seq(TextBytes)
  <2>1. l \in 0..Len(f)
    <3>1. Len(f) \in Nat
      BY <1>4
    <3> HIDE DEF f, n, l
    <3> QED BY <1>2, <3>1
  <2> QED BY <1>4, <2>1, PrefixOrder DEF First
<1>8. printed' \in Seq(TextBytes)
  BY <1>3, <1>4, <1>7, ConcatOrder
<1>9. Out = printed /\ Out' = printed'
  BY <1>4, <1>6, <1>8 DEF Out
<1>10. Out' = Out \o First(f, l)
  BY <1>3, <1>9
<1>11. ~cut' => ~cut /\ l = strlen(Received(s))
  BY <1>3
<1>12. /\ ArrivedInv' /\ OutInv' /\ got' \in Seq(TextBytes) /\ heard' \in Seq(TextBytes)
       /\ Rest(f, n) \in Seq(TextBytes)
  BY <1>1, <1>2, <1>3, <1>4, <1>6, <1>10, <1>11, EchoReceives
<1>13. TextTypeInv'
  <2>1. stream' \in [TextPeers \cup {Pipe} -> Seq(TextBytes)]
    BY <1>3, <1>4, <1>12
  <2> QED BY <1>3, <1>5, <1>8, <1>12, <2>1 DEF TextInv, TextTypeInv
<1> QED BY <1>12, <1>13 DEF TextInv

LEMMA TextPrinted ==
  ASSUME TextInv, NEW k \in Loops, EventInv, HandleReadPrint(k)
  PROVE  TextInv'
<1>1. event[k].socket \in Sources(k)
  BY DEF EventInv, HandleReadPrint
<1>2. CASE k = "echo"
  BY <1>1, <1>2, EchoPrints DEF Sources
<1>3. CASE k = "listener"
  BY <1>1, <1>3, ListenerPrints DEF Sources
<1> QED BY <1>2, <1>3 DEF Loops

\* Listener faults over what it has received.
LEMMA ListenerFaults ==
  ASSUME TextInv, StringFaults("listener"), event["listener"].socket = Pipe
  PROVE  TextInv'
<1> DEFINE n == Readable(Pipe)
           f == stream[Pipe]
           r == Rest(f, n)
<1>1. n \in 0..Len(f)
  BY ReceivedText DEF TextInv, Loops
<1>2. /\ stream' = [stream EXCEPT ![Pipe] = r] /\ cut'
      /\ UNCHANGED <<app, recv_buf, send_buf, typed, got, heard, printed>>
  BY DEF StringFaults, Consumed, Rest, Hear
<1>3. /\ stream \in [TextPeers \cup {Pipe} -> Seq(TextBytes)] /\ printed \in Seq(TextBytes)
      /\ Pipe \notin TextPeers /\ f \in Seq(TextBytes)
  BY DEF TextInv, TextTypeInv, Pipe
<1>4. stream'[Pipe] = r /\ \A q \in TextPeers : stream'[q] = stream[q]
  BY <1>2, <1>3
<1>5. f = <<>> => r = <<>>
  <2>1. ASSUME f = <<>> PROVE r = <<>>
    <3>1. Len(f) = 0 /\ n = 0
      BY <1>1, <2>1
    <3> QED BY <2>1, <3>1 DEF Rest
  <2> QED BY <2>1
<1> HIDE DEF n, f
<1>6. /\ r \in Seq(TextBytes) /\ Range(r) \subseteq Range(f)
      /\ \A a, b : Precedes(r, a, b) => Precedes(f, a, b)
  BY <1>1, <1>3, SuffixOrder DEF Rest
<1> HIDE DEF r
<1>7. /\ Rising(printed) /\ Rising(r) /\ Before(printed, r)
      /\ Range(printed) \subseteq Range(Out) /\ Range(r) \subseteq Range(Out)
  <2>1. /\ \A a, b : Precedes(printed, a, b) => Precedes(Out, a, b)
        /\ \A a, b : Precedes(f, a, b) => Precedes(Out, a, b)
        /\ \A a \in Range(printed), b \in Range(f) : Precedes(Out, a, b)
        /\ Range(Out) = Range(printed) \cup Range(f)
    BY <1>3, ConcatKeeps, ConcatOrder DEF Out, f
  <2>2. Rising(Out)
    BY DEF TextInv, OutInv
  <2> QED BY <1>6, <2>1, <2>2 DEF Rising, Before
<1>8. Rising(Out') /\ Range(Out') \subseteq Range(got')
  <2>1. Out' = printed \o r
    BY <1>2, <1>4 DEF Out
  <2>2. Range(printed \o r) = Range(printed) \cup Range(r)
    BY <1>3, <1>6, ConcatOrder
  <2>3. Rising(printed \o r)
    BY <1>3, <1>6, <1>7, RisingConcat
  <2> QED BY <1>2, <1>7, <2>1, <2>2, <2>3 DEF TextInv, OutInv
<1>9. ArrivedInv'
  BY <1>2, <1>4 DEF TextInv, ArrivedInv
<1>10. OutInv'
  BY <1>2, <1>4, <1>5, <1>6, <1>8 DEF TextInv, OutInv, f
<1>11. TextTypeInv'
  <2>1. stream' \in [TextPeers \cup {Pipe} -> Seq(TextBytes)]
    BY <1>2, <1>3, <1>6
  <2> QED BY <1>2, <2>1 DEF TextInv, TextTypeInv
<1> QED BY <1>9, <1>10, <1>11 DEF TextInv

\* Echo faults over what it has received.
LEMMA EchoFaults ==
  ASSUME TextInv, StringFaults("echo"), event["echo"].socket \in TextPeers
  PROVE  TextInv'
<1> DEFINE s == event["echo"].socket
           n == Readable(s)
           f == stream[s]
<1>1. "echo" \in Loops /\ s \in TextPeers \cup {Pipe} /\ s \in TextPeers
  BY DEF Loops
<1>2. n \in 0..Len(f)
  BY <1>1, ReceivedText DEF TextInv
<1>3. /\ stream' = [stream EXCEPT ![s] = Rest(f, n)] /\ Hear("echo", s) /\ cut'
      /\ UNCHANGED <<app, recv_buf, send_buf, typed, printed>>
  BY DEF StringFaults, Consumed, Rest
<1>4. /\ stream \in [TextPeers \cup {Pipe} -> Seq(TextBytes)] /\ Pipe \notin TextPeers
      /\ printed \in Seq(TextBytes) /\ f \in Seq(TextBytes) /\ stream[Pipe] \in Seq(TextBytes)
      /\ \A a \in Range(stream[Pipe]) : ~IsZero(a)
      /\ app = "picoserver_uboot" => stream[Pipe] = <<>>
  BY <1>1 DEF TextInv, TextTypeInv, OutInv, Pipe
<1>5. /\ stream'[Pipe] = stream[Pipe]
      /\ \A q \in TextPeers : stream'[q] = IF q = s THEN Rest(f, n) ELSE stream[q]
  BY <1>1, <1>3, <1>4
<1>6. Out' = Out \o First(f, 0)
  <2>1. Out \in Seq(TextBytes) /\ Out' = Out
    BY <1>3, <1>4, <1>5 DEF Out
  <2>2. First(f, 0) = <<>>
    BY <1>4 DEF First
  <2> HIDE DEF f
  <2> QED BY <2>1, <2>2
<1>7. 0 \in 0..n
  BY <1>2
<1>8. /\ ArrivedInv' /\ OutInv' /\ got' \in Seq(TextBytes) /\ heard' \in Seq(TextBytes)
      /\ Rest(f, n) \in Seq(TextBytes)
  BY <1>1, <1>3, <1>4, <1>5, <1>6, <1>7, EchoReceives
<1>9. TextTypeInv'
  <2>1. stream' \in [TextPeers \cup {Pipe} -> Seq(TextBytes)]
    BY <1>3, <1>4, <1>8
  <2> QED BY <1>3, <1>8, <2>1 DEF TextInv, TextTypeInv
<1> QED BY <1>8, <1>9 DEF TextInv

LEMMA TextFaults ==
  ASSUME TextInv, NEW k \in Loops, EventInv, StringFaults(k)
  PROVE  TextInv'
<1>1. event[k].socket \in Sources(k)
  BY DEF EventInv, StringFaults
<1>2. CASE k = "echo"
  BY <1>1, <1>2, EchoFaults DEF Sources
<1>3. CASE k = "listener"
  BY <1>1, <1>3, ListenerFaults DEF Sources
<1> QED BY <1>2, <1>3 DEF Loops

\* Echo of picoserver receives and forwards.
LEMMA TextForwarded ==
  ASSUME TextInv, NEW m \in 0..BUF, EventInv, HandleReadForward(m)
  PROVE  TextInv'
<1> DEFINE s == event["echo"].socket
           n == Readable(s)
           l == strlen(Received(s))
           f == stream[s]
           out == Copied(send_buf, Filled(recv_buf["echo"], s, n), n)
           p == stream[Pipe]
<1>1. s \in TextPeers
  BY DEF EventInv, HandleReadForward, Sources, Loops
<1>2. /\ n \in 0..Len(f) /\ l \in 0..n /\ strlen(out) = l
      /\ \A j \in 0..l : SubSeq(out, 1, j) = First(f, j)
  BY <1>1, ReceivedText DEF TextInv, Loops
<1>3. /\ m <= strlen(out)
      /\ stream' = [stream EXCEPT ![s] = Rest(f, n), ![Pipe] = @ \o SubSeq(out, 1, m)]
      /\ Hear("echo", s) /\ cut' = (cut \/ m < strlen(out))
      /\ recv_buf' = [recv_buf EXCEPT !["echo"] = Zeroes] /\ send_buf' = Zeroes
      /\ app = "picoserver" /\ UNCHANGED <<app, typed, printed>>
  BY DEF HandleReadForward, Consumed, Rest, Cleared
<1>4. /\ stream \in [TextPeers \cup {Pipe} -> Seq(TextBytes)]
      /\ printed \in Seq(TextBytes) /\ Pipe \notin TextPeers /\ f \in Seq(TextBytes)
      /\ p \in Seq(TextBytes) /\ \A a \in Range(p) : ~IsZero(a)
  BY <1>1 DEF TextInv, TextTypeInv, OutInv, Pipe
<1>5. recv_buf' = [j \in Loops |-> Zeroes]
  BY <1>3 DEF TextInv, TextTypeInv
<1>6. /\ m \in 0..n /\ m \in 0..l /\ m \in 0..Len(f) /\ SubSeq(out, 1, m) = First(f, m)
      /\ m < strlen(out) \/ m = l
  <2>1. m \in Nat /\ m <= l /\ l \in 0..n /\ n \in 0..Len(f) /\ Len(f) \in Nat
    BY <1>2, <1>3, <1>4
  <2> HIDE DEF n, l, f, out
  <2>2. m \in 0..n /\ m \in 0..l /\ m \in 0..Len(f) /\ (m < l \/ m = l)
    BY <2>1
  <2> QED BY <1>2, <2>2
<1>7. /\ First(f, m) \in Seq(TextBytes) /\ Rest(f, n) \in Seq(TextBytes)
      /\ \A a \in Range(First(f, m)) : ~IsZero(a)
  <2>1. /\ First(f, m) \in Seq(TextBytes) /\ Rest(f, n) \in Seq(TextBytes)
        /\ Len(First(f, m)) = m /\ \A i \in 1..m : First(f, m)[i] = f[i]
    BY <1>2, <1>4, <1>6, PrefixOrder, SuffixOrder DEF First, Rest
  <2>2. \A i \in 1..l : ~IsZero(f[i])
    <3>1. Received(s) = First(f, n)
      BY <1>1, ReceivedText DEF TextInv, Loops
    <3>2. /\ First(f, n) \in Seq(TextBytes) /\ \A i \in 1..n : First(f, n)[i] = f[i]
      BY <1>2, <1>4, PrefixOrder DEF First
    <3>3. IsLength(First(f, n), l)
      BY <3>1, <3>2, StringLength
    <3>4. \A i \in 1..l : i \in 1..n
      <4>1. n \in Nat
        BY <1>2, <1>4
      <4> HIDE DEF n, l
      <4> QED BY <1>2, <4>1
    <3> HIDE DEF f, n, l
    <3> QED BY <3>2, <3>3, <3>4 DEF IsLength
  <2>3. ASSUME NEW a \in Range(First(f, m)) PROVE ~IsZero(a)
    <3>1. PICK i \in 1..m : a = First(f, m)[i]
      <4>1. Range(First(f, m)) = {First(f, m)[i] : i \in 1..Len(First(f, m))}
        BY <2>1, RangeSeq
      <4> QED BY <2>1, <4>1
    <3>2. i \in 1..l
      <4>1. l \in Nat
        BY <1>2
      <4> HIDE DEF l
      <4> QED BY <1>6, <4>1
    <3> QED BY <2>1, <2>2, <3>1, <3>2
  <2> QED BY <2>1, <2>3
<1>8. /\ stream'[Pipe] = p \o First(f, m)
      /\ \A q \in TextPeers : stream'[q] = IF q = s THEN Rest(f, n) ELSE stream[q]
  BY <1>1, <1>3, <1>4, <1>6
<1>9. p \o First(f, m) \in Seq(TextBytes)
      /\ Range(p \o First(f, m)) = Range(p) \cup Range(First(f, m))
  BY <1>4, <1>7, ConcatOrder
<1>10. stream' \in [TextPeers \cup {Pipe} -> Seq(TextBytes)]
  BY <1>1, <1>3, <1>4, <1>6, <1>7, <1>9
<1>11. Out' = Out \o First(f, m)
  <2> DEFINE t == First(f, m)
  <2>1. (printed \o p) \o t = printed \o (p \o t)
    <3>1. p \in Seq(TextBytes) /\ t \in Seq(TextBytes) /\ printed \in Seq(TextBytes)
      BY <1>4, <1>7
    <3> HIDE DEF p, t
    <3>2. \A x, y, z \in Seq(TextBytes) : (x \o y) \o z = x \o (y \o z)
      <4> TAKE x, y, z \in Seq(TextBytes)
      <4> QED BY ConcatAssoc, SMTT(20)
    <3> QED BY <3>1, <3>2, Zenon
  <2>2. printed' = printed /\ stream'[Pipe] = p \o t
    BY <1>3, <1>8
  <2> HIDE DEF t
  <2>3. Out' = Out \o t
    BY <2>1, <2>2, Zenon DEF Out
  <2> QED BY <2>3 DEF t
<1>12. ~cut' => ~cut /\ m = l
  BY <1>3, <1>6
<1>13. \A a \in Range(stream'[Pipe]) : ~IsZero(a)
  BY <1>4, <1>7, <1>8, <1>9
<1>14. ArrivedInv' /\ OutInv' /\ got' \in Seq(TextBytes) /\ heard' \in Seq(TextBytes)
  BY <1>1, <1>3, <1>6, <1>8, <1>11, <1>12, <1>13, EchoReceives
<1>15. TextTypeInv'
  BY <1>3, <1>4, <1>5, <1>10, <1>14 DEF TextInv, TextTypeInv
<1> QED BY <1>14, <1>15 DEF TextInv

LEMMA TextInit == ClientsInit => TextInv
<1> SUFFICES ASSUME ClientsInit PROVE TextInv
  OBVIOUS
<1> USE DEF ClientsInit
<1>1. TextTypeInv
  BY DEF TextTypeInv
<1>2. \A s : s = <<>> => Rising(s) /\ Range(s) = {} /\ \A t : Before(s, t) /\ Before(t, s)
  BY EmptyFact DEF Rising, Before, Precedes
<1>3. ArrivedInv
  BY <1>2 DEF ArrivedInv
<1>4. Out = <<>> /\ got = <<>> /\ heard = <<>> /\ stream[Pipe] = <<>>
  BY DEF Out
<1>5. OutInv
  BY <1>2, <1>4 DEF OutInv
<1> QED BY <1>1, <1>3, <1>5 DEF TextInv

LEMMA TextStep ==
  ASSUME TextInv, EventInv, ClientsNext \/ UNCHANGED clientVars
  PROVE  TextInv'
<1>1. CASE UNCHANGED <<app, recv_buf, send_buf, stream, typed, got, printed, heard, cut>>
  BY <1>1 DEF TextInv, TextTypeInv, ArrivedInv, OutInv, Out
<1>2. CASE \E p \in TextPeers, n \in 1..BUF : TArrive(p, n)
  BY <1>2, TextArrives
<1>3. CASE \E k \in Loops : HandleReadPrint(k)
  BY <1>3, TextPrinted
<1>4. CASE \E m \in 0..BUF : HandleReadForward(m)
  BY <1>4, TextForwarded
<1>5. CASE \E k \in Loops : StringFaults(k)
  BY <1>5, TextFaults
<1>6. CASE UNCHANGED clientVars
  BY <1>1, <1>6 DEF clientVars
<1>7. CASE \/ \E s \in TextPeers \cup {Pipe} : TConnect(s)
           \/ \E p \in TextPeers, e \in {"CLOSE", "ERR", "FIN"} : TEnd(p, e)
           \/ \E k \in Loops : \/ Woken(k) \/ PollNext(k) \/ HandleConn(k)
                               \/ HandleEnd(k)
           \/ CopyFaults
  BY <1>1, <1>7 DEF TConnect, TEnd, Woken, PollNext, HandleConn, HandleEnd, CopyFaults
<1> QED BY <1>2, <1>3, <1>4, <1>5, <1>6, <1>7 DEF ClientsNext, ClientStep

LEMMA TextPrintedFaithfully == TextInv => PrintedFaithfully
<1> SUFFICES ASSUME TextInv PROVE PrintedFaithfully
  OBVIOUS
<1> DEFINE p == stream[Pipe]
<1>1. printed \in Seq(TextBytes) /\ p \in Seq(TextBytes) /\ got \in Seq(TextBytes)
  BY DEF TextInv, TextTypeInv
<1>2. Rising(Out) /\ Range(Out) \subseteq Range(got) /\ (~cut => Out = heard) /\ Out = printed \o p
  BY DEF TextInv, OutInv, Out
<1> HIDE DEF p
<1>3. /\ Out \in Seq(TextBytes) /\ Len(Out) = Len(printed) + Len(p)
      /\ \A i \in 1..Len(printed) : Out[i] = printed[i]
  BY <1>1, <1>2, ConcatOrder, ConcatProperties
<1>4. Len(printed) \in Nat /\ Len(p) \in Nat
  BY <1>1
<1>5. \A i \in 1..Len(printed) : i \in 1..Len(Out)
  BY <1>3, <1>4
<1>6. \A s \in Seq(TextBytes) : Range(s) = {s[i] : i \in 1..Len(s)} /\ Range(s) \subseteq TextBytes
  BY RangeSeq
<1>7. \A i \in 1..Len(printed) : printed[i] \in Range(got) /\ printed[i] \in TextBytes
  <2>1. \A i \in 1..Len(Out) : Out[i] \in Range(Out)
    BY <1>3, <1>6
  <2>2. Range(Out) \subseteq TextBytes
    BY <1>3, <1>6
  <2> QED BY <1>2, <1>3, <1>5, <2>1, <2>2
<1>8. Inside(printed, got)
  BY <1>1, <1>6, <1>7 DEF Inside
<1>9. ASSUME NEW i \in 1..Len(printed), NEW j \in 1..Len(printed), i < j,
             printed[i][1] = printed[j][1]
      PROVE  printed[i][2] < printed[j][2]
  <2>1. Precedes(Out, printed[i], printed[j])
    BY <1>3, <1>5, <1>9 DEF Precedes
  <2> QED BY <1>2, <1>9, <2>1 DEF Rising
<1>10. ASSUME NEW i \in 1..Len(printed), NEW j \in 1..Len(printed), printed[i] = printed[j]
       PROVE  i = j
  <2>1. printed[i][2] \in Nat
    BY <1>7 DEF TextBytes
  <2> QED BY <1>4, <1>9, <1>10, <2>1
<1> QED BY <1>2, <1>8, <1>9, <1>10 DEF PrintedFaithfully, NoRepeat, p

\* What Listener prints is what Echo received, in order, each byte once, and the
\* text of every message as far as its first zero unless a send was refused or cut
\* short or a client faulted (HandleReadPrint, HandleReadForward, StringFaults), for
\* buffers of every size and any number of peers.
THEOREM TextIsPrintedFaithfully == Spec => []PrintedFaithfully
<1>1. Init => ClientEvents /\ TextInv
  BY ClientEventsInit, TextInit DEF Init
<1>2. ClientEvents /\ TextInv /\ [Next]_vars => ClientEvents' /\ TextInv'
  <2>1. [Next]_vars => ClientsNext \/ UNCHANGED clientVars
    BY DEF Next, vars
  <2>2. ClientEvents => EventInv
    BY DEF ClientEvents
  <2> QED BY <2>1, <2>2, ClientEventsStep, TextStep
<1> QED BY <1>1, <1>2, TextPrintedFaithfully, PTL DEF Spec
-----------------------------------------------------------------------------
(* The utilization server                                                    *)

Replies == {"OK_READY", "OK", "RESPONSE"}
Words == Replies \cup {"WHOAMI"}

UtilTypeInv ==
  /\ DOMAIN uLink = UtilClients
  /\ utilz_mesg \in Seq(STRING)
  /\ uInbox \in [UtilClients -> Seq(STRING)] /\ uSent \in [UtilClients -> Seq(Commands)]
  /\ uGot \in [UtilClients -> Seq(Words)]

\* An answer that a client may get beside those it has is for a command it sent.
Owed(c, cmd) ==
  \A a \in Replies :
    Times(uGot[c], {a}) + (IF Answer(cmd) = <<a>> THEN 1 ELSE 0)
      <= Times(uSent[c], AnsweredBy(a))

\* The answers a client has are for commands it sent, and so is that to the one
\* that its bytes not received begin with.
AnswersDue(c) ==
  /\ AnswersOwed(c)
  /\ uInbox[c] # <<>> =>
       \E cmd \in Commands : Begins(uInbox[c], Spelling[cmd]) /\ Owed(c, cmd)

\* After the answer to STOP there is no other.
StopIsLast(c) ==
  Times(uGot[c], {"RESPONSE"}) > 0 =>
    /\ uLink[c] \notin {"none", "backlog", "open"}
    /\ uGot[c][Len(uGot[c])] = "RESPONSE"

UtilInv ==
  /\ UtilTypeInv
  /\ \A c \in UtilClients : c \notin uStale => AnswersDue(c) /\ StopIsLast(c)

LEMMA TimesNone == \A A : Times(<<>>, A) = 0
<1>1. \A A : {i \in 1..Len(<<>>) : <<>>[i] \in A} = {}
  OBVIOUS
<1> QED BY <1>1, FS_EmptySet DEF Times

LEMMA TimesAppend ==
  ASSUME NEW S, NEW s \in Seq(S), NEW e \in S, NEW A
  PROVE  /\ Times(s, A) \in Nat /\ Times(<<>>, A) = 0
         /\ Times(Append(s, e), A) = Times(s, A) + (IF e \in A THEN 1 ELSE 0)
         /\ e \in A /\ Len(s) > 0 /\ s[1] = e => Times(s, A) > 0
<1> DEFINE t == Append(s, e)
           n == Len(s)
           I == {i \in 1..n : s[i] \in A}
           J == {i \in 1..Len(t) : t[i] \in A}
<1>1. n \in Nat /\ Len(t) = n + 1 /\ t[n + 1] = e /\ \A i \in 1..n : t[i] = s[i]
  BY AppendProperties
<1>2. IsFiniteSet(1..n) /\ I \subseteq 1..n
  BY <1>1, FS_Interval
<1>3. IsFiniteSet(I)
  BY <1>2, FS_Subset
<1>4. Cardinality(I) \in Nat
  BY <1>3, FS_CardinalityType
<1>5. J = IF e \in A THEN I \cup {n + 1} ELSE I
  BY <1>1
<1>6. n + 1 \notin I
  BY <1>1
<1> HIDE DEF I, J
<1>7. Cardinality(J) = Cardinality(I) + (IF e \in A THEN 1 ELSE 0)
  <2>1. Cardinality(I \cup {n + 1}) = Cardinality(I) + 1
    BY <1>3, <1>6, FS_AddElement
  <2> QED BY <1>4, <1>5, <2>1
<1>8. Times(<<>>, A) = 0
  <2>1. {i \in 1..Len(<<>>) : <<>>[i] \in A} = {}
    OBVIOUS
  <2> QED BY <2>1, FS_EmptySet DEF Times
<1>9. e \in A /\ n > 0 /\ s[1] = e => Cardinality(I) > 0
  <2> SUFFICES ASSUME e \in A, n > 0, s[1] = e PROVE Cardinality(I) > 0
    OBVIOUS
  <2>1. 1 \in I
    BY <1>1 DEF I
  <2>2. Cardinality(I) # 0
    BY <1>3, <2>1, FS_EmptySet
  <2> QED BY <1>4, <2>2
<1>10. Times(s, A) = Cardinality(I) /\ Times(t, A) = Cardinality(J)
  BY DEF Times, I, J
<1> QED BY <1>4, <1>7, <1>8, <1>9, <1>10

\* What a command adds to the answers.
LEMMA AnswerAdded ==
  ASSUME NEW s \in Seq(Words), NEW cmd
  PROVE  /\ s \o Answer(cmd) \in Seq(Words)
         /\ \A a \in Words : /\ Times(s, {a}) \in Nat
                             /\ Times(s \o Answer(cmd), {a})
                                  = Times(s, {a}) + (IF Answer(cmd) = <<a>> THEN 1 ELSE 0)
         /\ cmd = "STOP" => (s \o Answer(cmd))[Len(s \o Answer(cmd))] = "RESPONSE"
         /\ cmd # "STOP" => Answer(cmd) # <<"RESPONSE">>
<1>1. Answer(cmd) = <<>> \/ \E w \in Words : Answer(cmd) = <<w>>
  BY DEF Answer, Words, Replies
<1>2. cmd = "STOP" <=> Answer(cmd) = <<"RESPONSE">>
  BY DEF Answer
<1>3. CASE Answer(cmd) = <<>>
  <2>1. s \o Answer(cmd) = s
    BY <1>3, ConcatEmptySeq
  <2>2. \A a \in Words : Times(s, {a}) \in Nat
    BY TimesAppend
  <2> QED BY <1>2, <1>3, <2>1, <2>2
<1>4. ASSUME NEW w \in Words, Answer(cmd) = <<w>>
      PROVE  /\ s \o Answer(cmd) \in Seq(Words)
             /\ \A a \in Words : /\ Times(s, {a}) \in Nat
                                 /\ Times(s \o Answer(cmd), {a})
                                      = Times(s, {a}) + (IF Answer(cmd) = <<a>> THEN 1 ELSE 0)
             /\ cmd = "STOP" => (s \o Answer(cmd))[Len(s \o Answer(cmd))] = "RESPONSE"
  <2> DEFINE t == s \o Answer(cmd)
             u == Append(s, w)
  <2>1. t = u
    BY <1>4, AppendIsConcat
  <2>2. u \in Seq(Words) /\ Len(u) = Len(s) + 1 /\ u[Len(s) + 1] = w
    BY AppendProperties
  <2>3. \A a \in Words : /\ Times(s, {a}) \in Nat
                         /\ Times(u, {a}) = Times(s, {a}) + (IF w \in {a} THEN 1 ELSE 0)
    BY TimesAppend
  <2> HIDE DEF t, u
  <2>4. ASSUME NEW a \in Words
        PROVE  /\ Times(s, {a}) \in Nat
               /\ Times(t, {a}) = Times(s, {a}) + (IF Answer(cmd) = <<a>> THEN 1 ELSE 0)
    BY <1>4, <2>1, <2>3
  <2>5. cmd = "STOP" => w = "RESPONSE"
    BY <1>2, <1>4
  <2>6. t \in Seq(Words) /\ (cmd = "STOP" => t[Len(t)] = "RESPONSE")
    BY <2>1, <2>2, <2>5
  <2> QED BY <2>4, <2>6 DEF t
<1> QED BY <1>1, <1>2, <1>3, <1>4

\* A buffer that a received command was written over matches that command only.
LEMMA OnlyMatch ==
  ASSUME NEW buf \in Seq(STRING), NEW q \in Seq(STRING), NEW cmd \in Commands,
         Begins(q, Spelling[cmd])
  PROVE  Over(buf, q) \in Seq(STRING) /\ Matching(Over(buf, q)) = {cmd}
<1> DEFINE n == Len(q)
           r == SubSeq(buf, n + 1, Len(buf))
           t == q \o r
           w == Spelling[cmd]
<1>1. n \in Nat /\ Len(buf) \in Nat
  OBVIOUS
<1>2. r \in Seq(STRING)
  <2>1. \A i \in (n + 1)..Len(buf) : i \in 1..Len(buf)
    BY <1>1
  <2> QED BY <1>1, <2>1, SubSeqProperties
<1>3. t = Over(buf, q)
  BY DEF Over
<1> HIDE DEF r
<1>4. t \in Seq(STRING) /\ Len(t) = n + Len(r) /\ Len(r) \in Nat /\ \A i \in 1..n : t[i] = q[i]
  BY <1>2, ConcatOrder, ConcatProperties
<1> HIDE DEF t
<1>5. w \in Seq(STRING) /\ Len(w) \in Nat /\ Len(w) <= n /\ \A i \in 1..Len(w) : q[i] = w[i]
  BY SpellingAssumption DEF Begins
<1>6. Len(w) <= Len(t) /\ \A i \in 1..Len(w) : t[i] = w[i]
  <2>1. \A i \in 1..Len(w) : i \in 1..n
    BY <1>1, <1>5
  <2> QED BY <1>1, <1>4, <1>5, <2>1
<1>7. cmd \in Matching(t)
  BY <1>6 DEF Matching, Begins, w
<1>8. ASSUME NEW m \in Matching(t) PROVE m = cmd
  <2> DEFINE v == Spelling[m]
  <2>1. m \in Commands /\ v \in Seq(STRING) /\ Len(v) \in Nat /\ Len(v) <= Len(t)
        /\ \A i \in 1..Len(v) : t[i] = v[i]
    BY <1>8, SpellingAssumption DEF Matching, Begins
  <2> HIDE DEF v
  <2>2. CASE Len(v) <= Len(w)
    <3>1. \A i \in 1..Len(v) : i \in 1..Len(w)
      BY <1>5, <2>1, <2>2
    <3>2. Begins(w, v)
      BY <1>6, <2>1, <2>2, <3>1 DEF Begins
    <3> QED BY <2>1, <3>2, SpellingAssumption DEF v, w
  <2>3. CASE Len(w) <= Len(v)
    <3>1. \A i \in 1..Len(w) : i \in 1..Len(v)
      BY <1>5, <2>1, <2>3
    <3>2. Begins(v, w)
      BY <1>6, <2>1, <2>3, <3>1 DEF Begins
    <3> QED BY <2>1, <3>2, SpellingAssumption DEF v, w
  <2> QED BY <1>5, <2>1, <2>2, <2>3
<1>9. Matching(t) = {cmd}
  BY <1>7, <1>8
<1> QED BY <1>3, <1>4, <1>9

\* What a read does to the answers and to the other clients.
LEMMA ActTypes ==
  ASSUME UtilTypeInv, NEW c \in UtilClients, NEW n \in 0..Len(uInbox[c]), UtilRead(c, n)
  PROVE  /\ UtilTypeInv'
         /\ \A d \in UtilClients : d # c =>
              uGot'[d] = uGot[d] /\ uLink'[d] = uLink[d] /\ uInbox'[d] = uInbox[d]
         /\ Matching(utilz_mesg') # {} =>
              LET cmd == CHOOSE m \in Matching(utilz_mesg') : TRUE
              IN  /\ uGot'[c] = uGot[c] \o Answer(cmd)
                  /\ uLink'[c] = IF cmd = "STOP" THEN "shutdown" ELSE uLink[c]
<1> DEFINE q == uInbox[c]
           M == Matching(utilz_mesg')
           cmd == CHOOSE m \in M : TRUE
           g == uGot[c] \o Answer(cmd)
           rest == SubSeq(q, n + 1, Len(q))
<1>1. /\ DOMAIN uLink = UtilClients /\ q \in Seq(STRING)
      /\ uInbox \in [UtilClients -> Seq(STRING)] /\ uSent \in [UtilClients -> Seq(Commands)]
      /\ uGot \in [UtilClients -> Seq(Words)] /\ uGot[c] \in Seq(Words)
      /\ utilz_mesg \in Seq(STRING)
  BY DEF UtilTypeInv
<1>2. /\ utilz_mesg' = SubSeq(q, 1, n) \o SubSeq(utilz_mesg, Len(SubSeq(q, 1, n)) + 1, Len(utilz_mesg))
      /\ uInbox' = [uInbox EXCEPT ![c] = rest] /\ uSent' = uSent
      /\ IF M = {} THEN UNCHANGED <<uGot, uLink>>
         ELSE /\ uGot' = [uGot EXCEPT ![c] = g]
              /\ uLink' = [uLink EXCEPT ![c] = IF cmd = "STOP" THEN "shutdown" ELSE uLink[c]]
  BY <1>1 DEF UtilRead, Act, Over, Bytes
<1>3. SubSeq(q, 1, n) \in Seq(STRING) /\ rest \in Seq(STRING)
  <2>1. n \in 0..Len(q)
    OBVIOUS
  <2> HIDE DEF q
  <2> QED BY <1>1, <2>1, PrefixOrder, SuffixOrder
<1>4. utilz_mesg' \in Seq(STRING)
  <2> DEFINE b == SubSeq(q, 1, n)
             k == Len(b)
             r == SubSeq(utilz_mesg, k + 1, Len(utilz_mesg))
  <2>1. b \in Seq(STRING) /\ k \in Nat
    BY <1>3
  <2> HIDE DEF b, k
  <2>2. r \in Seq(STRING)
    <3>1. Len(utilz_mesg) \in Nat /\ \A i \in (k + 1)..Len(utilz_mesg) : i \in 1..Len(utilz_mesg)
      BY <1>1, <2>1
    <3> QED BY <1>1, <2>1, <3>1, SubSeqProperties
  <2>3. utilz_mesg' = b \o r
    BY <1>2 DEF b, k
  <2> HIDE DEF r
  <2> QED BY <2>1, <2>2, <2>3, ConcatOrder
<1>5. g \in Seq(Words)
  BY <1>1, AnswerAdded
<1> HIDE DEF g, M, cmd, rest, q
<1>6. UtilTypeInv'
  BY <1>1, <1>2, <1>3, <1>4, <1>5 DEF UtilTypeInv
<1>7. \A d \in UtilClients : d # c =>
        uGot'[d] = uGot[d] /\ uLink'[d] = uLink[d] /\ uInbox'[d] = uInbox[d]
  BY <1>1, <1>2
<1>8. M # {} => uGot'[c] = g /\ uLink'[c] = IF cmd = "STOP" THEN "shutdown" ELSE uLink[c]
  BY <1>1, <1>2
<1> QED BY <1>6, <1>7, <1>8 DEF g, M, cmd

\* The answer to the command that c's bytes begin with, all of them being received.
LEMMA UtilReadInv ==
  ASSUME UtilInv, NEW c \in UtilClients, NEW n \in 0..Len(uInbox[c]), UtilRead(c, n)
  PROVE  UtilInv'
<1>1. /\ UtilTypeInv /\ UtilTypeInv' /\ uSent' = uSent /\ uLink[c] = "open"
      /\ \A d \in UtilClients : d # c =>
           uGot'[d] = uGot[d] /\ uLink'[d] = uLink[d] /\ uInbox'[d] = uInbox[d]
  BY ActTypes DEF UtilInv, UtilRead
<1>2. uStale' = IF n = 0 \/ n < Len(uInbox[c]) THEN uStale \cup {c} ELSE uStale
  BY DEF UtilRead
<1>3. ASSUME NEW d \in UtilClients, d \notin uStale', d # c PROVE AnswersDue(d)' /\ StopIsLast(d)'
  <2>1. AnswersDue(d) /\ StopIsLast(d)
    BY <1>2, <1>3 DEF UtilInv
  <2>2. uGot'[d] = uGot[d] /\ uLink'[d] = uLink[d] /\ uInbox'[d] = uInbox[d]
    BY <1>1, <1>3
  <2> QED BY <1>1, <2>1, <2>2 DEF AnswersDue, StopIsLast, AnswersOwed, Owed
<1>4. ASSUME c \notin uStale' PROVE AnswersDue(c)' /\ StopIsLast(c)'
  <2> DEFINE q == uInbox[c]
             s == uGot[c]
  <2>1. q \in Seq(STRING) /\ s \in Seq(Words) /\ utilz_mesg \in Seq(STRING) /\ Len(q) \in Nat
    BY <1>1 DEF UtilTypeInv
  <2>2. n = Len(q) /\ n # 0 /\ q # <<>> /\ c \notin uStale
    <3>1. n # 0 /\ ~(n < Len(q)) /\ c \notin uStale
      BY <1>2, <1>4
    <3> QED BY <2>1, <3>1
  <2>3. AnswersDue(c) /\ StopIsLast(c)
    BY <2>2 DEF UtilInv
  <2>4. PICK cmd \in Commands : Begins(q, Spelling[cmd]) /\ Owed(c, cmd)
    BY <2>2, <2>3 DEF AnswersDue
  <2>5. uInbox'[c] = <<>> /\ utilz_mesg' = Over(utilz_mesg, q)
    <3>1. SubSeq(q, 1, Len(q)) = q /\ SubSeq(q, Len(q) + 1, Len(q)) = <<>>
      BY <2>1
    <3>2. uInbox'[c] = SubSeq(q, n + 1, Len(q)) /\ utilz_mesg' = Over(utilz_mesg, SubSeq(q, 1, n))
      BY <1>1 DEF UtilRead, Bytes, UtilTypeInv
    <3> QED BY <2>2, <3>1, <3>2
  <2>6. Matching(utilz_mesg') = {cmd}
    BY <2>1, <2>4, <2>5, OnlyMatch
  <2>7. (CHOOSE m \in Matching(utilz_mesg') : TRUE) = cmd
    BY <2>6
  <2> DEFINE g == s \o Answer(cmd)
  <2>8. uGot'[c] = g /\ uLink'[c] = IF cmd = "STOP" THEN "shutdown" ELSE "open"
    <3>1. Matching(utilz_mesg') # {}
      BY <2>6
    <3>2. /\ uGot'[c] = uGot[c] \o Answer(CHOOSE m \in Matching(utilz_mesg') : TRUE)
          /\ uLink'[c] = IF (CHOOSE m \in Matching(utilz_mesg') : TRUE) = "STOP"
                         THEN "shutdown" ELSE uLink[c]
      BY <1>1, <3>1, ActTypes
    <3> QED BY <1>1, <2>7, <3>2
  <2>9. /\ g \in Seq(Words)
        /\ \A a \in Words : /\ Times(s, {a}) \in Nat
                            /\ Times(g, {a}) = Times(s, {a}) + (IF Answer(cmd) = <<a>> THEN 1 ELSE 0)
        /\ cmd = "STOP" => g[Len(g)] = "RESPONSE"
        /\ cmd # "STOP" => Answer(cmd) # <<"RESPONSE">>
    BY <2>1, AnswerAdded
  <2> HIDE DEF g, s, q
  <2>10. \A a \in Replies : a \in Words
    BY DEF Words
  <2>11. ASSUME NEW a \in Replies PROVE Times(uGot'[c], {a}) <= Times(uSent'[c], AnsweredBy(a))
    <3>1. Times(s, {a}) + (IF Answer(cmd) = <<a>> THEN 1 ELSE 0) <= Times(uSent[c], AnsweredBy(a))
      BY <2>4 DEF Owed, s
    <3> QED BY <1>1, <2>8, <2>9, <2>10, <3>1
  <2>12. AnswersDue(c)'
    BY <2>5, <2>11 DEF AnswersDue, AnswersOwed, Replies
  <2>13. Times(s, {"RESPONSE"}) = 0
    BY <1>1, <2>3, <2>9 DEF StopIsLast, Words, Replies, s
  <2>14. cmd # "STOP" => Times(g, {"RESPONSE"}) = 0
    BY <2>9, <2>13 DEF Words, Replies
  <2>15. StopIsLast(c)'
    BY <2>8, <2>9, <2>14 DEF StopIsLast
  <2> QED BY <2>12, <2>15
<1> QED BY <1>1, <1>3, <1>4 DEF UtilInv

\* A command is sent behind those not received.
LEMMA UtilCommandInv ==
  ASSUME UtilInv, NEW c \in UtilClients, NEW cmd \in Commands, UtilCommand(c, cmd)
  PROVE  UtilInv'
<1> DEFINE p == uInbox[c]
           w == Spelling[cmd]
           q == p \o w
           r == Append(uSent[c], cmd)
<1>1. /\ DOMAIN uLink = UtilClients /\ p \in Seq(STRING) /\ uSent[c] \in Seq(Commands)
      /\ uInbox \in [UtilClients -> Seq(STRING)] /\ uSent \in [UtilClients -> Seq(Commands)]
      /\ uGot \in [UtilClients -> Seq(Words)] /\ uGot[c] \in Seq(Words)
      /\ w \in Seq(STRING) /\ utilz_mesg \in Seq(STRING)
  BY SpellingAssumption DEF UtilInv, UtilTypeInv
<1>2. /\ uInbox' = [uInbox EXCEPT ![c] = q] /\ uSent' = [uSent EXCEPT ![c] = r]
      /\ UNCHANGED <<uLink, uGot, uStale, utilz_mesg>>
  BY DEF UtilCommand
<1>3. q \in Seq(STRING) /\ r \in Seq(Commands)
  <2>1. q \in Seq(STRING)
    <3> HIDE DEF p, w
    <3> QED BY <1>1, ConcatOrder
  <2> QED BY <1>1, <2>1
<1>4. \A A : /\ Times(uSent[c], A) \in Nat
             /\ Times(r, A) = Times(uSent[c], A) + (IF cmd \in A THEN 1 ELSE 0)
  BY <1>1, TimesAppend
<1>5. \A a \in Words : Times(uGot[c], {a}) \in Nat
  BY <1>1, AnswerAdded
<1>6. p # <<>> => \A m \in Commands : Begins(p, Spelling[m]) => Begins(q, Spelling[m])
  <2> SUFFICES ASSUME NEW m \in Commands, Begins(p, Spelling[m]) PROVE Begins(q, Spelling[m])
    OBVIOUS
  <2> DEFINE v == Spelling[m]
  <2>1. v \in Seq(STRING) /\ Len(v) \in Nat
    BY SpellingAssumption
  <2>2. Len(v) <= Len(p) /\ \A i \in 1..Len(v) : p[i] = v[i]
    BY DEF Begins
  <2> HIDE DEF p, w, v
  <2>3. Len(q) = Len(p) + Len(w) /\ Len(p) \in Nat /\ Len(w) \in Nat /\ \A i \in 1..Len(p) : q[i] = p[i]
    BY <1>1, ConcatProperties
  <2> HIDE DEF q
  <2>4. \A i \in 1..Len(v) : i \in 1..Len(p)
    BY <2>1, <2>2, <2>3
  <2>5. Begins(q, v)
    BY <2>1, <2>2, <2>3, <2>4 DEF Begins
  <2> QED BY <2>5 DEF v
<1>7. p = <<>> => Begins(q, Spelling[cmd])
  <2> SUFFICES ASSUME p = <<>> PROVE Begins(q, w)
    OBVIOUS
  <2> HIDE DEF w
  <2>1. q = w
    BY <1>1
  <2> QED BY <1>1, <2>1 DEF Begins
<1> HIDE DEF p, w, q, r
<1>8. UtilTypeInv'
  BY <1>1, <1>2, <1>3 DEF UtilTypeInv
<1>9. ASSUME NEW d \in UtilClients, d \notin uStale' PROVE AnswersDue(d)' /\ StopIsLast(d)'
  <2>1. AnswersDue(d) /\ StopIsLast(d)
    BY <1>2, <1>9 DEF UtilInv
  <2>2. StopIsLast(d)'
    BY <1>2, <2>1 DEF StopIsLast
  <2>3. CASE d # c
    <3>1. uInbox'[d] = uInbox[d] /\ uSent'[d] = uSent[d]
      BY <1>1, <1>2, <2>3
    <3> QED BY <1>2, <2>1, <2>2, <3>1 DEF AnswersDue, AnswersOwed, Owed
  <2>4. CASE d = c
    <3>1. uInbox'[c] = q /\ uSent'[c] = r /\ uGot'[c] = uGot[c]
      BY <1>1, <1>2
    <3>2. \A a \in Replies : a \in Words /\ Times(uGot[c], {a}) <= Times(uSent[c], AnsweredBy(a))
      BY <2>1, <2>4 DEF AnswersDue, AnswersOwed, Replies, Words
    <3>3. AnswersOwed(c)'
      <4>1. ASSUME NEW a \in Replies PROVE Times(uGot[c], {a}) <= Times(r, AnsweredBy(a))
        <5> DEFINE x == Times(uGot[c], {a})
                   y == Times(uSent[c], AnsweredBy(a))
                   z == Times(r, AnsweredBy(a))
        <5>1. x \in Nat /\ y \in Nat /\ x <= y /\ (z = y \/ z = y + 1)
          BY <1>4, <1>5, <3>2
        <5> HIDE DEF x, y, z
        <5> QED BY <5>1 DEF x, z
      <4> QED BY <3>1, <4>1 DEF AnswersOwed, Replies
    <3>4. \A m \in Commands : Owed(c, m) => Owed(c, m)'
      <4> SUFFICES ASSUME NEW m \in Commands, Owed(c, m), NEW a \in Replies
          PROVE  Times(uGot[c], {a}) + (IF Answer(m) = <<a>> THEN 1 ELSE 0) <= Times(r, AnsweredBy(a))
        BY <3>1 DEF Owed
      <4>1. Times(uGot[c], {a}) + (IF Answer(m) = <<a>> THEN 1 ELSE 0)
              <= Times(uSent[c], AnsweredBy(a))
        BY DEF Owed
      <4> QED BY <1>4, <1>5, <3>2, <4>1
    <3>5. Owed(c, cmd)'
      <4> SUFFICES ASSUME NEW a \in Replies
          PROVE  Times(uGot[c], {a}) + (IF Answer(cmd) = <<a>> THEN 1 ELSE 0) <= Times(r, AnsweredBy(a))
        BY <3>1 DEF Owed
      <4>1. Answer(cmd) = <<a>> => cmd \in AnsweredBy(a)
        BY DEF AnsweredBy
      <4> QED BY <1>4, <1>5, <3>2, <4>1
    <3>6. \E m \in Commands : Begins(q, Spelling[m]) /\ Owed(c, m)'
      <4>1. CASE p = <<>>
        BY <1>7, <3>5, <4>1
      <4>2. CASE p # <<>>
        <5>1. PICK m \in Commands : Begins(p, Spelling[m]) /\ Owed(c, m)
          BY <2>1, <2>4, <4>2 DEF AnswersDue, p
        <5> QED BY <1>6, <3>4, <4>2, <5>1
      <4> QED BY <4>1, <4>2
    <3>7. AnswersDue(c)'
      BY <3>1, <3>3, <3>6 DEF AnswersDue
    <3> QED BY <2>2, <2>4, <3>7
  <2> QED BY <2>3, <2>4
<1> QED BY <1>8, <1>9 DEF UtilInv

\* A connection changes, and at most the greeting is added.
LEMMA UtilLinkInv ==
  ASSUME UtilInv, NEW c \in UtilClients,
         UtilConnect(c) \/ UtilConn(c) \/ UtilClose(c) \/ UtilFin(c)
  PROVE  UtilInv'
<1> DEFINE g == Append(uGot[c], "WHOAMI")
<1>1. /\ DOMAIN uLink = UtilClients /\ uGot \in [UtilClients -> Seq(Words)] /\ uGot[c] \in Seq(Words)
      /\ "WHOAMI" \in Words
  BY DEF UtilInv, UtilTypeInv, Words
<1>2. /\ UNCHANGED <<uInbox, uSent, uStale, utilz_mesg>>
      /\ \E l \in {"backlog", "open", "closed", "shutdown"} :
           /\ uLink' = [uLink EXCEPT ![c] = l]
           /\ uLink[c] \in {"open", "shutdown"} => l \in {"closed", "shutdown"}
           /\ uLink[c] \in {"none", "backlog", "open", "shutdown"}
      /\ \/ uGot' = uGot
         \/ uGot' = [uGot EXCEPT ![c] = g] /\ uLink[c] = "backlog"
  BY DEF UtilConnect, UtilConn, UtilClose, UtilFin
<1>3. g \in Seq(Words) /\ \A a \in Replies : Times(g, {a}) = Times(uGot[c], {a})
  <2>1. g \in Seq(Words)
    BY <1>1
  <2>2. \A A : Times(uGot[c], A) \in Nat
               /\ Times(g, A) = Times(uGot[c], A) + (IF "WHOAMI" \in A THEN 1 ELSE 0)
    BY <1>1, TimesAppend
  <2>3. \A a \in Replies : "WHOAMI" \notin {a}
    BY DEF Replies
  <2> QED BY <2>1, <2>2, <2>3
<1> HIDE DEF g
<1>4. UtilTypeInv'
  BY <1>1, <1>2, <1>3 DEF UtilInv, UtilTypeInv
<1>5. ASSUME NEW d \in UtilClients, d \notin uStale' PROVE AnswersDue(d)' /\ StopIsLast(d)'
  <2>1. AnswersDue(d) /\ StopIsLast(d)
    BY <1>2, <1>5 DEF UtilInv
  <2>2. CASE d # c
    <3>1. uLink'[d] = uLink[d] /\ uGot'[d] = uGot[d]
      BY <1>1, <1>2, <2>2
    <3> QED BY <1>2, <2>1, <3>1 DEF AnswersDue, AnswersOwed, Owed, StopIsLast
  <2>3. CASE d = c /\ uGot' = uGot
    BY <1>1, <1>2, <2>1, <2>3 DEF AnswersDue, AnswersOwed, Owed, StopIsLast
  <2>4. CASE d = c /\ uGot' = [uGot EXCEPT ![c] = g] /\ uLink[c] = "backlog"
    <3>1. uGot'[d] = g /\ \A a \in Replies : Times(uGot'[d], {a}) = Times(uGot[d], {a})
      BY <1>1, <1>3, <2>4
    <3>2. AnswersDue(d)'
      BY <1>2, <2>1, <3>1 DEF AnswersDue, AnswersOwed, Owed, Replies
    <3>3. ~(Times(uGot[d], {"RESPONSE"}) > 0)
      BY <2>1, <2>4 DEF StopIsLast
    <3>4. StopIsLast(d)'
      BY <3>1, <3>3 DEF StopIsLast, Replies
    <3> QED BY <3>2, <3>4
  <2> QED BY <1>2, <2>2, <2>3, <2>4
<1> QED BY <1>4, <1>5 DEF UtilInv

LEMMA UtilStep ==
  ASSUME UtilInv, UtilNext \/ UNCHANGED utilVars
  PROVE  UtilInv'
<1>1. CASE UNCHANGED utilVars
  BY <1>1 DEF UtilInv, UtilTypeInv, AnswersDue, AnswersOwed, Owed, StopIsLast, utilVars
<1> QED BY <1>1, UtilReadInv, UtilCommandInv, UtilLinkInv DEF UtilNext

\* A client of the utilization server of which every receive takes all it has sent
\* gets no answer that is not due to a command of its own, nor any after the one to
\* STOP (utilization_socket.c:82-118), whatever the buffer it shares with others
\* held, for any number of clients and any commands.
THEOREM AnswersAreTheirOwn == Spec => []AnswersAreOwn
<1>1. Init => UtilInv
  <2> SUFFICES ASSUME UtilInit PROVE UtilInv
    BY DEF Init
  <2>1. UtilTypeInv
    <3>1. <<>> \in Seq(Commands) /\ <<>> \in Seq(Words) /\ <<>> \in Seq(STRING)
      OBVIOUS
    <3> QED BY <3>1 DEF UtilInit, UtilTypeInv
  <2>2. ASSUME NEW c \in UtilClients PROVE AnswersDue(c) /\ StopIsLast(c)
    <3>1. uGot[c] = <<>> /\ uInbox[c] = <<>> /\ uSent[c] = <<>>
      BY DEF UtilInit
    <3> QED BY <3>1, TimesNone DEF AnswersDue, AnswersOwed, StopIsLast
  <2> QED BY <2>1, <2>2 DEF UtilInv
<1>2. UtilInv /\ [Next]_vars => UtilInv'
  <2>1. [Next]_vars => UtilNext \/ UNCHANGED utilVars
    BY DEF Next, vars
  <2> QED BY <2>1, UtilStep
<1>3. UtilInv => AnswersAreOwn
  BY DEF UtilInv, AnswersDue, AnswersAreOwn, StopIsLast
<1> QED BY <1>1, <1>2, <1>3, PTL DEF Spec
-----------------------------------------------------------------------------
(* The serial clients: the ring                                              *)

HIDE BufAssumption
USE SerialAssumption

Slots == 0..(SERIAL_BUF - 1)

\* Slot of the i-th character from h on.
SlotAt(h, i) == IF h + i < SERIAL_BUF THEN h + i ELSE h + i - SERIAL_BUF

RingTypeInv ==
  /\ head \in Slots /\ tail \in Slots /\ ring \in [Slots -> Int]
  /\ sTyped \in Seq(Int) /\ taken \in Seq(Int) /\ line \in Seq(Int) /\ lines \in Seq(Seq(Int))
  /\ ends \in Seq(Nat)

\* The ring holds what was typed and not taken.
RingHolds ==
  /\ Len(sTyped) = Len(taken) + InRing
  /\ \A i \in 1..Len(taken) : taken[i] = sTyped[i]
  /\ \A i \in 0..(InRing - 1) : ring[SlotAt(head, i)] = sTyped[Len(taken) + i + 1]

LinesFit ==
  /\ \A i \in 1..Len(lines) : Len(lines[i]) <= CLIENT_BUF - 1
  /\ Len(line) < CLIENT_BUF - 1
  /\ LinesAreRead
  /\ \A i \in 1..Len(ends) : ends[i] <= Len(taken)

RingInv == RingTypeInv /\ (sApp = "ring" /\ ~overread => RingHolds) /\ LinesFit

\* The ring's arithmetic.
LEMMA RingArithmetic ==
  ASSUME NEW h \in Slots, NEW t \in Slots
  PROVE  /\ (t + 1) % SERIAL_BUF = SlotAt(t, 1) /\ SlotAt(t, 1) \in Slots
         /\ (t - h + SERIAL_BUF) % SERIAL_BUF = IF t < h THEN t - h + SERIAL_BUF ELSE t - h
         /\ \A i \in Slots : SlotAt(h, i) \in Slots
<1>1. \A x \in 0..(2 * SERIAL_BUF - 1) :
        x % SERIAL_BUF = IF x < SERIAL_BUF THEN x ELSE x - SERIAL_BUF
  <2> SUFFICES ASSUME NEW x \in 0..(2 * SERIAL_BUF - 1)
      PROVE  x % SERIAL_BUF = IF x < SERIAL_BUF THEN x ELSE x - SERIAL_BUF
    OBVIOUS
  <2>1. SERIAL_BUF \in Nat /\ SERIAL_BUF > 0 /\ x \in Nat /\ x < 2 * SERIAL_BUF
    OBVIOUS
  <2>2. x % SERIAL_BUF \in 0..(SERIAL_BUF - 1) /\ x \div SERIAL_BUF \in Int
        /\ x = SERIAL_BUF * (x \div SERIAL_BUF) + (x % SERIAL_BUF)
    BY <2>1
  <2> DEFINE q == x \div SERIAL_BUF
             r == x % SERIAL_BUF
  <2> HIDE DEF q, r
  <2>3. r \in 0..(SERIAL_BUF - 1) /\ q \in Int /\ x = SERIAL_BUF * q + r
    BY <2>2 DEF q, r
  <2>4. q = 0 \/ q = 1
    <3>1. q > -1
      <4>1. q <= -1 => SERIAL_BUF * q <= -SERIAL_BUF
        BY <2>1, <2>3
      <4> QED BY <2>1, <2>3, <4>1
    <3>2. q < 2
      <4>1. q >= 2 => SERIAL_BUF * q >= 2 * SERIAL_BUF
        BY <2>1, <2>3
      <4> QED BY <2>1, <2>3, <4>1
    <3> QED BY <2>3, <3>1, <3>2
  <2>5. r = IF x < SERIAL_BUF THEN x ELSE x - SERIAL_BUF
    BY <2>1, <2>3, <2>4
  <2> QED BY <2>5 DEF r
<1>2. t + 1 \in 0..(2 * SERIAL_BUF - 1) /\ t - h + SERIAL_BUF \in 0..(2 * SERIAL_BUF - 1)
  BY DEF Slots
<1>3. (t + 1) % SERIAL_BUF = SlotAt(t, 1)
  BY <1>1, <1>2 DEF SlotAt, Slots
<1>4. (t - h + SERIAL_BUF) % SERIAL_BUF = IF t < h THEN t - h + SERIAL_BUF ELSE t - h
  <2> DEFINE y == t - h + SERIAL_BUF
  <2>1. y % SERIAL_BUF = IF y < SERIAL_BUF THEN y ELSE y - SERIAL_BUF
    BY <1>1, <1>2
  <2>2. /\ y < SERIAL_BUF <=> t < h
        /\ y - SERIAL_BUF = t - h
    BY DEF Slots
  <2> QED BY <2>1, <2>2
<1>5. SlotAt(t, 1) \in Slots /\ \A i \in Slots : SlotAt(h, i) \in Slots
  BY DEF SlotAt, Slots
<1> QED BY <1>3, <1>4, <1>5

Held(h, t) == IF t < h THEN t - h + SERIAL_BUF ELSE t - h

LEMMA RingMoves ==
  ASSUME NEW h \in Slots, NEW t \in Slots
  PROVE  /\ Held(h, t) \in Slots /\ SlotAt(h, Held(h, t)) = t
         /\ \A i \in 0..(Held(h, t) - 1) : SlotAt(h, i) # t /\ SlotAt(h, i) \in Slots
         /\ SlotAt(t, 1) # h => Held(h, SlotAt(t, 1)) = Held(h, t) + 1
         /\ h # t => /\ Held(SlotAt(h, 1), t) = Held(h, t) - 1 /\ Held(h, t) > 0
                     /\ SlotAt(h, 0) = h
                     /\ \A i \in 0..(Held(h, t) - 2) : SlotAt(SlotAt(h, 1), i) = SlotAt(h, i + 1)
<1> USE DEF Slots, SlotAt, Held
<1>1. Held(h, t) \in Slots /\ SlotAt(h, Held(h, t)) = t
  OBVIOUS
<1>2. \A i \in 0..(Held(h, t) - 1) : SlotAt(h, i) # t /\ SlotAt(h, i) \in Slots
  OBVIOUS
<1>3. SlotAt(t, 1) # h => Held(h, SlotAt(t, 1)) = Held(h, t) + 1
  OBVIOUS
<1>4. h # t => Held(SlotAt(h, 1), t) = Held(h, t) - 1 /\ Held(h, t) > 0 /\ SlotAt(h, 0) = h
  OBVIOUS
<1>5. h # t => \A i \in 0..(Held(h, t) - 2) : SlotAt(SlotAt(h, 1), i) = SlotAt(h, i + 1)
  OBVIOUS
<1> QED BY <1>1, <1>2, <1>3, <1>4, <1>5

\* SerialServer puts a character.
LEMMA PutCharInv ==
  ASSUME RingInv, NEW c \in Int, PutChar(c)
  PROVE  RingInv'
<1>1. RingTypeInv /\ head \in Slots /\ tail \in Slots
  BY DEF RingInv, RingTypeInv
<1>2. /\ (tail + 1) % SERIAL_BUF = SlotAt(tail, 1) /\ SlotAt(tail, 1) \in Slots
      /\ InRing = Held(head, tail)
  BY <1>1, RingArithmetic DEF InRing, Held
<1>3. /\ sApp = "ring" /\ SlotAt(tail, 1) # head
      /\ ring' = [ring EXCEPT ![tail] = c] /\ tail' = SlotAt(tail, 1)
      /\ sTyped' = Append(sTyped, c)
      /\ UNCHANGED <<sApp, head, line, lines, taken, ends, overread>>
  BY <1>2 DEF PutChar
<1>4. sTyped' \in Seq(Int) /\ Len(sTyped') = Len(sTyped) + 1 /\ sTyped'[Len(sTyped) + 1] = c
      /\ (\A i \in 1..Len(sTyped) : sTyped'[i] = sTyped[i]) /\ Len(sTyped) \in Nat
      /\ Len(taken) \in Nat
  BY <1>1, <1>3, AppendProperties DEF RingTypeInv
<1>5. RingTypeInv'
  BY <1>1, <1>2, <1>3, <1>4 DEF RingTypeInv
<1>6. LinesFit'
  BY <1>3 DEF RingInv, LinesFit, LinesAreRead, ReadFrom, LineEnds, Began
<1>7. InRing' = Held(head', tail')
  <2>1. head' \in Slots /\ tail' \in Slots
    BY <1>5 DEF RingTypeInv
  <2> QED BY <2>1, RingArithmetic DEF InRing, Held
<1>8. ASSUME ~overread' PROVE RingHolds'
  <2> DEFINE n == InRing
             m == Len(taken)
  <2>1. /\ Len(sTyped) = m + n /\ \A i \in 1..m : taken[i] = sTyped[i]
        /\ \A i \in 0..(n - 1) : ring[SlotAt(head, i)] = sTyped[m + i + 1]
    BY <1>3, <1>8 DEF RingInv, RingHolds
  <2>2. /\ n \in Slots /\ n \in Nat /\ SlotAt(head, n) = tail
        /\ \A i \in 0..(n - 1) : SlotAt(head, i) # tail /\ SlotAt(head, i) \in Slots
    BY <1>1, <1>2, RingMoves DEF Slots
  <2>3. InRing' = n + 1
    BY <1>1, <1>2, <1>3, <1>7, RingMoves
  <2> HIDE DEF n, m
  <2>4. \A i \in 0..n : ring'[SlotAt(head, i)] = sTyped'[m + i + 1]
    <3>1. ring \in [Slots -> Int]
      BY <1>1 DEF RingTypeInv
    <3>2. ring'[SlotAt(head, n)] = sTyped'[m + n + 1]
      BY <1>1, <1>3, <1>4, <2>1, <2>2, <3>1
    <3>3. ASSUME NEW i \in 0..(n - 1) PROVE ring'[SlotAt(head, i)] = sTyped'[m + i + 1]
      <4>1. m + i + 1 \in 1..Len(sTyped)
        BY <1>4, <2>1, <2>2 DEF m
      <4>2. ring'[SlotAt(head, i)] = ring[SlotAt(head, i)]
        BY <1>3, <2>2, <3>1
      <4> QED BY <1>4, <2>1, <4>1, <4>2
    <3> QED BY <2>2, <3>2, <3>3
  <2>5. \A i \in 1..m : taken'[i] = sTyped'[i]
    BY <1>3, <1>4, <2>1, <2>2 DEF m
  <2>6. Len(sTyped') = Len(taken') + InRing'
    BY <1>3, <1>4, <2>1, <2>2, <2>3 DEF m
  <2>7. \A i \in 0..(InRing' - 1) : ring'[SlotAt(head', i)] = sTyped'[Len(taken') + i + 1]
    <3>1. 0..(InRing' - 1) = 0..n
      BY <2>2, <2>3
    <3> QED BY <1>3, <2>4, <3>1 DEF m
  <2>8. \A i \in 1..Len(taken') : taken'[i] = sTyped'[i]
    BY <1>3, <2>5 DEF m
  <2> QED BY <2>6, <2>7, <2>8 DEF RingHolds
<1> QED BY <1>5, <1>6, <1>8 DEF RingInv

\* A line grows, or ends before it is too long for its buffer.
LEMMA LineGrows ==
  ASSUME RingTypeInv, LinesFit, ReadRing
  PROVE  LinesFit' /\ line' \in Seq(Int) /\ lines' \in Seq(Seq(Int)) /\ ends' \in Seq(Nat)
<1> DEFINE c == ring[head]
           l == IF c = CR THEN line ELSE Append(line, c)
           N == Len(lines)
           b == Began(N + 1)
           T == Len(taken)
<1>1. /\ c \in Int /\ line \in Seq(Int) /\ lines \in Seq(Seq(Int)) /\ ends \in Seq(Nat)
      /\ taken \in Seq(Int) /\ T \in Nat /\ N \in Nat /\ Len(line) \in Nat
  BY DEF RingTypeInv
<1>2. l \in Seq(Int) /\ Len(l) \in Nat /\ Len(l) <= CLIENT_BUF - 1
      /\ (c = CR \/ Len(l) = CLIENT_BUF - 1 \/ Len(l) < CLIENT_BUF - 1)
  BY <1>1 DEF LinesFit
<1>3. /\ IF c = CR \/ LineFull(Len(l))
         THEN lines' = Append(lines, l) /\ line' = <<>> /\ ends' = Append(ends, Len(taken'))
         ELSE line' = l /\ UNCHANGED <<lines, ends>>
      /\ taken' = Append(taken, c)
  BY DEF ReadRing
<1>4. /\ taken' \in Seq(Int) /\ Len(taken') = T + 1 /\ taken'[T + 1] = c
      /\ \A i \in 1..T : taken'[i] = taken[i]
  BY <1>1, <1>3, AppendProperties
<1>5. /\ Len(ends) = N /\ b \in Nat /\ T = b + Len(line)
      /\ \A j \in 1..Len(line) : line[j] = taken[b + j] /\ line[j] # CR
  <2>1. Len(ends) = N /\ T = b + Len(line) /\ ReadFrom(line, b)
    BY DEF LinesFit, LinesAreRead
  <2>2. b \in Nat
    BY <1>1, <2>1 DEF Began
  <2> QED BY <2>1, <2>2 DEF ReadFrom
<1>6. ASSUME NEW n \in 1..N
      PROVE  /\ Len(lines[n]) <= CLIENT_BUF - 1 /\ Len(lines[n]) \in Nat
             /\ Began(n) \in Nat /\ ends[n] \in Nat
             /\ \A j \in 1..Len(lines[n]) :
                  lines[n][j] = taken[Began(n) + j] /\ lines[n][j] # CR
             /\ LineEnds(n)
             /\ ends[n] <= T
  <2>1. /\ Len(lines[n]) <= CLIENT_BUF - 1 /\ ReadFrom(lines[n], Began(n)) /\ LineEnds(n)
    BY DEF LinesFit, LinesAreRead
  <2>2. Len(lines[n]) \in Nat
    <3>1. lines[n] \in Seq(Int)
      BY <1>1
    <3> QED BY <3>1
  <2>3. Began(n) \in Nat /\ ends[n] \in Nat
    <3>1. \A i \in 1..N : ends[i] \in Nat
      BY <1>1, <1>5
    <3>2. n # 1 => n - 1 \in 1..N
      BY <1>1
    <3> QED BY <3>1, <3>2 DEF Began
  <2>4. ends[n] <= T
    BY <1>5 DEF LinesFit
  <2> QED BY <2>1, <2>2, <2>3, <2>4 DEF ReadFrom
<1>7. /\ Len(l) = IF c = CR THEN Len(line) ELSE Len(line) + 1
      /\ \A j \in 1..Len(l) : l[j] = taken'[b + j] /\ l[j] # CR
  <2>1. CASE c = CR
    <3>1. \A j \in 1..Len(line) : b + j \in 1..T
      BY <1>1, <1>5
    <3> QED BY <1>4, <1>5, <2>1, <3>1
  <2>2. CASE c # CR
    <3>1. /\ l = Append(line, c) /\ Len(l) = Len(line) + 1 /\ l[Len(line) + 1] = c
          /\ \A j \in 1..Len(line) : l[j] = line[j]
      BY <1>1, <2>2, AppendProperties
    <3>2. ASSUME NEW j \in 1..Len(l) PROVE l[j] = taken'[b + j] /\ l[j] # CR
      <4>1. CASE j \in 1..Len(line)
        <5>1. b + j \in 1..T
          BY <1>1, <1>5, <4>1
        <5> QED BY <1>4, <1>5, <3>1, <4>1, <5>1
      <4>2. CASE j = Len(line) + 1
        <5>1. b + j = T + 1
          BY <1>1, <1>5, <4>2
        <5> QED BY <1>4, <2>2, <3>1, <4>2, <5>1
      <4> QED BY <1>1, <3>1, <4>1, <4>2
    <3> QED BY <2>2, <3>1, <3>2
  <2> QED BY <2>1, <2>2
<1> HIDE DEF c, l, b, T, N
<1>8. ASSUME NEW n \in 1..N, lines'[n] = lines[n], ends'[n] = ends[n], Began(n)' = Began(n)
      PROVE  ReadFrom(lines[n], Began(n))' /\ LineEnds(n)' /\ ends'[n] <= T + 1
  <2> DEFINE x == Began(n)
             y == Len(lines[n])
             e == ends[n]
             m == lines[n]
  <2>1. /\ x \in Nat /\ y \in Nat /\ e \in Nat /\ e <= T /\ T \in Nat
        /\ \/ e = x + y + 1 /\ taken[e] = CR
           \/ e = x + y /\ y = CLIENT_BUF - 1
        /\ \A j \in 1..y : m[j] = taken[x + j] /\ m[j] # CR
    BY <1>1, <1>6 DEF LineEnds
  <2>2. (LineEnds(n)' <=> \/ e = x + y + 1 /\ taken'[e] = CR
                          \/ e = x + y /\ y = CLIENT_BUF - 1)
        /\ (ReadFrom(lines[n], Began(n))' <=> \A j \in 1..y : m[j] = taken'[x + j] /\ m[j] # CR)
    BY <1>8 DEF LineEnds, ReadFrom
  <2> HIDE DEF x, y, e, m
  <2>3. \A j \in 1..y : x + j \in 1..T
    BY <2>1
  <2>4. e = x + y + 1 => e \in 1..T
    BY <2>1
  <2>5. ends'[n] = e
    BY <1>8 DEF e
  <2>6. \A j \in 1..y : m[j] = taken'[x + j] /\ m[j] # CR
    BY <1>4, <2>1, <2>3
  <2>7. \/ e = x + y + 1 /\ taken'[e] = CR
        \/ e = x + y /\ y = CLIENT_BUF - 1
    BY <1>4, <2>1, <2>4
  <2>8. e <= T + 1
    BY <2>1
  <2> QED BY <2>2, <2>5, <2>6, <2>7, <2>8
<1>9. CASE c = CR \/ LineFull(Len(l))
  <2>1. lines' = Append(lines, l) /\ line' = <<>> /\ ends' = Append(ends, T + 1)
    BY <1>3, <1>4, <1>9
  <2>2. /\ lines' \in Seq(Seq(Int)) /\ Len(lines') = N + 1 /\ lines'[N + 1] = l
        /\ \A i \in 1..N : lines'[i] = lines[i]
    <3> DEFINE t == Append(lines, l)
               S == Seq(Int)
    <3>1. l \in S /\ lines \in Seq(S)
      BY <1>1, <1>2
    <3> HIDE DEF S
    <3>2. /\ t \in Seq(S) /\ Len(t) = Len(lines) + 1 /\ t[Len(lines) + 1] = l
          /\ \A i \in 1..Len(lines) : t[i] = lines[i]
      BY <3>1, AppendProperties
    <3> HIDE DEF t
    <3>3. lines' = t
      BY <2>1 DEF t
    <3> QED BY <3>2, <3>3 DEF S, N
  <2>3. /\ ends' \in Seq(Nat) /\ Len(ends') = N + 1 /\ ends'[N + 1] = T + 1
        /\ \A i \in 1..N : ends'[i] = ends[i]
    BY <1>1, <1>5, <2>1, AppendProperties
  <2>4. \A n \in 1..(N + 1) : Began(n)' = Began(n)
    <3>1. ASSUME NEW n \in 1..(N + 1) PROVE Began(n)' = Began(n)
      <4>1. n # 1 => n - 1 \in 1..N
        BY <1>1
      <4> QED BY <2>3, <4>1 DEF Began
    <3> QED BY <3>1
  <2>5. ASSUME NEW n \in 1..(N + 1)
        PROVE  /\ ReadFrom(lines[n], Began(n))' /\ LineEnds(n)' /\ ends'[n] <= T + 1
               /\ Len(lines'[n]) <= CLIENT_BUF - 1
    <3>1. CASE n \in 1..N
      BY <1>6, <1>8, <2>2, <2>3, <2>4, <3>1
    <3>2. CASE n = N + 1
      <4>1. lines'[n] = l /\ ends'[n] = T + 1 /\ Began(n)' = b
        BY <1>1, <2>2, <2>3, <2>4, <3>2 DEF b
      <4>2. \/ T + 1 = b + Len(l) + 1 /\ taken'[T + 1] = CR
            \/ T + 1 = b + Len(l) /\ Len(l) = CLIENT_BUF - 1
        BY <1>1, <1>4, <1>5, <1>7, <1>9 DEF LineFull
      <4>3. LineEnds(n)' /\ ReadFrom(lines[n], Began(n))'
        BY <1>7, <4>1, <4>2 DEF LineEnds, ReadFrom
      <4> QED BY <1>1, <1>2, <4>1, <4>3
    <3> QED BY <1>1, <3>1, <3>2
  <2>6. Began(Len(lines) + 1)' = T + 1
    <3>1. Len(lines') + 1 = N + 2 /\ N + 2 # 1 /\ (N + 2) - 1 = N + 1
      BY <1>1, <2>2
    <3> QED BY <2>3, <3>1 DEF Began
  <2>7. /\ Len(line') = 0 /\ line' \in Seq(Int)
        /\ ReadFrom(line, Began(Len(lines) + 1))'
        /\ Len(taken') = Began(Len(lines) + 1)' + Len(line')
    BY <1>1, <1>4, <2>1, <2>6 DEF ReadFrom
  <2>8. LinesAreRead'
    BY <2>2, <2>3, <2>5, <2>7 DEF LinesAreRead
  <2>9. (\A i \in 1..Len(ends') : ends'[i] <= Len(taken'))
        /\ (\A i \in 1..Len(lines') : Len(lines'[i]) <= CLIENT_BUF - 1)
    BY <1>4, <2>2, <2>3, <2>5
  <2> QED BY <2>2, <2>3, <2>7, <2>8, <2>9 DEF LinesFit
<1>10. CASE ~(c = CR \/ LineFull(Len(l)))
  <2>1. /\ line' = l /\ UNCHANGED <<lines, ends>> /\ Len(line') < CLIENT_BUF - 1
        /\ Len(l) = Len(line) + 1
    BY <1>2, <1>3, <1>7, <1>10 DEF LineFull
  <2>2. \A n \in 1..(N + 1) : Began(n)' = Began(n)
    BY <2>1 DEF Began
  <2>3. ASSUME NEW n \in 1..N
        PROVE  ReadFrom(lines[n], Began(n))' /\ LineEnds(n)' /\ ends'[n] <= T + 1
    BY <1>1, <1>8, <2>1, <2>2
  <2>4. Len(lines') = N /\ Len(ends') = N /\ Began(Len(lines) + 1)' = b
    BY <1>1, <1>5, <2>1, <2>2 DEF N, b
  <2>5. ReadFrom(line, Began(Len(lines) + 1))'
        /\ Len(taken') = Began(Len(lines) + 1)' + Len(line')
    <3>1. ReadFrom(line, Began(Len(lines) + 1))'
      BY <1>7, <2>1, <2>4 DEF ReadFrom
    <3>2. Len(taken') = Began(Len(lines) + 1)' + Len(line')
      BY <1>4, <1>5, <2>1, <2>4
    <3> QED BY <3>1, <3>2
  <2>6. LinesAreRead'
    BY <2>3, <2>4, <2>5 DEF LinesAreRead
  <2>7. (\A i \in 1..Len(ends') : ends'[i] <= Len(taken'))
        /\ (\A i \in 1..Len(lines') : Len(lines'[i]) <= CLIENT_BUF - 1)
    BY <1>4, <1>6, <2>1, <2>3, <2>4
  <2> QED BY <1>1, <1>2, <2>1, <2>6, <2>7 DEF LinesFit
<1> QED BY <1>9, <1>10

\* The client takes a character.
LEMMA ReadRingInv ==
  ASSUME RingInv, ReadRing
  PROVE  RingInv'
<1>1. RingTypeInv /\ head \in Slots /\ tail \in Slots
  BY DEF RingInv, RingTypeInv
<1>2. /\ (head + 1) % SERIAL_BUF = SlotAt(head, 1) /\ SlotAt(head, 1) \in Slots
      /\ InRing = Held(head, tail)
  BY <1>1, RingArithmetic DEF InRing, Held
<1>3. /\ sApp = "ring" /\ head' = SlotAt(head, 1) /\ taken' = Append(taken, ring[head])
      /\ overread' = (overread \/ head = tail) /\ UNCHANGED <<sApp, sTyped, tail, ring>>
  BY <1>2 DEF ReadRing
<1>4. /\ taken' \in Seq(Int) /\ Len(taken') = Len(taken) + 1
      /\ taken'[Len(taken) + 1] = ring[head] /\ (\A i \in 1..Len(taken) : taken'[i] = taken[i])
      /\ Len(taken) \in Nat
  <2>1. ring[head] \in Int /\ taken \in Seq(Int)
    BY <1>1 DEF RingTypeInv
  <2> QED BY <1>3, <2>1, AppendProperties
<1>5. LinesFit' /\ line' \in Seq(Int) /\ lines' \in Seq(Seq(Int)) /\ ends' \in Seq(Nat)
  BY <1>1, LineGrows DEF RingInv
<1>6. RingTypeInv'
  BY <1>1, <1>2, <1>3, <1>4, <1>5 DEF RingTypeInv
<1>7. InRing' = Held(head', tail')
  <2>1. head' \in Slots /\ tail' \in Slots
    BY <1>6 DEF RingTypeInv
  <2> QED BY <2>1, RingArithmetic DEF InRing, Held
<1>8. ASSUME ~overread' PROVE RingHolds'
  <2> DEFINE n == InRing
             m == Len(taken)
  <2>1. /\ Len(sTyped) = m + n /\ \A i \in 1..m : taken[i] = sTyped[i]
        /\ \A i \in 0..(n - 1) : ring[SlotAt(head, i)] = sTyped[m + i + 1]
    BY <1>3, <1>8 DEF RingInv, RingHolds
  <2>2. /\ head # tail /\ n \in Nat /\ n > 0 /\ InRing' = n - 1 /\ SlotAt(head, 0) = head
        /\ \A i \in 0..(n - 2) : SlotAt(SlotAt(head, 1), i) = SlotAt(head, i + 1)
    <3>1. head # tail /\ n = Held(head, tail) /\ InRing' = Held(SlotAt(head, 1), tail)
      BY <1>2, <1>3, <1>7, <1>8
    <3>2. /\ Held(head, tail) \in Nat /\ Held(SlotAt(head, 1), tail) = Held(head, tail) - 1
          /\ Held(head, tail) > 0 /\ SlotAt(head, 0) = head
          /\ \A i \in 0..(Held(head, tail) - 2) : SlotAt(SlotAt(head, 1), i) = SlotAt(head, i + 1)
      BY <1>1, <3>1, RingMoves DEF Slots
    <3> HIDE DEF n
    <3> QED BY <3>1, <3>2
  <2> HIDE DEF n, m
  <2>3. ring[head] = sTyped[m + 1]
    <3>1. 0 \in 0..(n - 1) /\ m + 0 + 1 = m + 1
      BY <1>4, <2>2 DEF m
    <3> QED BY <2>1, <2>2, <3>1
  <2>4. Len(sTyped') = Len(taken') + InRing'
    BY <1>3, <1>4, <2>1, <2>2 DEF m
  <2>5. \A i \in 1..Len(taken') : taken'[i] = sTyped'[i]
    BY <1>3, <1>4, <2>1, <2>3 DEF m
  <2>6. ASSUME NEW i \in 0..(InRing' - 1)
        PROVE  ring'[SlotAt(head', i)] = sTyped'[Len(taken') + i + 1]
    <3>1. i + 1 \in 0..(n - 1) /\ i \in 0..(n - 2) /\ Len(taken') + i + 1 = m + (i + 1) + 1
      BY <1>4, <2>2 DEF m
    <3>2. SlotAt(head', i) = SlotAt(head, i + 1)
      BY <1>3, <2>2, <3>1
    <3> QED BY <1>3, <2>1, <3>1, <3>2
  <2> QED BY <2>4, <2>5, <2>6 DEF RingHolds
<1> QED BY <1>5, <1>6, <1>8 DEF RingInv
-----------------------------------------------------------------------------
(* The serial clients: the loopback                                          *)

ReqStates == {"none", "asked", "done"}

\* A request at a time: what was typed has been written but for the character
\* of the request that is on its way.
LoopHolds ==
  /\ readReq.at = "asked" => Len(looped) = Len(sTyped)
  /\ readReq.at = "done" => Len(sTyped) = Len(looped) + 1 /\ readReq.data = <<sTyped[Len(sTyped)]>>
  /\ writeReq.at = "asked" =>
       /\ Len(sTyped) = Len(looped) + 1
       /\ \E c \in Int : /\ writeReq.data = <<c>>
                         /\ c = sTyped[Len(sTyped)] \/ Len(sTyped) \in garbled
  /\ writeReq.at = "done" => Len(looped) = Len(sTyped)
  /\ \A i \in 1..Len(looped) : looped[i] = sTyped[i] \/ i \in garbled
  /\ Len(looped) <= Len(sTyped)

LoopInv ==
  /\ readReq \in [at : ReqStates, data : Seq(Int)] /\ writeReq \in [at : ReqStates, data : Seq(Int)]
  /\ looped \in Seq(Int) /\ sTyped \in Seq(Int) /\ sApp \in {"ring", "loopback"}
  /\ readReq.at = "none" \/ writeReq.at = "none"
  /\ sApp = "ring" => looped = <<>>
  /\ sApp = "loopback" => LoopHolds

LEMMA FillReadInv ==
  ASSUME LoopInv, NEW c \in Int, FillRead(c)
  PROVE  LoopInv'
<1>1. /\ sApp = "loopback" /\ readReq.at = "asked" /\ sTyped' = Append(sTyped, c)
      /\ readReq' = [at |-> "done", data |-> <<c>>]
      /\ UNCHANGED <<sApp, writeReq, looped, garbled>> /\ sTyped \in Seq(Int) /\ looped \in Seq(Int)
  BY DEF FillRead, LoopInv
<1>2. /\ sTyped' \in Seq(Int) /\ Len(sTyped') = Len(sTyped) + 1 /\ Len(sTyped) \in Nat
      /\ \A i \in 1..Len(sTyped) : sTyped'[i] = sTyped[i]
  BY <1>1, AppendProperties
<1>3. LoopHolds'
  <2>1. Len(looped) = Len(sTyped) /\ writeReq.at = "none"
        /\ \A i \in 1..Len(looped) : looped[i] = sTyped[i] \/ i \in garbled
    BY <1>1 DEF LoopInv, LoopHolds
  <2>2. readReq'.data = <<sTyped'[Len(sTyped')]>> /\ readReq'.at = "done"
    BY <1>1, <1>2, AppendProperties
  <2> QED BY <1>1, <1>2, <2>1, <2>2 DEF LoopHolds
<1>4. readReq' \in [at : ReqStates, data : Seq(Int)]
  BY <1>1 DEF ReqStates
<1> QED BY <1>1, <1>2, <1>3, <1>4 DEF LoopInv

LEMMA DoWriteInv ==
  ASSUME LoopInv, DoWrite
  PROVE  LoopInv'
<1>1. /\ sApp = "loopback" /\ writeReq.at = "asked" /\ looped' = looped \o writeReq.data
      /\ writeReq' = [writeReq EXCEPT !.at = "done"]
      /\ UNCHANGED <<sApp, sTyped, readReq, garbled>>
      /\ sTyped \in Seq(Int) /\ looped \in Seq(Int) /\ writeReq.data \in Seq(Int)
  BY DEF DoWrite, LoopInv
<1>2. writeReq' \in [at : ReqStates, data : Seq(Int)] /\ writeReq'.at = "done" /\ readReq.at = "none"
  BY <1>1 DEF LoopInv, ReqStates
<1>3. LoopHolds
  BY <1>1 DEF LoopInv
<1>4. PICK c \in Int : /\ writeReq.data = <<c>> /\ Len(sTyped) = Len(looped) + 1
                       /\ c = sTyped[Len(sTyped)] \/ Len(sTyped) \in garbled
  BY <1>1, <1>3 DEF LoopHolds
<1>5. /\ looped' \in Seq(Int) /\ Len(looped') = Len(looped) + 1 /\ looped'[Len(looped) + 1] = c
      /\ (\A i \in 1..Len(looped) : looped'[i] = looped[i]) /\ Len(looped) \in Nat
  <2>1. looped' = Append(looped, c)
    <3>1. Append(looped, c) = looped \o <<c>>
      BY <1>1, AppendIsConcat
    <3> QED BY <1>1, <1>4, <3>1
  <2> QED BY <1>1, <2>1, AppendProperties
<1>6. LoopHolds'
  <2>1. \A i \in 1..Len(looped') : looped'[i] = sTyped'[i] \/ i \in garbled'
    <3>1. ASSUME NEW i \in 1..Len(looped') PROVE looped'[i] = sTyped'[i] \/ i \in garbled'
      <4>1. CASE i \in 1..Len(looped)
        BY <1>1, <1>3, <1>5, <4>1 DEF LoopHolds
      <4>2. CASE i = Len(looped) + 1
        BY <1>1, <1>4, <1>5, <4>2
      <4> QED BY <1>5, <4>1, <4>2
    <3> QED BY <3>1
  <2>2. Len(looped') = Len(sTyped') /\ Len(sTyped') \in Nat
    BY <1>1, <1>4, <1>5
  <2> QED BY <1>1, <1>2, <2>1, <2>2 DEF LoopHolds
<1> QED BY <1>1, <1>2, <1>5, <1>6 DEF LoopInv

LEMMA ReadDoneInv ==
  ASSUME LoopInv, ReadDone
  PROVE  LoopInv'
<1>1. /\ sApp = "loopback" /\ readReq.at = "done" /\ readReq' = NoReq
      /\ UNCHANGED <<sApp, sTyped, looped>>
      /\ \/ writeReq' = writeReq /\ garbled \subseteq garbled'
         \/ \E d \in {readReq.data, <<Unset>>} :
              /\ writeReq' = [at |-> "asked", data |-> d] /\ garbled \subseteq garbled'
              /\ d = readReq.data \/ Len(sTyped) \in garbled'
  BY DEF ReadDone, write_output
<1>2. LoopHolds /\ writeReq.at = "none" /\ readReq'.at = "none" /\ sTyped \in Seq(Int)
  BY <1>1 DEF LoopInv, NoReq
<1>3. /\ Len(sTyped) = Len(looped) + 1 /\ Len(looped) \in Nat /\ Len(sTyped) \in 1..Len(sTyped)
      /\ readReq.data = <<sTyped[Len(sTyped)]>> /\ sTyped[Len(sTyped)] \in Int /\ Unset \in Int
      /\ \A i \in 1..Len(looped) : looped[i] = sTyped[i] \/ i \in garbled'
  <2>1. /\ Len(sTyped) = Len(looped) + 1 /\ readReq.data = <<sTyped[Len(sTyped)]>>
        /\ (\A i \in 1..Len(looped) : looped[i] = sTyped[i] \/ i \in garbled)
        /\ garbled \subseteq garbled'
    BY <1>1, <1>2 DEF LoopHolds
  <2>2. Len(looped) \in Nat
    BY DEF LoopInv
  <2>3. Len(sTyped) \in 1..Len(sTyped)
    BY <2>1, <2>2
  <2> QED BY <1>2, <2>1, <2>2, <2>3 DEF Unset
<1>4. readReq' \in [at : ReqStates, data : Seq(Int)]
  BY <1>1 DEF NoReq, ReqStates
<1>5. CASE writeReq' = writeReq
  <2>1. LoopHolds'
    BY <1>1, <1>2, <1>3, <1>5 DEF LoopHolds
  <2> QED BY <1>1, <1>2, <1>4, <1>5, <2>1 DEF LoopInv
<1>6. CASE \E d \in {readReq.data, <<Unset>>} :
             /\ writeReq' = [at |-> "asked", data |-> d] /\ garbled \subseteq garbled'
             /\ d = readReq.data \/ Len(sTyped) \in garbled'
  <2>1. PICK d \in {readReq.data, <<Unset>>} :
             /\ writeReq' = [at |-> "asked", data |-> d]
             /\ d = readReq.data \/ Len(sTyped) \in garbled'
    BY <1>6
  <2>2. \E c \in Int : d = <<c>> /\ (c = sTyped[Len(sTyped)] \/ Len(sTyped) \in garbled')
    BY <1>3, <2>1
  <2>3. writeReq'.at = "asked" /\ writeReq'.data = d
    BY <2>1
  <2>4. LoopHolds'
    BY <1>1, <1>2, <1>3, <2>2, <2>3 DEF LoopHolds
  <2>5. writeReq' \in [at : ReqStates, data : Seq(Int)]
    BY <2>1, <2>2 DEF ReqStates
  <2> QED BY <1>1, <1>2, <1>4, <2>4, <2>5 DEF LoopInv
<1> QED BY <1>1, <1>5, <1>6

LEMMA WriteDoneInv ==
  ASSUME LoopInv, WriteDone
  PROVE  LoopInv'
<1>1. /\ sApp = "loopback" /\ writeReq.at = "done" /\ writeReq' = NoReq
      /\ UNCHANGED <<sApp, sTyped, looped, garbled>>
      /\ readReq' \in {[at |-> "asked", data |-> <<>>], NoReq}
  BY DEF WriteDone, AskRead
<1>2. /\ writeReq'.at = "none" /\ readReq'.at \in {"asked", "none"}
      /\ readReq' \in [at : ReqStates, data : Seq(Int)]
      /\ writeReq' \in [at : ReqStates, data : Seq(Int)]
  <2>1. <<>> \in Seq(Int) /\ NoReq = [at |-> "none", data |-> <<>>]
    BY DEF NoReq
  <2>2. CASE readReq' = NoReq
    BY <1>1, <2>1, <2>2 DEF ReqStates
  <2>3. CASE readReq' = [at |-> "asked", data |-> <<>>]
    BY <1>1, <2>1, <2>3 DEF ReqStates
  <2> QED BY <1>1, <2>2, <2>3
<1>3. LoopHolds'
  BY <1>1, <1>2 DEF LoopInv, LoopHolds
<1> QED BY <1>1, <1>2, <1>3 DEF LoopInv

SerialInv == RingInv /\ LoopInv

LEMMA SerialStep ==
  ASSUME SerialInv, SerialNext \/ UNCHANGED serialVars
  PROVE  SerialInv'
<1>1. ASSUME UNCHANGED loopVars, UNCHANGED sApp,
             sTyped' = sTyped \/ (sApp = "ring" /\ sTyped' \in Seq(Int))
      PROVE  LoopInv'
  <2>1. UNCHANGED <<readReq, writeReq, looped, garbled, sApp>> /\ sTyped' \in Seq(Int)
    BY <1>1 DEF SerialInv, LoopInv, loopVars
  <2>2. sApp = "loopback" => LoopHolds'
    <3>1. sApp = "loopback" => sTyped' = sTyped
      BY <1>1
    <3> QED BY <2>1, <3>1 DEF SerialInv, LoopInv, LoopHolds
  <2> QED BY <2>1, <2>2 DEF SerialInv, LoopInv
<1>2. ASSUME UNCHANGED ringVars, UNCHANGED sApp,
             sTyped' = sTyped \/ (sApp = "loopback" /\ sTyped' \in Seq(Int))
      PROVE  RingInv'
  <2>1. /\ UNCHANGED <<head, tail, ring, line, lines, taken, ends, overread, sApp>>
        /\ sTyped' \in Seq(Int)
    BY <1>2 DEF SerialInv, RingInv, RingTypeInv, ringVars
  <2>2. sApp = "ring" /\ ~overread => RingHolds'
    <3>1. sApp = "ring" => sTyped' = sTyped
      BY <1>2
    <3>2. InRing' = InRing
      BY <2>1 DEF InRing
    <3> QED BY <2>1, <3>1, <3>2 DEF SerialInv, RingInv, RingHolds
  <2>3. RingTypeInv' /\ LinesFit'
    BY <2>1 DEF SerialInv, RingInv, RingTypeInv, LinesFit, LinesAreRead, ReadFrom, LineEnds, Began
  <2> QED BY <2>1, <2>2, <2>3 DEF RingInv
<1>3. Keys \subseteq Int
  BY DEF SerialInv, RingInv, RingTypeInv, Keys, CR
<1>4. ASSUME NEW c \in Keys, PutChar(c) PROVE SerialInv'
  <2>1. RingInv'
    BY <1>3, <1>4, PutCharInv DEF SerialInv
  <2>2. UNCHANGED loopVars /\ UNCHANGED sApp /\ sApp = "ring" /\ sTyped' \in Seq(Int)
    BY <1>4, <2>1 DEF PutChar, RingInv, RingTypeInv
  <2> QED BY <1>1, <2>1, <2>2 DEF SerialInv
<1>5. ASSUME NEW c \in Keys, FillRead(c) PROVE SerialInv'
  <2>1. LoopInv'
    BY <1>3, <1>5, FillReadInv DEF SerialInv
  <2>2. UNCHANGED ringVars /\ UNCHANGED sApp /\ sApp = "loopback" /\ sTyped' \in Seq(Int)
    BY <1>5, <2>1 DEF FillRead, LoopInv
  <2> QED BY <1>2, <2>1, <2>2 DEF SerialInv
<1>6. CASE TestRing \/ WaitRing
  <2>1. /\ UNCHANGED <<loopVars, sApp, sTyped, head, tail, ring, line, lines, taken, ends, overread>>
    BY <1>6 DEF TestRing, WaitRing
  <2>2. RingInv'
    BY <2>1 DEF SerialInv, RingInv, RingTypeInv, RingHolds, LinesFit, InRing, LinesAreRead,
                ReadFrom, LineEnds, Began
  <2> QED BY <1>1, <2>1, <2>2 DEF SerialInv
<1>7. CASE ReadRing
  <2>1. UNCHANGED <<loopVars, sApp, sTyped>>
    BY <1>7 DEF ReadRing
  <2> QED BY <1>1, <1>7, <2>1, ReadRingInv DEF SerialInv
<1>8. CASE DoWrite \/ ReadDone \/ WriteDone
  <2>1. UNCHANGED ringVars /\ UNCHANGED sApp /\ UNCHANGED sTyped
    BY <1>8 DEF DoWrite, ReadDone, WriteDone
  <2> QED BY <1>2, <1>8, <2>1, DoWriteInv, ReadDoneInv, WriteDoneInv DEF SerialInv
<1>9. CASE UNCHANGED serialVars
  BY <1>1, <1>2, <1>9 DEF SerialInv, serialVars
<1> QED BY <1>4, <1>5, <1>6, <1>7, <1>8, <1>9 DEF SerialNext

\* The reader of the ring cuts what it reads into lines that fit; as long as no
\* stale notification made it read an empty ring that is what was typed, each
\* character once and in order.  The loopback writes, a request at a time, each
\* character typed in its place, unless its copy failed (the clients of
\* SerialServer), for every size of ring, line and heap.
THEOREM SerialIsFaithful == Spec => []SerialFaithful
<1>1. Init => SerialInv
  <2> SUFFICES ASSUME SerialInit PROVE SerialInv
    BY DEF Init
  <2>1. /\ <<>> \in Seq(Int) /\ <<>> \in Seq(Seq(Int)) /\ 0 \in Slots /\ Slots = 0..(SERIAL_BUF - 1)
        /\ [i \in 0..(SERIAL_BUF - 1) |-> Unset] \in [Slots -> Int]
        /\ <<>> \in Seq(Nat)
    BY DEF Slots, Unset
  <2>2. RingTypeInv /\ LinesFit
    BY <2>1 DEF SerialInit, RingTypeInv, LinesFit, LinesAreRead, ReadFrom, Began
  <2>3. InRing = 0
    <3>1. InRing = Held(head, tail)
      BY <2>2, RingArithmetic DEF RingTypeInv, InRing, Held
    <3> QED BY <3>1 DEF SerialInit, Held
  <2>4. RingHolds
    BY <2>3 DEF SerialInit, RingHolds
  <2>5. LoopInv
    <3>1. /\ readReq.at = "asked" /\ writeReq.at = "none" /\ looped = <<>> /\ sTyped = <<>>
          /\ readReq \in [at : ReqStates, data : Seq(Int)]
          /\ writeReq \in [at : ReqStates, data : Seq(Int)]
      BY DEF SerialInit, NoReq, ReqStates
    <3>2. <<>> \in Seq(Int) /\ Len(<<>>) = 0 /\ sApp \in {"ring", "loopback"}
      BY DEF SerialInit
    <3>3. LoopHolds
      BY <3>1, <3>2 DEF LoopHolds
    <3> QED BY <3>1, <3>2, <3>3 DEF LoopInv
  <2> QED BY <2>2, <2>4, <2>5 DEF SerialInv, RingInv
<1>2. SerialInv /\ [Next]_vars => SerialInv'
  <2>1. [Next]_vars => SerialNext \/ UNCHANGED serialVars
    BY DEF Next, vars
  <2> QED BY <2>1, SerialStep
<1>3. SerialInv => SerialFaithful
  <2> SUFFICES ASSUME SerialInv PROVE SerialFaithful
    OBVIOUS
  <2>1. \A s, t \in Seq(Int) : Len(s) <= Len(t) /\ (\A i \in 1..Len(s) : s[i] = t[i])
                               => s = SubSeq(t, 1, Len(s))
    <3> SUFFICES ASSUME NEW s \in Seq(Int), NEW t \in Seq(Int), Len(s) <= Len(t),
                        \A i \in 1..Len(s) : s[i] = t[i]
        PROVE  s = SubSeq(t, 1, Len(s))
      OBVIOUS
    <3> DEFINE u == SubSeq(t, 1, Len(s))
    <3>1. Len(s) \in 0..Len(t)
      OBVIOUS
    <3>2. u \in Seq(Int) /\ Len(u) = Len(s) /\ \A i \in 1..Len(s) : u[i] = t[i]
      BY <3>1, PrefixOrder
    <3> HIDE DEF u
    <3>3. s = u
      BY <3>2, SeqEqual
    <3> QED BY <3>3 DEF u
  <2>2. sApp = "ring" /\ ~overread =>
          Len(sTyped) = Len(taken) + InRing /\ taken = SubSeq(sTyped, 1, Len(taken))
    <3> SUFFICES ASSUME sApp = "ring", ~overread
        PROVE  Len(sTyped) = Len(taken) + InRing /\ taken = SubSeq(sTyped, 1, Len(taken))
      OBVIOUS
    <3>1. RingHolds /\ taken \in Seq(Int) /\ sTyped \in Seq(Int)
      BY DEF SerialInv, RingInv, RingTypeInv
    <3>2. InRing = Held(head, tail) /\ Held(head, tail) \in Slots
      BY RingArithmetic, RingMoves DEF SerialInv, RingInv, RingTypeInv, InRing, Held
    <3>3. Len(taken) <= Len(sTyped)
      BY <3>1, <3>2 DEF RingHolds, Slots
    <3> QED BY <2>1, <3>1, <3>3 DEF RingHolds
  <2>3. Len(looped) <= Len(sTyped) /\ \A i \in 1..Len(looped) : looped[i] = sTyped[i] \/ i \in garbled
    <3>1. looped = <<>> => Len(looped) <= Len(sTyped) /\ 1..Len(looped) = {}
      BY DEF SerialInv, LoopInv
    <3>2. sApp = "ring" \/ sApp = "loopback"
      BY DEF SerialInv, LoopInv
    <3> QED BY <3>1, <3>2 DEF SerialInv, LoopInv, LoopHolds
  <2> QED BY <2>2, <2>3 DEF SerialFaithful, SerialInv, RingInv, LinesFit, LoopInv
<1> QED BY <1>1, <1>2, <1>3, PTL DEF Spec
-----------------------------------------------------------------------------
(* The character devices                                                     *)

\* What the port holds is the last code, whoever reads it, and until the client
\* has shown that code something is under way that will make it.
LastShown == seenByClient # <<>> /\ seenByClient[Len(seenByClient)] = keyCodes
KeyInv ==
  /\ keyCodes \in Nat /\ dataPort = keyCodes
  /\ seenByDriver \in Seq(Nat) /\ seenByClient \in Seq(Nat)
  /\ \A i \in 1..Len(seenByDriver) : seenByDriver[i] <= keyCodes
  /\ \A i \in 1..Len(seenByClient) : seenByClient[i] <= keyCodes
  /\ Ordered(seenByDriver) /\ Ordered(seenByClient)
  /\ keyCodes > 0 => kIrq \/ driver = "emit" \/ keypress \/ callback = "run" \/ LastShown

\* The characters not yet read are the last that came, and those read are
\* printed, each at its rank.
UartInv ==
  /\ arrivedU \in Seq(UartChars) /\ rx \in Seq(UartChars) /\ printedU \in Seq(UartChars)
  /\ TakenU \in Nat /\ \A j \in 1..Len(rx) : rx[j] = arrivedU[TakenU + j]
  /\ Len(printedU) = Cardinality(ToPrint(TakenU))
  /\ \A i \in ToPrint(TakenU) : printedU[Cardinality(ToPrint(i))] = arrivedU[i]
  /\ \A i \in 1..Len(printedU) : printedU[i] = Quit => i = Len(printedU) /\ uPc = "exit"

WireInv ==
  /\ uNext \in 1..(Len(UartMessage) + 1) /\ crSent \in BOOLEAN
  /\ crSent => uNext \in 1..Len(UartMessage)
  /\ \E S : sent \in Seq(S)
  /\ MessageOnLine

LEMMA OrderedGrows ==
  ASSUME NEW s \in Seq(Nat), NEW k \in Nat, Ordered(s), \A i \in 1..Len(s) : s[i] <= k
  PROVE  /\ Append(s, k) \in Seq(Nat) /\ Ordered(Append(s, k)) /\ Append(s, k) # <<>>
         /\ Append(s, k)[Len(Append(s, k))] = k
         /\ \A i \in 1..Len(Append(s, k)) : Append(s, k)[i] <= k
<1> DEFINE t == Append(s, k)
<1>1. /\ t \in Seq(Nat) /\ Len(t) = Len(s) + 1 /\ t[Len(s) + 1] = k /\ Len(s) \in Nat
      /\ \A i \in 1..Len(s) : t[i] = s[i]
  BY AppendProperties
<1> HIDE DEF t
<1>2. t # <<>>
  <2>1. Len(t) # 0
    BY <1>1
  <2> QED BY <2>1
<1>3. \A i \in 1..Len(t) : t[i] <= k
  <2> TAKE i \in 1..Len(t)
  <2>1. CASE i \in 1..Len(s)
    BY <1>1, <2>1
  <2>2. CASE i = Len(s) + 1
    <3>1. t[i] = k
      BY <1>1, <2>2
    <3> QED BY <3>1
  <2> QED BY <1>1, <2>1, <2>2
<1>4. Ordered(t)
  <2> SUFFICES ASSUME NEW i \in 1..(Len(t) - 1) PROVE t[i] <= t[i + 1]
    BY DEF Ordered
  <2>1. CASE i = Len(s)
    BY <1>1, <2>1
  <2>2. CASE i # Len(s)
    <3>1. i \in 1..(Len(s) - 1) /\ i + 1 \in 1..Len(s)
      BY <1>1, <2>2
    <3> QED BY <1>1, <3>1 DEF Ordered
  <2> QED BY <2>1, <2>2
<1> QED BY <1>1, <1>2, <1>3, <1>4 DEF t

LEMMA KeyStep ==
  ASSUME KeyInv, KeyCode \/ interrupt_handle \/ KeyClient
  PROVE  KeyInv'
<1>1. CASE KeyCode
  <2>1. /\ keyCodes' = keyCodes + 1 /\ dataPort' = keyCodes + 1 /\ kIrq' = TRUE
        /\ UNCHANGED <<seenByDriver, seenByClient>>
    BY <1>1 DEF KeyCode
  <2>2. \A s \in Seq(Nat) : (\A i \in 1..Len(s) : s[i] <= keyCodes)
                            => \A i \in 1..Len(s) : s[i] <= keyCodes + 1
    BY DEF KeyInv
  <2> QED BY <2>1, <2>2 DEF KeyInv, Ordered
<1>2. CASE interrupt_handle
  <2>1. UNCHANGED <<keyCodes, callback, seenByClient, dataPort>>
    BY <1>2 DEF interrupt_handle, read_scancode
  <2>2. /\ seenByDriver' \in {seenByDriver, Append(seenByDriver, dataPort)}
        /\ (kIrq \/ driver = "emit" \/ keypress) => (kIrq' \/ driver' = "emit" \/ keypress')
    <3>1. CASE driver = "idle" /\ driver' = "emit" /\ seenByDriver' = Append(seenByDriver, dataPort)
      BY <3>1
    <3>2. CASE driver = "emit" /\ keypress' = TRUE /\ UNCHANGED <<kIrq, seenByDriver>>
      BY <3>2
    <3>3. CASE driver = "ack" /\ driver' = "idle" /\ UNCHANGED <<kIrq, keypress, seenByDriver>>
      BY <3>3
    <3> QED BY <1>2, <3>1, <3>2, <3>3 DEF interrupt_handle
  <2>3. /\ seenByDriver' \in Seq(Nat) /\ Ordered(seenByDriver')
        /\ \A i \in 1..Len(seenByDriver') : seenByDriver'[i] <= keyCodes
    BY <2>2, OrderedGrows DEF KeyInv
  <2> QED BY <2>1, <2>2, <2>3 DEF KeyInv, LastShown, Ordered
<1>3. CASE KeyClient
  <2>1. UNCHANGED <<keyCodes, kIrq, driver, seenByDriver, dataPort>>
    BY <1>3 DEF KeyClient, read_scancode
  <2>2. CASE UNCHANGED seenByClient /\ callback # "run"
             /\ (keypress => keypress' \/ callback' = "run")
    BY <2>1, <2>2 DEF KeyInv, LastShown, Ordered
  <2>3. CASE seenByClient' = Append(seenByClient, dataPort)
    <3>1. /\ seenByClient' \in Seq(Nat) /\ Ordered(seenByClient')
          /\ \A i \in 1..Len(seenByClient') : seenByClient'[i] <= keyCodes
          /\ seenByClient' # <<>> /\ seenByClient'[Len(seenByClient')] = keyCodes
      BY <2>3, OrderedGrows DEF KeyInv
    <3> QED BY <2>1, <3>1 DEF KeyInv, LastShown, Ordered
  <2> QED BY <1>3, <2>2, <2>3 DEF KeyClient, Register
<1> QED BY <1>1, <1>2, <1>3

\* What a character that is read does to the characters printed.
LEMMA CharPrinted ==
  ASSUME UartInv, NEW n \in Nat, n = TakenU, NEW c \in UartChars, c = arrivedU[n + 1],
         NEW p, p = IF dApp = "uart_cogent" /\ c = Blank THEN printedU ELSE Append(printedU, c)
  PROVE  /\ p \in Seq(UartChars) /\ Len(p) = Cardinality(ToPrint(n + 1))
         /\ \A i \in ToPrint(n + 1) : p[Cardinality(ToPrint(i))] = arrivedU[i]
<1>1. /\ printedU \in Seq(UartChars) /\ Len(printedU) = Cardinality(ToPrint(n))
      /\ \A i \in ToPrint(n) : printedU[Cardinality(ToPrint(i))] = arrivedU[i]
  BY DEF UartInv
<1>2. \A m \in Nat : IsFiniteSet(ToPrint(m)) /\ Cardinality(ToPrint(m)) \in Nat
  <2> TAKE m \in Nat
  <2>1. ToPrint(m) \subseteq 1..m
    BY DEF ToPrint
  <2>2. IsFiniteSet(1..m)
    BY IntervalSize
  <2> QED BY <2>1, <2>2, FS_Subset, FS_CardinalityType
<1>3. \A m \in Nat : \A i \in ToPrint(m) : Cardinality(ToPrint(i)) \in 1..Cardinality(ToPrint(m))
  <2> SUFFICES ASSUME NEW m \in Nat, NEW i \in ToPrint(m)
      PROVE  Cardinality(ToPrint(i)) \in 1..Cardinality(ToPrint(m))
    OBVIOUS
  <2>1. i \in 1..m /\ i \in ToPrint(i)
    BY DEF ToPrint
  <2>0. ToPrint(i) \subseteq ToPrint(m)
    <3>1. \A j \in 1..i : j \in 1..m
      BY <2>1
    <3> QED BY <3>1 DEF ToPrint
  <2>2. Cardinality(ToPrint(i)) <= Cardinality(ToPrint(m))
    BY <1>2, <2>0, FS_Subset
  <2>3. Cardinality(ToPrint(i)) # 0
    BY <1>2, <2>1, FS_EmptySet
  <2> QED BY <1>2, <2>1, <2>2, <2>3
<1>4. CASE dApp = "uart_cogent" /\ c = Blank
  <2>1. ToPrint(n + 1) = ToPrint(n)
    <3>1. 1..(n + 1) = (1..n) \cup {n + 1} /\ arrivedU[n + 1] = Blank
      BY <1>4
    <3> QED BY <1>4, <3>1 DEF ToPrint
  <2> QED BY <1>1, <1>4, <2>1
<1>5. CASE dApp # "uart_cogent" \/ c # Blank
  <2>1. p = Append(printedU, c)
    BY <1>5
  <2>2. /\ p \in Seq(UartChars) /\ Len(p) = Len(printedU) + 1 /\ p[Len(printedU) + 1] = c
        /\ \A i \in 1..Len(printedU) : p[i] = printedU[i]
    BY <1>1, <2>1, AppendProperties
  <2>3. ToPrint(n + 1) = ToPrint(n) \cup {n + 1} /\ n + 1 \notin ToPrint(n)
    BY <1>5 DEF ToPrint
  <2>4. Cardinality(ToPrint(n + 1)) = Cardinality(ToPrint(n)) + 1
    BY <1>2, <2>3, FS_AddElement
  <2>5. ASSUME NEW i \in ToPrint(n + 1) PROVE p[Cardinality(ToPrint(i))] = arrivedU[i]
    <3>1. CASE i = n + 1
      BY <1>1, <2>2, <2>4, <3>1
    <3>2. CASE i \in ToPrint(n)
      <4>1. Cardinality(ToPrint(i)) \in 1..Len(printedU)
        BY <1>1, <1>3, <3>2
      <4> QED BY <1>1, <2>2, <3>2, <4>1
    <3> QED BY <2>3, <3>1, <3>2
  <2> QED BY <1>1, <2>2, <2>4, <2>5
<1> QED BY <1>4, <1>5

LEMMA UartReadInv ==
  ASSUME UartInv, UartRead
  PROVE  UartInv'
<1>1. /\ uPc = "read" /\ UNCHANGED <<dApp, arrivedU>> /\ TakenU \in Nat
      /\ arrivedU \in Seq(UartChars) /\ rx \in Seq(UartChars) /\ printedU \in Seq(UartChars)
      /\ \A j \in 1..Len(rx) : rx[j] = arrivedU[TakenU + j]
      /\ Len(arrivedU) \in Nat /\ Len(rx) \in Nat
      /\ \A i \in 1..Len(printedU) : printedU[i] # Quit
  BY DEF UartRead, UartInv
<1>2. \A m : ToPrint(m)' = ToPrint(m)
  BY <1>1 DEF ToPrint
<1>3. CASE NoCharacter /\ Printed(Blank) /\ UNCHANGED uPc
  <2>1. UNCHANGED <<rx, uPc, printedU>>
    BY <1>3 DEF Printed, NoCharacter
  <2> QED BY <1>1, <2>1 DEF UartInv, TakenU, ToPrint
<1>4. CASE /\ uart_get_char /\ Printed(Head(rx))
           /\ uPc' = IF Head(rx) = Quit THEN "exit" ELSE "read"
  <2> DEFINE n == TakenU
             c == Head(rx)
  <2>1. /\ rx # <<>> /\ rx' = Tail(rx) /\ c = rx[1] /\ c \in UartChars /\ Len(rx) > 0
        /\ printedU' = IF dApp = "uart_cogent" /\ c = Blank THEN printedU ELSE Append(printedU, c)
    BY <1>1, <1>4 DEF uart_get_char, Printed
  <2>2. /\ rx' \in Seq(UartChars) /\ Len(rx') = Len(rx) - 1
        /\ \A j \in 1..(Len(rx) - 1) : rx'[j] = rx[j + 1]
    BY <1>1, <2>1, HeadTailProperties
  <2>3. n \in Nat /\ n = Len(arrivedU) - Len(rx) /\ TakenU' = n + 1
    BY <1>1, <2>2 DEF TakenU
  <2>4. c = arrivedU[n + 1]
    <3>1. 1 \in 1..Len(rx)
      BY <1>1, <2>1
    <3>2. rx[1] = arrivedU[TakenU + 1]
      BY <1>1, <3>1
    <3> QED BY <2>1, <3>2
  <2> HIDE DEF n, c
  <2>5. /\ printedU' \in Seq(UartChars) /\ Len(printedU') = Cardinality(ToPrint(n + 1))
        /\ \A i \in ToPrint(n + 1) : printedU'[Cardinality(ToPrint(i))] = arrivedU[i]
    <3>1. \A p : p = (IF dApp = "uart_cogent" /\ c = Blank THEN printedU ELSE Append(printedU, c))
            => /\ p \in Seq(UartChars) /\ Len(p) = Cardinality(ToPrint(n + 1))
               /\ \A i \in ToPrint(n + 1) : p[Cardinality(ToPrint(i))] = arrivedU[i]
      BY <2>1, <2>3, <2>4, CharPrinted DEF n
    <3> QED BY <2>1, <3>1
  <2>6. \A j \in 1..Len(rx') : rx'[j] = arrivedU'[TakenU' + j]
    <3> TAKE j \in 1..Len(rx')
    <3>1. j + 1 \in 1..Len(rx) /\ rx'[j] = rx[j + 1] /\ n + (j + 1) = TakenU' + j
      BY <1>1, <2>2, <2>3
    <3> QED BY <1>1, <3>1 DEF n
  <2>7. \A i \in 1..Len(printedU') : printedU'[i] = Quit => i = Len(printedU') /\ uPc' = "exit"
    <3>1. CASE printedU' = printedU
      BY <1>1, <3>1
    <3>2. CASE printedU' = Append(printedU, c)
      <4>1. /\ Len(printedU') = Len(printedU) + 1 /\ printedU'[Len(printedU) + 1] = c
            /\ \A i \in 1..Len(printedU) : printedU'[i] = printedU[i]
        BY <1>1, <2>1, <3>2, AppendProperties
      <4>2. c = Quit => uPc' = "exit"
        BY <1>4 DEF c
      <4> QED BY <1>1, <4>1, <4>2
    <3> QED BY <2>1, <3>1, <3>2
  <2>8. /\ Len(printedU') = Cardinality(ToPrint(TakenU)')
        /\ \A i \in ToPrint(TakenU)' : printedU'[Cardinality(ToPrint(i)')] = arrivedU'[i]
    BY <1>1, <2>3, <2>5 DEF ToPrint
  <2>9. arrivedU' \in Seq(UartChars)
    BY <1>1 DEF UartInv
  <2>10. TakenU' \in Nat /\ rx' \in Seq(UartChars) /\ printedU' \in Seq(UartChars)
    BY <2>2, <2>3, <2>5
  <2> QED BY <2>6, <2>7, <2>8, <2>9, <2>10 DEF UartInv
<1> QED BY <1>3, <1>4 DEF UartRead

LEMMA UartReceivesInv ==
  ASSUME UartInv, NEW c \in UartChars, UartReceives(c)
  PROVE  UartInv'
<1>1. /\ rx' = Append(rx, c) /\ arrivedU' = Append(arrivedU, c) /\ TakenU \in Nat
      /\ UNCHANGED <<dApp, uPc, printedU>>
      /\ arrivedU \in Seq(UartChars) /\ rx \in Seq(UartChars)
      /\ Len(arrivedU) \in Nat /\ Len(rx) \in Nat /\ TakenU = Len(arrivedU) - Len(rx)
  BY DEF UartReceives, UartInv, TakenU
<1>2. /\ rx' \in Seq(UartChars) /\ Len(rx') = Len(rx) + 1 /\ rx'[Len(rx) + 1] = c
      /\ \A j \in 1..Len(rx) : rx'[j] = rx[j]
  BY <1>1, AppendProperties
<1>3. /\ arrivedU' \in Seq(UartChars) /\ Len(arrivedU') = Len(arrivedU) + 1
      /\ arrivedU'[Len(arrivedU) + 1] = c /\ \A j \in 1..Len(arrivedU) : arrivedU'[j] = arrivedU[j]
  BY <1>1, AppendProperties
<1>4. TakenU' = TakenU
  BY <1>1, <1>2, <1>3 DEF TakenU
<1>5. \A j \in 1..Len(rx') : rx'[j] = arrivedU'[TakenU' + j]
  <2> TAKE j \in 1..Len(rx')
  <2>1. CASE j = Len(rx) + 1
    BY <1>1, <1>2, <1>3, <1>4, <2>1
  <2>2. CASE j \in 1..Len(rx)
    <3>1. TakenU + j \in 1..Len(arrivedU)
      BY <1>1, <2>2
    <3> QED BY <1>2, <1>3, <1>4, <2>2, <3>1 DEF UartInv
  <2>3. j \in 1..(Len(rx) + 1)
    BY <1>2
  <2>4. j = Len(rx) + 1 \/ j \in 1..Len(rx)
    BY <1>1, <2>3
  <2> QED BY <2>1, <2>2, <2>4
<1>6. \A i \in 1..TakenU : arrivedU'[i] = arrivedU[i]
  BY <1>1, <1>3
<1>7. \A m \in 0..TakenU : ToPrint(m)' = ToPrint(m)
  BY <1>1, <1>6 DEF ToPrint
<1>8. /\ Len(printedU') = Cardinality(ToPrint(TakenU)')
      /\ \A i \in ToPrint(TakenU)' : printedU'[Cardinality(ToPrint(i)')] = arrivedU'[i]
  <2>1. ToPrint(TakenU)' = ToPrint(TakenU)
    BY <1>1, <1>4, <1>6 DEF ToPrint
  <2>2. \A i \in ToPrint(TakenU) : i \in 1..TakenU /\ ToPrint(i)' = ToPrint(i)
    BY <1>7 DEF ToPrint
  <2>3. /\ Len(printedU) = Cardinality(ToPrint(TakenU))
        /\ \A i \in ToPrint(TakenU) : printedU[Cardinality(ToPrint(i))] = arrivedU[i]
    BY DEF UartInv
  <2> QED BY <1>1, <1>6, <2>1, <2>2, <2>3
<1> QED BY <1>1, <1>2, <1>3, <1>4, <1>5, <1>8 DEF UartInv

\* The next character of the message is sent after those before it.
LEMMA SentAtGrows ==
  ASSUME NEW n \in Nat
  PROVE  /\ Cardinality(LineEndsUpTo(n)) \in Nat
         /\ \A i \in 1..n : SentAt(i) \in 1..SentAt(n)
         /\ \A i \in LineEndsUpTo(n) : SentAt(i) - 1 \in 1..SentAt(n)
         /\ EndsLine(UartMessage[n + 1]) =>
              LineEndsUpTo(n + 1) = LineEndsUpTo(n) \cup {n + 1} /\ SentAt(n + 1) = SentAt(n) + 2
         /\ ~EndsLine(UartMessage[n + 1]) =>
              LineEndsUpTo(n + 1) = LineEndsUpTo(n) /\ SentAt(n + 1) = SentAt(n) + 1
<1>1. \A m \in Nat : /\ IsFiniteSet(LineEndsUpTo(m)) /\ Cardinality(LineEndsUpTo(m)) \in Nat
                     /\ LineEndsUpTo(m) \subseteq 1..m
  <2> TAKE m \in Nat
  <2>1. LineEndsUpTo(m) \subseteq 1..m
    BY DEF LineEndsUpTo
  <2>2. IsFiniteSet(1..m)
    BY IntervalSize
  <2> QED BY <2>1, <2>2, FS_Subset, FS_CardinalityType
<1>2. \A i \in 1..n : SentAt(i) \in 1..SentAt(n)
  <2> SUFFICES ASSUME NEW i \in 1..n PROVE SentAt(i) \in 1..SentAt(n)
    OBVIOUS
  <2>1. LineEndsUpTo(i) \subseteq LineEndsUpTo(n)
    <3>1. \A j \in 1..i : j \in 1..n
      OBVIOUS
    <3> QED BY <3>1 DEF LineEndsUpTo
  <2>2. Cardinality(LineEndsUpTo(i)) <= Cardinality(LineEndsUpTo(n))
    BY <1>1, <2>1, FS_Subset
  <2>3. Cardinality(LineEndsUpTo(i)) \in Nat /\ Cardinality(LineEndsUpTo(n)) \in Nat
    BY <1>1
  <2> QED BY <2>2, <2>3 DEF SentAt
<1>3. \A i \in LineEndsUpTo(n) : SentAt(i) - 1 \in 1..SentAt(n)
  <2> SUFFICES ASSUME NEW i \in LineEndsUpTo(n) PROVE SentAt(i) - 1 \in 1..SentAt(n)
    OBVIOUS
  <2>1. i \in 1..n /\ i \in LineEndsUpTo(i)
    BY DEF LineEndsUpTo
  <2>2. Cardinality(LineEndsUpTo(i)) # 0 /\ Cardinality(LineEndsUpTo(i)) \in Nat
    BY <1>1, <2>1, FS_EmptySet
  <2>3. SentAt(i) \in 1..SentAt(n) /\ SentAt(n) \in Nat
    BY <1>1, <1>2, <2>1 DEF SentAt
  <2>4. SentAt(i) >= 2
    BY <2>1, <2>2 DEF SentAt
  <2> QED BY <2>3, <2>4
<1>4. 1..(n + 1) = (1..n) \cup {n + 1} /\ n + 1 \notin 1..n
  OBVIOUS
<1>5. ASSUME EndsLine(UartMessage[n + 1])
      PROVE  LineEndsUpTo(n + 1) = LineEndsUpTo(n) \cup {n + 1} /\ SentAt(n + 1) = SentAt(n) + 2
  <2>1. LineEndsUpTo(n + 1) = LineEndsUpTo(n) \cup {n + 1} /\ n + 1 \notin LineEndsUpTo(n)
    BY <1>4, <1>5 DEF LineEndsUpTo
  <2>2. Cardinality(LineEndsUpTo(n + 1)) = Cardinality(LineEndsUpTo(n)) + 1
    BY <1>1, <2>1, FS_AddElement
  <2>3. Cardinality(LineEndsUpTo(n)) \in Nat
    BY <1>1
  <2> QED BY <2>1, <2>2, <2>3 DEF SentAt
<1>6. ASSUME ~EndsLine(UartMessage[n + 1])
      PROVE  LineEndsUpTo(n + 1) = LineEndsUpTo(n) /\ SentAt(n + 1) = SentAt(n) + 1
  <2>1. LineEndsUpTo(n + 1) = LineEndsUpTo(n)
    BY <1>4, <1>6 DEF LineEndsUpTo
  <2>2. Cardinality(LineEndsUpTo(n)) \in Nat
    BY <1>1
  <2> QED BY <2>1, <2>2 DEF SentAt
<1> QED BY <1>1, <1>2, <1>3, <1>5, <1>6

LEMMA UartWriteInv ==
  ASSUME WireInv, UartWrite
  PROVE  WireInv'
<1> DEFINE n == uNext - 1
<1>1. /\ uPc = "write" /\ n \in 0..Len(UartMessage) /\ uNext = n + 1
      /\ Len(UartMessage) \in Nat /\ n \in Nat /\ crSent \in BOOLEAN /\ UNCHANGED dApp
  BY CharDevicesAssumption DEF UartWrite, WireInv
<1>2. \A m : LineEndsUpTo(m)' = LineEndsUpTo(m) /\ SentAt(m)' = SentAt(m)
  BY <1>1 DEF LineEndsUpTo, SentAt, EndsLine
<1>3. \A c : EndsLine(c)' = EndsLine(c)
  BY <1>1 DEF EndsLine
<1>4. /\ Len(sent) = SentAt(n) + (IF crSent THEN 1 ELSE 0)
      /\ \A i \in 1..n : sent[SentAt(i)] = UartMessage[i]
      /\ \A i \in LineEndsUpTo(n) : sent[SentAt(i) - 1] = Return
      /\ crSent => sent[Len(sent)] = Return /\ EndsLine(UartMessage[n + 1])
  BY <1>1 DEF WireInv, MessageOnLine
<1>5. PICK S : sent \in Seq(S)
  BY DEF WireInv
<1>6. /\ Cardinality(LineEndsUpTo(n)) \in Nat /\ SentAt(n) \in Nat
      /\ \A i \in 1..n : SentAt(i) \in 1..SentAt(n)
      /\ \A i \in LineEndsUpTo(n) : SentAt(i) - 1 \in 1..SentAt(n)
  <2>1. Cardinality(LineEndsUpTo(n)) \in Nat
    BY <1>1, SentAtGrows
  <2>2. SentAt(n) \in Nat
    BY <1>1, <2>1 DEF SentAt
  <2> QED BY <1>1, <2>1, <2>2, SentAtGrows
<1>7. CASE uNext > Len(UartMessage)
  <2>1. uPc' = "read" /\ UNCHANGED <<sent, uNext, crSent>> /\ n = Len(UartMessage)
    BY <1>1, <1>7 DEF UartWrite
  <2>2. ~crSent
    BY <1>1, <1>7 DEF WireInv
  <2> QED BY <1>1, <1>2, <1>3, <1>5, <2>1, <2>2 DEF WireInv, MessageOnLine
<1>8. ASSUME NEW c, Transmit(c), n < Len(UartMessage)
      PROVE  /\ \E R : sent' \in Seq(R)
             /\ Len(sent') = Len(sent) + 1 /\ sent'[Len(sent) + 1] = c
             /\ \A i \in 1..Len(sent) : sent'[i] = sent[i]
  <2>1. sent \in Seq(S \cup {c}) /\ c \in S \cup {c}
    BY <1>5
  <2> QED BY <1>8, <2>1, AppendProperties DEF Transmit
<1> DEFINE c == UartMessage[n + 1]
<1>10. /\ n < Len(UartMessage) => n + 1 \in 1..Len(UartMessage)
       /\ \A i \in 1..(n + 1) : i \in 1..n \/ i = n + 1
  BY <1>1
<1>9. CASE uNext <= Len(UartMessage)
  <2>1. uart_put_char(c) /\ UNCHANGED uPc /\ n < Len(UartMessage) /\ n + 1 = uNext
    BY <1>1, <1>9 DEF UartWrite
  <2> HIDE DEF n, c
  <2>2. CASE EndsLine(c) /\ ~crSent /\ Transmit(Return) /\ crSent' = TRUE /\ UNCHANGED uNext
    <3>1. /\ \E R : sent' \in Seq(R)
          /\ Len(sent') = SentAt(n) + 1 /\ sent'[SentAt(n) + 1] = Return
          /\ \A i \in 1..SentAt(n) : sent'[i] = sent[i]
      <4>1. Len(sent) = SentAt(n)
        BY <1>4, <1>6, <2>2
      <4> QED BY <1>8, <2>1, <2>2, <4>1
    <3>2. /\ \A i \in 1..n : sent'[SentAt(i)] = UartMessage[i]
          /\ \A i \in LineEndsUpTo(n) : sent'[SentAt(i) - 1] = Return
      BY <1>4, <1>6, <3>1
    <3>3. MessageOnLine'
      BY <1>1, <1>2, <1>3, <2>1, <2>2, <3>1, <3>2 DEF MessageOnLine, n, c
    <3> QED BY <1>1, <1>10, <2>1, <2>2, <3>1, <3>3 DEF WireInv
  <2>3. CASE (EndsLine(c) => crSent) /\ Transmit(c) /\ crSent' = FALSE /\ uNext' = uNext + 1
    <3>1. /\ \E R : sent' \in Seq(R)
          /\ Len(sent') = Len(sent) + 1 /\ sent'[Len(sent) + 1] = c
          /\ \A i \in 1..Len(sent) : sent'[i] = sent[i]
      BY <1>8, <2>1, <2>3
    <3>2. /\ \A i \in 1..n : sent'[SentAt(i)] = UartMessage[i]
          /\ \A i \in LineEndsUpTo(n) : sent'[SentAt(i) - 1] = Return
      <4>1. SentAt(n) <= Len(sent) /\ \A i \in 1..SentAt(n) : i \in 1..Len(sent)
        BY <1>4, <1>6
      <4> QED BY <1>4, <1>6, <3>1, <4>1
    <3>3. /\ Len(sent') = SentAt(n + 1) /\ sent'[SentAt(n + 1)] = c
          /\ \A i \in LineEndsUpTo(n + 1) : sent'[SentAt(i) - 1] = Return
      <4>1. CASE EndsLine(c)
        <5>1. /\ LineEndsUpTo(n + 1) = LineEndsUpTo(n) \cup {n + 1} /\ SentAt(n + 1) = SentAt(n) + 2
              /\ Len(sent) = SentAt(n) + 1 /\ sent[Len(sent)] = Return
          BY <1>1, <1>4, <2>3, <4>1, SentAtGrows DEF c
        <5>2. Len(sent) + 1 = SentAt(n + 1) /\ Len(sent) \in 1..Len(sent)
          BY <1>6, <5>1
        <5>3. sent'[SentAt(n + 1) - 1] = Return
          BY <1>6, <3>1, <5>1, <5>2
        <5> QED BY <3>1, <3>2, <5>1, <5>2, <5>3
      <4>2. CASE ~EndsLine(c)
        <5>1. ~crSent /\ LineEndsUpTo(n + 1) = LineEndsUpTo(n) /\ SentAt(n + 1) = SentAt(n) + 1
          BY <1>1, <1>4, <4>2, SentAtGrows DEF c
        <5>2. Len(sent) + 1 = SentAt(n + 1)
          BY <1>4, <1>6, <5>1
        <5> QED BY <3>1, <3>2, <5>1, <5>2
      <4> QED BY <4>1, <4>2
    <3>4. \A i \in 1..(n + 1) : sent'[SentAt(i)] = UartMessage[i]
      BY <1>10, <3>2, <3>3 DEF c
    <3>5. uNext' - 1 = n + 1 /\ uNext' \in 1..(Len(UartMessage) + 1) /\ Len(sent') = SentAt(n + 1) + 0
      <4>1. SentAt(n + 1) \in Nat
        BY <1>1, SentAtGrows DEF SentAt
      <4> QED BY <1>1, <2>1, <2>3, <3>3, <4>1
    <3>6. MessageOnLine'
      BY <1>1, <1>2, <2>1, <2>3, <3>3, <3>4, <3>5 DEF MessageOnLine
    <3> QED BY <1>1, <2>3, <3>1, <3>5, <3>6 DEF WireInv
  <2> QED BY <2>1, <2>2, <2>3 DEF uart_put_char
<1> QED BY <1>1, <1>7, <1>9

CharInv == KeyInv /\ UartInv /\ WireInv

LEMMA CharStep ==
  ASSUME CharInv, CharDevicesNext \/ UNCHANGED deviceVars
  PROVE  CharInv'
<1>1. ASSUME UNCHANGED keyVars PROVE KeyInv'
  BY <1>1 DEF CharInv, KeyInv, LastShown, Ordered, keyVars
<1>2. ASSUME UNCHANGED <<dApp, rx, arrivedU, printedU>>, uPc' = uPc \/ uPc = "write" PROVE UartInv'
  <2>1. \A m : ToPrint(m)' = ToPrint(m)
    BY <1>2 DEF ToPrint
  <2>2. TakenU' = TakenU
    BY <1>2 DEF TakenU
  <2>3. \A i \in 1..Len(printedU) : printedU[i] = Quit => i = Len(printedU) /\ uPc' = "exit"
    BY <1>2 DEF CharInv, UartInv
  <2> QED BY <1>2, <2>1, <2>2, <2>3 DEF CharInv, UartInv
<1>3. ASSUME UNCHANGED <<dApp, sent, uNext, crSent>>, uPc' = uPc \/ uPc = "read" PROVE WireInv'
  <2>1. \A m : LineEndsUpTo(m)' = LineEndsUpTo(m) /\ SentAt(m)' = SentAt(m)
    BY <1>3 DEF LineEndsUpTo, SentAt, EndsLine
  <2>2. \A c : EndsLine(c)' = EndsLine(c)
    BY <1>3 DEF EndsLine
  <2>3. MessageOnLine'
    BY <1>3, <2>1, <2>2 DEF CharInv, WireInv, MessageOnLine
  <2> QED BY <1>3, <2>3 DEF CharInv, WireInv
<1>4. CASE KeyCode \/ interrupt_handle \/ KeyClient
  <2>1. UNCHANGED <<dApp, sent, rx, arrivedU, uPc, uNext, crSent, printedU>>
    BY <1>4 DEF KeyCode, interrupt_handle, KeyClient, uartVars
  <2> QED BY <1>2, <1>3, <1>4, <2>1, KeyStep DEF CharInv
<1>5. CASE UartSends
  BY <1>1, <1>2, <1>3, <1>5 DEF CharInv, UartSends
<1>6. CASE UartWrite
  BY <1>1, <1>2, <1>6, UartWriteInv DEF CharInv, UartWrite
<1>7. CASE UartRead
  <2>1. UNCHANGED <<dApp, keyVars, sent, uNext, crSent>> /\ uPc = "read"
    BY <1>7 DEF UartRead
  <2> QED BY <1>1, <1>3, <1>7, <2>1, UartReadInv DEF CharInv
<1>8. ASSUME NEW c \in UartChars, UartReceives(c) PROVE CharInv'
  <2>1. UNCHANGED <<dApp, keyVars, sent, uPc, uNext, crSent>>
    BY <1>8 DEF UartReceives
  <2> QED BY <1>1, <1>3, <1>8, <2>1, UartReceivesInv DEF CharInv
<1>9. CASE UNCHANGED deviceVars
  BY <1>1, <1>2, <1>3, <1>9 DEF CharInv, deviceVars, uartVars
<1> QED BY <1>4, <1>5, <1>6, <1>7, <1>8, <1>9 DEF CharDevicesNext

\* The keyboard's handler and client report codes in order, and at rest the
\* client has shown the last one; the UART's client has its message sent, in
\* uart_cogent with a carriage return before each line feed and in uart without,
\* and prints what came, up to the first 'q', for every message.
THEOREM DevicesKeepOrder == Spec => []DevicesInOrder
<1>1. Init => CharInv
  <2> SUFFICES ASSUME CharDevicesInit PROVE CharInv
    BY DEF Init
  <2>1. <<>> \in Seq(Nat) /\ <<>> \in Seq(UartChars) /\ Len(<<>>) = 0
    OBVIOUS
  <2>2. KeyInv
    BY <2>1 DEF CharDevicesInit, KeyInv, Ordered
  <2>3. TakenU = 0 /\ ToPrint(0) = {} /\ Cardinality({}) = 0
    BY <2>1, FS_EmptySet DEF CharDevicesInit, TakenU, ToPrint
  <2>4. UartInv
    <3>1. rx = <<>> /\ arrivedU = <<>> /\ printedU = <<>>
      BY DEF CharDevicesInit
    <3>2. \A i : i \notin 1..0
      OBVIOUS
    <3> QED BY <2>1, <2>3, <3>1, <3>2 DEF UartInv
  <2>5. WireInv
    <3>1. uNext = 1 /\ ~crSent /\ crSent \in BOOLEAN /\ sent = <<>> /\ uPc = "write"
      BY DEF CharDevicesInit
    <3>2. LineEndsUpTo(0) = {}
      BY DEF LineEndsUpTo
    <3>3. SentAt(0) = 0
      BY <3>2, FS_EmptySet DEF SentAt
    <3>4. MessageOnLine
      <4>1. uNext - 1 = 0 /\ \A i : i \notin 1..0
        BY <3>1
      <4>2. Len(sent) = SentAt(uNext - 1) + (IF crSent THEN 1 ELSE 0)
        BY <2>1, <3>1, <3>3, <4>1
      <4> QED BY <3>1, <3>2, <4>1, <4>2 DEF MessageOnLine
    <3>5. Len(UartMessage) \in Nat /\ sent \in Seq(Nat)
      BY <2>1, <3>1, CharDevicesAssumption
    <3> QED BY <3>1, <3>4, <3>5 DEF WireInv
  <2> QED BY <2>2, <2>4, <2>5 DEF CharInv
<1>2. CharInv /\ [Next]_vars => CharInv'
  <2>1. [Next]_vars => CharDevicesNext \/ UNCHANGED deviceVars
    BY DEF Next, vars
  <2> QED BY <2>1, CharStep
<1>3. CharInv => DevicesInOrder
  <2> SUFFICES ASSUME CharInv PROVE DevicesInOrder
    OBVIOUS
  <2>1. Quiet /\ keyCodes > 0 => LastShown
    BY DEF CharInv, KeyInv, Quiet
  <2> QED BY <2>1 DEF CharInv, KeyInv, UartInv, WireInv, DevicesInOrder, LastShown
<1> QED BY <1>1, <1>2, <1>3, PTL DEF Spec
-----------------------------------------------------------------------------
(* The text displays: vgatest                                                *)

HIDE SerialAssumption
USE TerminalAssumption

ScreenSize == VGA_WIDTH * VGA_HEIGHT
Cursor == terminal_row * VGA_WIDTH + terminal_column

\* The cursor is where the next character belongs: as far as so many characters
\* reach, counted from the top when the screen is full.
VgaInv ==
  /\ terminal_row \in 0..(VGA_HEIGHT - 1) /\ terminal_column \in 0..(VGA_WIDTH - 1)
  /\ vgaNext \in Nat \ {0} /\ Cursor = (vgaNext - 1) % ScreenSize
  /\ DOMAIN terminal_buffer = 0..(ScreenSize - 1)
  /\ VgaKept

LEMMA TimesMonotone ==
  ASSUME NEW a \in Nat, NEW b \in Nat, a <= b, NEW w \in Nat
  PROVE  a * w <= b * w /\ a * w \in Nat /\ (a + 1) * w = a * w + w
<1>1. b = a + (b - a) /\ b - a \in Nat
  OBVIOUS
<1> DEFINE k == b - a
<1>2. b = a + k /\ k \in Nat
  BY <1>1
<1> HIDE DEF k
<1>3. (a + k) * w = a * w + k * w /\ k * w \in Nat /\ a * w \in Nat /\ (a + 1) * w = a * w + w
  BY <1>2
<1> QED BY <1>2, <1>3

\* The remainder of the next number.
LEMMA NextRemainder ==
  ASSUME NEW p \in Nat \ {0}, NEW n \in Nat
  PROVE  /\ n % p \in 0..(p - 1)
         /\ (n + 1) % p = IF (n % p) + 1 = p THEN 0 ELSE (n % p) + 1
<1> DEFINE q == n \div p
           r == n % p
<1>1. n = p * q + r /\ r \in 0..(p - 1) /\ q \in Int
  OBVIOUS
<1>2. n + 1 = p * ((n + 1) \div p) + ((n + 1) % p) /\ (n + 1) % p \in 0..(p - 1)
      /\ (n + 1) \div p \in Int
  OBVIOUS
<1> HIDE DEF q, r
<1> DEFINE t == (n + 1) \div p
           u == (n + 1) % p
<1>3. p * q + r + 1 = p * t + u /\ u \in 0..(p - 1) /\ t \in Int
  BY <1>1, <1>2
<1> HIDE DEF t, u
<1>4. u = IF r + 1 = p THEN 0 ELSE r + 1
  <2> DEFINE e == t - q
  <2>1. e \in Int /\ p * e = p * t - p * q
    BY <1>1, <1>3
  <2> HIDE DEF e
  <2>2. p * e = r + 1 - u
    BY <1>1, <1>3, <2>1
  <2>3. CASE e >= 2
    <3>1. p * e >= p * 2
      BY <2>1, <2>3
    <3> QED BY <1>1, <1>3, <2>2, <3>1
  <2>4. CASE e = 1
    BY <1>1, <1>3, <2>2, <2>4
  <2>5. CASE e = 0
    BY <1>1, <1>3, <2>2, <2>5
  <2>6. CASE e <= -1
    <3>1. p * e <= p * (-1)
      BY <2>1, <2>6
    <3> QED BY <1>1, <1>3, <2>2, <3>1
  <2> QED BY <2>1, <2>3, <2>4, <2>5, <2>6
<1> QED BY <1>1, <1>4 DEF r, u

\* The cursor moves as the remainder does.
LEMMA CursorMoves ==
  ASSUME VgaInv, NEW c, terminal_putchar(c)
  PROVE  /\ terminal_row' \in 0..(VGA_HEIGHT - 1) /\ terminal_column' \in 0..(VGA_WIDTH - 1)
         /\ Cursor' = vgaNext % ScreenSize /\ Cursor \in 0..(ScreenSize - 1)
         /\ ScreenSize \in Nat \ {0}
<1> DEFINE w == VGA_WIDTH
           h == VGA_HEIGHT
           r == terminal_row
           k == terminal_column
<1>1. /\ w \in Nat \ {0} /\ h \in Nat \ {0} /\ r \in 0..(h - 1) /\ k \in 0..(w - 1)
      /\ Cursor = r * w + k /\ ScreenSize = w * h
      /\ vgaNext \in Nat \ {0} /\ Cursor = (vgaNext - 1) % ScreenSize
  BY DEF VgaInv, Cursor, ScreenSize
<1>2. /\ IF k + 1 = w THEN /\ terminal_column' = 0
                           /\ terminal_row' = IF r + 1 = h THEN 0 ELSE r + 1
         ELSE terminal_column' = k + 1 /\ terminal_row' = r
  BY DEF terminal_putchar, NextRow
<1>3. Cursor' = terminal_row' * w + terminal_column'
  BY DEF Cursor
<1> HIDE DEF w, h, r, k
<1>4. /\ r * w <= (h - 1) * w /\ r * w \in Nat /\ (r + 1) * w = r * w + w
      /\ ((h - 1) + 1) * w = (h - 1) * w + w /\ (h - 1) * w \in Nat
  <2>1. r \in Nat /\ h - 1 \in Nat /\ r <= h - 1 /\ w \in Nat
    BY <1>1
  <2> QED BY <2>1, TimesMonotone
<1>5. ScreenSize = (h - 1) * w + w
  <2>1. w * h = h * w /\ (h - 1) + 1 = h
    BY <1>1
  <2> QED BY <1>1, <1>4, <2>1
<1>6. ScreenSize \in Nat \ {0} /\ Cursor \in 0..(ScreenSize - 1)
  BY <1>1, <1>4, <1>5
<1>7. Cursor' = IF Cursor + 1 = ScreenSize THEN 0 ELSE Cursor + 1
  <2>1. CASE k + 1 # w
    BY <1>1, <1>2, <1>3, <1>4, <1>5, <2>1
  <2>2. CASE k + 1 = w /\ r + 1 = h
    <3>1. Cursor' = 0 * w + 0
      BY <1>2, <1>3, <2>2
    <3>2. r * w = (h - 1) * w
      BY <1>1, <2>2
    <3> QED BY <1>1, <1>4, <1>5, <2>2, <3>1, <3>2
  <2>3. CASE k + 1 = w /\ r + 1 # h
    <3>1. Cursor' = (r + 1) * w + 0
      BY <1>2, <1>3, <2>3
    <3>2. (r + 1) * w <= (h - 1) * w
      <4>1. r + 1 \in Nat /\ h - 1 \in Nat /\ r + 1 <= h - 1 /\ w \in Nat
        BY <1>1, <2>3
      <4> QED BY <4>1, TimesMonotone
    <3> QED BY <1>1, <1>4, <1>5, <2>3, <3>1, <3>2
  <2> QED BY <2>1, <2>2, <2>3
<1>8. vgaNext % ScreenSize = IF ((vgaNext - 1) % ScreenSize) + 1 = ScreenSize THEN 0
                             ELSE ((vgaNext - 1) % ScreenSize) + 1
  <2>1. vgaNext - 1 \in Nat /\ (vgaNext - 1) + 1 = vgaNext
    BY <1>1
  <2>2. \A n \in Nat : (n + 1) % ScreenSize = IF (n % ScreenSize) + 1 = ScreenSize THEN 0
                                              ELSE (n % ScreenSize) + 1
    BY <1>6, NextRemainder
  <2> HIDE DEF ScreenSize
  <2> QED BY <2>1, <2>2
<1>9. /\ terminal_row' \in 0..(h - 1) /\ terminal_column' \in 0..(w - 1)
  BY <1>1, <1>2
<1> QED BY <1>1, <1>6, <1>7, <1>8, <1>9 DEF w, h

\* The characters among the first n - 1 that went to place i of the screen, and
\* what the last of them left there.
SentTo(n, i) == {m \in 1..(n - 1) : (m - 1) % ScreenSize = i}
LastOf(T) == IF T = {} THEN " " ELSE Welcome[CHOOSE n \in T : \A m \in T : m <= n]
ShownAt(n, i) == LastOf(SentTo(n, i))

LEMMA ShownChanges ==
  ASSUME NEW n \in Nat \ {0}, NEW i
  PROVE  /\ (n - 1) % ScreenSize = i => ShownAt(n + 1, i) = Welcome[n]
         /\ (n - 1) % ScreenSize # i => ShownAt(n + 1, i) = ShownAt(n, i)
<1>1. \A m : m \in 1..((n + 1) - 1) <=> m \in 1..(n - 1) \/ m = n
  OBVIOUS
<1>2. ASSUME (n - 1) % ScreenSize # i
      PROVE  SentTo(n + 1, i) = SentTo(n, i)
  <2> HIDE DEF ScreenSize
  <2> QED BY <1>1, <1>2 DEF SentTo
<1>3. ASSUME (n - 1) % ScreenSize = i
      PROVE  /\ n \in SentTo(n + 1, i) /\ \A k \in SentTo(n + 1, i) : k \in Int /\ k <= n
  <2>1. n \in 1..((n + 1) - 1) /\ \A k \in 1..((n + 1) - 1) : k \in Int /\ k <= n
    OBVIOUS
  <2> HIDE DEF ScreenSize
  <2> QED BY <1>3, <2>1 DEF SentTo
<1>4. ASSUME (n - 1) % ScreenSize = i
      PROVE  ShownAt(n + 1, i) = Welcome[n]
  <2> DEFINE T == SentTo(n + 1, i)
             top == CHOOSE k \in T : \A m \in T : m <= k
  <2>1. n \in T /\ \A k \in T : k \in Int /\ k <= n
    BY <1>3, <1>4
  <2> HIDE DEF T
  <2>2. top \in T /\ \A k \in T : k <= top
    BY <2>1
  <2> HIDE DEF top
  <2>3. top = n
    BY <2>1, <2>2
  <2>4. T # {}
    BY <2>1
  <2>5. LastOf(T) = IF T = {} THEN " " ELSE Welcome[top]
    BY DEF LastOf, top
  <2> QED BY <2>3, <2>4, <2>5 DEF ShownAt, T
<1>5. ASSUME (n - 1) % ScreenSize # i
      PROVE  ShownAt(n + 1, i) = ShownAt(n, i)
  BY <1>2, <1>5 DEF ShownAt
<1> QED BY <1>4, <1>5

LEMMA VgaKeptIs ==
  VgaKept <=> \A i \in DOMAIN terminal_buffer : terminal_buffer[i] = ShownAt(vgaNext, i)
BY DEF VgaKept, ShownAt, LastOf, SentTo, ScreenSize

LEMMA VgaStep == VgaInv /\ (terminal_write \/ UNCHANGED vgaVars) => VgaInv'
<1> SUFFICES ASSUME VgaInv, terminal_write \/ UNCHANGED vgaVars PROVE VgaInv'
  OBVIOUS
<1>1. CASE UNCHANGED vgaVars
  <2>1. /\ terminal_row' = terminal_row /\ terminal_column' = terminal_column
        /\ terminal_buffer' = terminal_buffer /\ vgaNext' = vgaNext
    BY <1>1 DEF vgaVars
  <2>2. \A i \in DOMAIN terminal_buffer : terminal_buffer[i] = ShownAt(vgaNext, i)
    BY VgaKeptIs DEF VgaInv
  <2>3. \A i \in DOMAIN terminal_buffer' : terminal_buffer'[i] = ShownAt(vgaNext', i)
    BY <2>1, <2>2
  <2>4. VgaKept'
    BY <2>3 DEF VgaKept, ShownAt, LastOf, SentTo, ScreenSize
  <2> QED BY <2>1, <2>4 DEF VgaInv, Cursor
<1>2. CASE terminal_write
  <2> DEFINE c == Welcome[vgaNext]
  <2>1. terminal_putchar(c) /\ vgaNext' = vgaNext + 1 /\ vgaNext \in Nat \ {0}
        /\ Cursor = (vgaNext - 1) % ScreenSize
    BY <1>2 DEF terminal_write, VgaInv
  <2>2. /\ terminal_row' \in 0..(VGA_HEIGHT - 1) /\ terminal_column' \in 0..(VGA_WIDTH - 1)
        /\ Cursor' = vgaNext % ScreenSize
    BY <2>1, CursorMoves
  <2>3. terminal_buffer' = [terminal_buffer EXCEPT ![Cursor] = c]
    BY <2>1 DEF terminal_putchar, Cursor
  <2>4. DOMAIN terminal_buffer' = DOMAIN terminal_buffer
    BY <2>3
  <2>5. \A i \in DOMAIN terminal_buffer : terminal_buffer[i] = ShownAt(vgaNext, i)
    BY VgaKeptIs DEF VgaInv
  <2>6. \A i : /\ Cursor = i => ShownAt(vgaNext + 1, i) = c
               /\ Cursor # i => ShownAt(vgaNext + 1, i) = ShownAt(vgaNext, i)
    BY <2>1, ShownChanges
  <2>7. \A i \in DOMAIN terminal_buffer' : terminal_buffer'[i] = ShownAt(vgaNext + 1, i)
    <3> HIDE DEF c
    <3> QED BY <2>3, <2>4, <2>5, <2>6
  <2>8. VgaKept'
    <3>1. \A i \in DOMAIN terminal_buffer' : terminal_buffer'[i] = ShownAt(vgaNext', i)
      BY <2>1, <2>7
    <3> QED BY <3>1, <2>1 DEF VgaKept, ShownAt, LastOf, SentTo, ScreenSize
  <2>9. vgaNext' \in Nat \ {0} /\ (vgaNext' - 1) = vgaNext
    BY <2>1
  <2> QED BY <2>2, <2>4, <2>8, <2>9 DEF VgaInv
<1> QED BY <1>1, <1>2

LEMMA VgaInit == terminal_initialize => VgaInv
<1> SUFFICES ASSUME terminal_initialize PROVE VgaInv
  OBVIOUS
<1> DEFINE w == VGA_WIDTH
           h == VGA_HEIGHT
<1>1. w \in Nat \ {0} /\ h \in Nat \ {0} /\ 0 * w + 0 = 0
  OBVIOUS
<1>2. w * h \in Nat \ {0} /\ 0 % (w * h) = 0
  <2> HIDE DEF w, h
  <2>1. h - 1 \in Nat /\ w * h = (h - 1) * w + w /\ (h - 1) * w \in Nat
    <3>1. (h - 1) * w \in Nat /\ ((h - 1) + 1) * w = (h - 1) * w + w
      BY <1>1, TimesMonotone
    <3>2. (h - 1) + 1 = h /\ w * h = h * w
      BY <1>1
    <3> QED BY <1>1, <3>1, <3>2
  <2> DEFINE p == w * h
  <2>2. p \in Nat \ {0}
    BY <1>1, <2>1
  <2> HIDE DEF p
  <2>3. 0 % p = 0
    BY <2>2
  <2> QED BY <2>2, <2>3 DEF p
<1>3. Cursor = (vgaNext - 1) % ScreenSize /\ vgaNext = 1
  <2>1. Cursor = 0 * w + 0 /\ vgaNext = 1 /\ ScreenSize = w * h
    BY DEF terminal_initialize, Cursor, ScreenSize
  <2>2. Cursor = 0 /\ vgaNext - 1 = 0
    BY <1>1, <2>1
  <2> HIDE DEF w, h
  <2> QED BY <1>2, <2>1, <2>2
<1>4. 0 \in 0..(h - 1) /\ 0 \in 0..(w - 1)
  BY <1>1
<1>5. VgaKept
  <2>1. \A n : n \notin 1..0
    OBVIOUS
  <2>2. \A i : SentTo(1, i) = {}
    BY <2>1 DEF SentTo
  <2>3. \A i \in DOMAIN terminal_buffer : terminal_buffer[i] = " "
    BY DEF terminal_initialize
  <2> QED BY <1>3, <2>2, <2>3, VgaKeptIs DEF ShownAt, LastOf
<1>6. /\ DOMAIN terminal_buffer = 0..(ScreenSize - 1)
      /\ terminal_row = 0 /\ terminal_column = 0 /\ vgaNext = 1
  BY DEF terminal_initialize, ScreenSize
<1> HIDE DEF terminal_initialize
<1> QED BY <1>3, <1>4, <1>5, <1>6 DEF VgaInv, w, h
-----------------------------------------------------------------------------
(* The text displays: terminal                                               *)

\* A call that leaves the colour as it is.
Keeps(p) == p.at # <<>> \/ p = NoCall
BorderMarks == {"+", "-", "|"}
Marks == BorderMarks \cup {MESSAGE[d][i] : d \in Domains, i \in Nat}

\* What domain d may have at place q: the part of TerminalKept about one cell.
CellOk(d, q, c) ==
  LET x == q[1] - DomainX[d]
  IN  /\ q \in RegionOf(d) => /\ q[2] = DomainY[d]
                              /\ c = MESSAGE[d][x + 1]
                              /\ \A i \in 1..(x + 1) : MESSAGE[d][i] # ESC
      /\ q \notin RegionOf(d) => c \in BorderMarks
      /\ \A e \in Domains \ {d} : q \notin RegionOf(e)

\* What is drawn is on the terminal if the regions are.
OnScreen(q) == RegionsFit => Lands(q) = q

Calls(d) == {Colour(0), Colour(d), NoCall}
            \cup {p \in [at : Int \X Int, char : Marks] :
                    CellOk(d, p.at, p.char) /\ OnScreen(p.at)}

\* The colour is the domain's after this call if it was before.
Tinting(d, p) == Keeps(p) \/ p = Colour(d)

\* Each put follows a put or the domain's colour.
Chained(d, s) == \A i \in 1..Len(s) : Keeps(s[i]) => i > 1 /\ Tinting(d, s[i - 1])
Painting(d, s) == /\ s \in Seq(Calls(d)) /\ s # <<>>
                  /\ Chained(d, s) /\ Tinting(d, s[Len(s)])

LEMMA CallsAre ==
  ASSUME NEW d \in Domains
  PROVE  /\ Colour(0) \in Calls(d) /\ Colour(d) \in Calls(d) /\ NoCall \in Calls(d)
         /\ ~Keeps(Colour(0)) /\ ~Keeps(Colour(d)) /\ Colour(0) # Colour(d)
         /\ Keeps(NoCall) /\ NoCall.at = <<>>
         /\ \A p \in Calls(d) : p.at # <<>> => CellOk(d, p.at, p.char) /\ OnScreen(p.at)
         /\ \A x, y \in Int : \A c \in Marks :
              CellOk(d, <<x, y>>, c) /\ OnScreen(<<x, y>>)
                => Put(x, y, c) \in Calls(d) /\ Keeps(Put(x, y, c))
<1>1. \A p \in [at : Int \X Int, char : Marks] : p.at \in Int \X Int /\ p.at # <<>>
  <2>1. \A q \in Int \X Int : q # <<>>
    OBVIOUS
  <2>2. \A p \in [at : Int \X Int, char : Marks] : p.at \in Int \X Int
    OBVIOUS
  <2> QED BY <2>1, <2>2
<1>2. \A e : Colour(e).at = <<>> /\ Colour(e).char = e
  BY DEF Colour
<1>3. \A x, y \in Int : \A c \in Marks :
        CellOk(d, <<x, y>>, c) /\ OnScreen(<<x, y>>)
          => Put(x, y, c) \in Calls(d) /\ Keeps(Put(x, y, c))
  <2> TAKE x, y \in Int
  <2> TAKE c \in Marks
  <2> HAVE CellOk(d, <<x, y>>, c) /\ OnScreen(<<x, y>>)
  <2>1. Put(x, y, c).at = <<x, y>> /\ Put(x, y, c).char = c
    BY DEF Put
  <2>2. Put(x, y, c) \in [at : Int \X Int, char : Marks]
    BY DEF Put
  <2>3. CellOk(d, Put(x, y, c).at, Put(x, y, c).char) /\ OnScreen(Put(x, y, c).at)
    BY <2>1
  <2> QED BY <1>1, <2>2, <2>3 DEF Calls, Keeps
<1>4. 0 # d /\ 0 # -1 /\ d # -1
  BY DEF Domains
<1>5. NoCall.at = <<>> /\ NoCall.char = -1
  BY <1>2 DEF NoCall
<1> QED BY <1>1, <1>2, <1>3, <1>4, <1>5 DEF Calls, Keeps

\* One drawing goes on after another.
LEMMA ChainConcat ==
  ASSUME NEW d \in Domains, NEW s \in Seq(Calls(d)), NEW t \in Seq(Calls(d)),
         Chained(d, s), Chained(d, t)
  PROVE  s \o t \in Seq(Calls(d)) /\ Chained(d, s \o t)
<1>1. s \o t \in Seq(Calls(d)) /\ Len(s \o t) = Len(s) + Len(t)
      /\ Len(s) \in Nat /\ Len(t) \in Nat
  OBVIOUS
<1>2. \A i \in 1..Len(s) : (s \o t)[i] = s[i]
  OBVIOUS
<1>3. \A i \in 1..Len(t) : (s \o t)[Len(s) + i] = t[i]
  OBVIOUS
<1> DEFINE u == s \o t
<1> HIDE DEF u
<1>4. ASSUME NEW i \in 1..Len(u), Keeps(u[i]) PROVE i > 1 /\ Tinting(d, u[i - 1])
  <2>1. CASE i <= Len(s)
    <3>1. i \in 1..Len(s) /\ u[i] = s[i]
      BY <1>1, <1>2, <2>1 DEF u
    <3>2. i > 1 /\ Tinting(d, s[i - 1])
      BY <1>4, <3>1 DEF Chained
    <3>3. u[i - 1] = s[i - 1]
      <4>1. i - 1 \in 1..Len(s)
        BY <1>1, <3>1, <3>2
      <4> QED BY <4>1, <1>2 DEF u
    <3> QED BY <3>2, <3>3
  <2>2. CASE i > Len(s)
    <3> DEFINE j == i - Len(s)
    <3>1. j \in 1..Len(t) /\ i = Len(s) + j
      BY <1>1, <2>2 DEF u
    <3> HIDE DEF j
    <3>2. u[i] = t[j]
      BY <1>3, <3>1 DEF u
    <3>3. j > 1 /\ Tinting(d, t[j - 1])
      BY <1>4, <3>1, <3>2 DEF Chained
    <3>4. j - 1 \in 1..Len(t) /\ i - 1 = Len(s) + (j - 1)
      <4>1. Len(s) \in Nat /\ Len(t) \in Nat
        BY <1>1
      <4>2. j > 1
        BY <3>3
      <4> QED BY <4>1, <4>2, <3>1
    <3>5. u[i - 1] = t[j - 1]
      BY <1>3, <3>4 DEF u
    <3> QED BY <1>1, <3>1, <3>3, <3>5
  <2> QED BY <1>1, <2>1, <2>2 DEF u
<1> QED BY <1>1, <1>4 DEF Chained, u

\* ... and so does one of puts only.
LEMMA PaintOn ==
  ASSUME NEW d \in Domains, NEW s, Painting(d, s),
         NEW t \in Seq(Calls(d)), \A i \in 1..Len(t) : Keeps(t[i])
  PROVE  Painting(d, s \o t)
<1>1. /\ s \o t \in Seq(Calls(d)) /\ Len(s \o t) = Len(s) + Len(t)
      /\ s \in Seq(Calls(d)) /\ Len(s) \in Nat \ {0} /\ Len(t) \in Nat
  BY DEF Painting
<1>2. \A i \in 1..Len(s) : (s \o t)[i] = s[i]
  BY <1>1
<1>3. \A i \in 1..Len(t) : (s \o t)[Len(s) + i] = t[i]
  BY <1>1
<1> DEFINE u == s \o t
<1> HIDE DEF u
<1>4. ASSUME NEW i \in 1..Len(u), i > Len(s) PROVE Keeps(u[i])
  <2>1. i - Len(s) \in 1..Len(t) /\ Len(s) + (i - Len(s)) = i
    BY <1>1, <1>4 DEF u
  <2> QED BY <2>1, <1>3 DEF u
<1>5. Tinting(d, s[Len(s)]) /\ Chained(d, s)
  BY DEF Painting
<1>6. Tinting(d, u[Len(u)])
  <2>1. CASE Len(t) = 0
    <3>1. Len(u) = Len(s) /\ Len(s) \in 1..Len(s)
      BY <1>1, <2>1 DEF u
    <3> QED BY <1>2, <1>5, <3>1 DEF u
  <2>2. CASE Len(t) # 0
    BY <1>1, <1>4, <2>2 DEF u, Tinting
  <2> QED BY <2>1, <2>2
<1>7. ASSUME NEW i \in 1..Len(u), Keeps(u[i]) PROVE i > 1 /\ Tinting(d, u[i - 1])
  <2>1. CASE i <= Len(s)
    <3>1. i \in 1..Len(s) /\ u[i] = s[i]
      BY <1>1, <1>2, <2>1 DEF u
    <3>2. i > 1 /\ Tinting(d, s[i - 1])
      BY <1>5, <1>7, <3>1 DEF Chained
    <3>3. u[i - 1] = s[i - 1]
      <4>1. i - 1 \in 1..Len(s)
        BY <1>1, <3>1, <3>2
      <4> QED BY <4>1, <1>2 DEF u
    <3> QED BY <3>2, <3>3
  <2>2. CASE i = Len(s) + 1
    <3>1. i - 1 = Len(s) /\ i - 1 \in 1..Len(s) /\ i > 1
      BY <1>1, <2>2
    <3>2. u[i - 1] = s[Len(s)]
      BY <1>2, <3>1 DEF u
    <3> QED BY <1>5, <3>1, <3>2
  <2>3. CASE i > Len(s) + 1
    <3>1. i - 1 \in 1..Len(u) /\ i - 1 > Len(s) /\ i > 1
      BY <1>1, <2>3 DEF u
    <3> QED BY <1>4, <3>1 DEF Tinting
  <2> QED BY <1>1, <2>1, <2>2, <2>3 DEF u
<1>8. u # <<>>
  BY <1>1 DEF u
<1> QED BY <1>1, <1>6, <1>7, <1>8 DEF Painting, Chained, u

\* What is just beside a region is in none.
LEMMA BesideRegions ==
  ASSUME NEW d \in Domains, NEW x \in Int, NEW y \in Int,
         x \in (DomainX[d] - 1)..(DomainX[d] + DomainWidth[d]),
         y \in (DomainY[d] - 1)..(DomainY[d] + DomainHeight[d]),
         \/ x = DomainX[d] - 1 \/ x = DomainX[d] + DomainWidth[d]
         \/ y = DomainY[d] - 1 \/ y = DomainY[d] + DomainHeight[d],
         NEW c \in BorderMarks
  PROVE  Edge(x, y, c) \in Calls(d) /\ Keeps(Edge(x, y, c))
<1>1. ASSUME NEW e \in Domains PROVE <<x, y>> \notin RegionOf(e)
  <2> SUFFICES ASSUME NEW i \in 0..(DomainWidth[e] - 1), NEW j \in 0..(DomainHeight[e] - 1),
                      <<x, y>> = <<DomainX[e] + i, DomainY[e] + j>>
               PROVE  FALSE
    BY DEF RegionOf
  <2>1. x = DomainX[e] + i /\ y = DomainY[e] + j
    OBVIOUS
  <2>2. /\ DomainX[e] \in Nat /\ DomainY[e] \in Nat /\ DomainWidth[e] \in Nat
        /\ DomainHeight[e] \in Nat /\ DomainX[d] \in Nat /\ DomainY[d] \in Nat
        /\ DomainWidth[d] \in Nat /\ DomainHeight[d] \in Nat
    OBVIOUS
  <2>3. CASE e = d
    BY <2>1, <2>2, <2>3
  <2>4. CASE e # d
    <3>1. \/ DomainX[d] + DomainWidth[d] < DomainX[e]
          \/ DomainX[e] + DomainWidth[e] < DomainX[d]
          \/ DomainY[d] + DomainHeight[d] < DomainY[e]
          \/ DomainY[e] + DomainHeight[e] < DomainY[d]
      BY <2>4
    <3> QED BY <2>1, <2>2, <3>1
  <2> QED BY <2>3, <2>4
<1>2. CellOk(d, <<x, y>>, c)
  BY <1>1 DEF CellOk
<1>3. c \in Marks
  BY DEF Marks
<1>4. OnTerminal(x, y) => OnScreen(<<x, y>>)
  <2> SUFFICES ASSUME OnTerminal(x, y), RegionsFit PROVE Lands(<<x, y>>) = <<x, y>>
    BY DEF OnScreen
  <2>1. DomainX[d] \in Nat /\ DomainWidth[d] \in Nat /\ x <= DomainX[d] + DomainWidth[d]
    OBVIOUS
  <2>2. DomainX[d] + DomainWidth[d] < TERMINAL_WIDTH /\ x < TERMINAL_WIDTH /\ y <= TERMINAL_HEIGHT
    BY <2>1 DEF RegionsFit, OnTerminal
  <2>3. <<x, y>>[1] = x /\ <<x, y>>[2] = y
    OBVIOUS
  <2> QED BY <2>2, <2>3 DEF Lands
<1>5. CASE OnTerminal(x, y)
  BY <1>2, <1>3, <1>4, <1>5, CallsAre DEF Edge
<1>6. CASE ~OnTerminal(x, y)
  BY <1>6, CallsAre DEF Edge
<1> QED BY <1>5, <1>6

LEMMA DrawnSeq ==
  ASSUME NEW S, NEW n \in Nat, NEW f \in [1..n -> S]
  PROVE  f \in Seq(S) /\ Len(f) = n
OBVIOUS

\* The border is drawn outside both regions, in the domain's colour.
LEMMA BorderPaints ==
  ASSUME NEW d \in Domains
  PROVE  borderise(d) \in Seq(Calls(d)) /\ Chained(d, borderise(d))
<1> DEFINE x == DomainX[d]
           y == DomainY[d]
           w == DomainWidth[d]
           h == DomainHeight[d]
           top == Row(x, y - 1, w, "-")
           left == Column(x - 1, y, h, "|")
           bottom == Row(x, y + h, w, "-")
           right == Column(x + w, y, h, "|")
           corners == <<Colour(d), Edge(x - 1, y - 1, "+"), Edge(x + w, y - 1, "+"),
                        Edge(x - 1, y + h, "+"), Edge(x + w, y + h, "+")>>
<1>1. x \in Nat /\ y \in Nat /\ w \in Nat /\ h \in Nat
  OBVIOUS
<1>2. \A p, q \in Int : \A c \in BorderMarks :
        /\ p \in (x - 1)..(x + w) /\ q \in (y - 1)..(y + h)
        /\ p = x - 1 \/ p = x + w \/ q = y - 1 \/ q = y + h
        => Edge(p, q, c) \in Calls(d) /\ Keeps(Edge(p, q, c))
  BY BesideRegions
<1>3. "+" \in BorderMarks /\ "-" \in BorderMarks /\ "|" \in BorderMarks
  BY DEF BorderMarks
<1>4. borderise(d) = (((((corners \o top) \o left) \o bottom) \o right) \o <<Colour(0)>>)
  BY DEF borderise, RESET_ATTRIBUTES
<1> HIDE DEF x, y, w, h
<1>5. top \in Seq(Calls(d)) /\ \A i \in 1..Len(top) : Keeps(top[i])
  <2>1. \A i \in 1..w : Edge(x + i - 1, y - 1, "-") \in Calls(d) /\ Keeps(Edge(x + i - 1, y - 1, "-"))
    <3> TAKE i \in 1..w
    <3>1. /\ x + i - 1 \in Int /\ y - 1 \in Int /\ x + i - 1 \in (x - 1)..(x + w)
          /\ y - 1 \in (y - 1)..(y + h)
      BY <1>1
    <3> QED BY <1>2, <1>3, <3>1
  <2>2. top \in [1..w -> Calls(d)] /\ \A i \in 1..w : Keeps(top[i])
    BY <2>1 DEF Row
  <2> QED BY <1>1, <2>2, DrawnSeq
<1>6. left \in Seq(Calls(d)) /\ \A i \in 1..Len(left) : Keeps(left[i])
  <2>1. \A i \in 1..h : Edge(x - 1, y + i - 1, "|") \in Calls(d) /\ Keeps(Edge(x - 1, y + i - 1, "|"))
    <3> TAKE i \in 1..h
    <3>1. /\ y + i - 1 \in Int /\ x - 1 \in Int /\ y + i - 1 \in (y - 1)..(y + h)
          /\ x - 1 \in (x - 1)..(x + w)
      BY <1>1
    <3> QED BY <1>2, <1>3, <3>1
  <2>2. left \in [1..h -> Calls(d)] /\ \A i \in 1..h : Keeps(left[i])
    BY <2>1 DEF Column
  <2> QED BY <1>1, <2>2, DrawnSeq
<1>7. bottom \in Seq(Calls(d)) /\ \A i \in 1..Len(bottom) : Keeps(bottom[i])
  <2>1. \A i \in 1..w : Edge(x + i - 1, y + h, "-") \in Calls(d) /\ Keeps(Edge(x + i - 1, y + h, "-"))
    <3> TAKE i \in 1..w
    <3>1. /\ x + i - 1 \in Int /\ y + h \in Int /\ x + i - 1 \in (x - 1)..(x + w)
          /\ y + h \in (y - 1)..(y + h)
      BY <1>1
    <3> QED BY <1>2, <1>3, <3>1
  <2>2. bottom \in [1..w -> Calls(d)] /\ \A i \in 1..w : Keeps(bottom[i])
    BY <2>1 DEF Row
  <2> QED BY <1>1, <2>2, DrawnSeq
<1>8. right \in Seq(Calls(d)) /\ \A i \in 1..Len(right) : Keeps(right[i])
  <2>1. \A i \in 1..h : Edge(x + w, y + i - 1, "|") \in Calls(d) /\ Keeps(Edge(x + w, y + i - 1, "|"))
    <3> TAKE i \in 1..h
    <3>1. /\ y + i - 1 \in Int /\ x + w \in Int /\ y + i - 1 \in (y - 1)..(y + h)
          /\ x + w \in (x - 1)..(x + w)
      BY <1>1
    <3> QED BY <1>2, <1>3, <3>1
  <2>2. right \in [1..h -> Calls(d)] /\ \A i \in 1..h : Keeps(right[i])
    BY <2>1 DEF Column
  <2> QED BY <1>1, <2>2, DrawnSeq
<1>9. Painting(d, corners)
  <2> DEFINE a == Edge(x - 1, y - 1, "+")
             b == Edge(x + w, y - 1, "+")
             e == Edge(x - 1, y + h, "+")
             f == Edge(x + w, y + h, "+")
  <2>1. /\ x - 1 \in Int /\ x + w \in Int /\ y - 1 \in Int /\ y + h \in Int
        /\ x - 1 \in (x - 1)..(x + w) /\ x + w \in (x - 1)..(x + w)
        /\ y - 1 \in (y - 1)..(y + h) /\ y + h \in (y - 1)..(y + h)
    BY <1>1
  <2>2. /\ a \in Calls(d) /\ Keeps(a) /\ b \in Calls(d) /\ Keeps(b)
        /\ e \in Calls(d) /\ Keeps(e) /\ f \in Calls(d) /\ Keeps(f)
    BY <1>2, <1>3, <2>1
  <2>3. Colour(d) \in Calls(d) /\ ~Keeps(Colour(d))
    BY CallsAre
  <2> HIDE DEF a, b, e, f
  <2> DEFINE k == Colour(d)
             u == <<k, a, b, e, f>>
  <2>4. Tinting(d, k) /\ Tinting(d, a) /\ Tinting(d, b) /\ Tinting(d, e) /\ Tinting(d, f)
    BY <2>2 DEF Tinting
  <2> HIDE DEF k
  <2>5. k \in Calls(d) /\ ~Keeps(k)
    BY <2>3 DEF k
  <2>6. /\ u \in Seq(Calls(d)) /\ Len(u) = 5 /\ u # <<>>
        /\ u[1] = k /\ u[2] = a /\ u[3] = b /\ u[4] = e /\ u[5] = f
    BY <2>2, <2>5
  <2> HIDE DEF u
  <2>7. \A i \in 1..5 : i = 1 \/ i = 2 \/ i = 3 \/ i = 4 \/ i = 5
    OBVIOUS
  <2>8. ASSUME NEW i \in 1..5, Keeps(u[i]) PROVE i > 1 /\ Tinting(d, u[i - 1])
    <3>1. i # 1
      BY <2>5, <2>6, <2>8
    <3>2. i > 1 /\ (i - 1 = 1 \/ i - 1 = 2 \/ i - 1 = 3 \/ i - 1 = 4)
      BY <2>7, <3>1
    <3> QED BY <2>4, <2>6, <3>2
  <2>9. u \in Seq(Calls(d)) /\ u # <<>> /\ Chained(d, u) /\ Tinting(d, u[Len(u)])
    BY <2>4, <2>6, <2>8 DEF Chained
  <2> QED BY <2>9 DEF Painting, u, k, a, b, e, f
<1> HIDE DEF corners, top, left, bottom, right
<1>10. \A s, t : /\ Painting(d, s) /\ t \in Seq(Calls(d)) /\ \A i \in 1..Len(t) : Keeps(t[i])
                 => Painting(d, s \o t)
  BY PaintOn
<1>11. Painting(d, (((corners \o top) \o left) \o bottom) \o right)
  <2>1. Painting(d, corners \o top)
    BY <1>5, <1>9, <1>10
  <2>2. Painting(d, (corners \o top) \o left)
    BY <1>6, <1>10, <2>1
  <2>3. Painting(d, ((corners \o top) \o left) \o bottom)
    BY <1>7, <1>10, <2>2
  <2> QED BY <1>8, <1>10, <2>3
<1> DEFINE s == (((corners \o top) \o left) \o bottom) \o right
           t == <<Colour(0)>>
<1>12. t \in Seq(Calls(d)) /\ Chained(d, t)
  <2>1. Colour(0) \in Calls(d) /\ ~Keeps(Colour(0))
    BY CallsAre
  <2>2. t \in Seq(Calls(d)) /\ Len(t) = 1 /\ t[1] = Colour(0) /\ \A i \in 1..1 : i = 1
    BY <2>1
  <2> QED BY <2>1, <2>2 DEF Chained
<1>13. s \in Seq(Calls(d)) /\ Chained(d, s)
  BY <1>11 DEF Painting
<1>14. borderise(d) = s \o t
  BY <1>4
<1> HIDE DEF s, t
<1>15. s \o t \in Seq(Calls(d)) /\ Chained(d, s \o t)
  BY <1>12, <1>13, ChainConcat
<1> QED BY <1>14, <1>15

\* A character that is accepted is the message's, at its place in the region.
LEMMA TextInRegion ==
  ASSUME NEW d \in Domains, NEW i \in Nat, InBounds(d, i, 0),
         \A j \in 1..(i + 1) : MESSAGE[d][j] # ESC
  PROVE  LET p == Put(DomainX[d] + i, DomainY[d] + 0, MESSAGE[d][i + 1])
         IN  p \in Calls(d) /\ Keeps(p)
<1> DEFINE x == DomainX[d] + i
           y == DomainY[d] + 0
           c == MESSAGE[d][i + 1]
<1>1. /\ DomainX[d] \in Nat /\ DomainY[d] \in Nat
      /\ DomainWidth[d] \in Nat /\ DomainHeight[d] \in Nat
      /\ i \in 0..(DomainWidth[d] - 1) /\ 0 \in 0..(DomainHeight[d] - 1)
  BY DEF InBounds
<1>2. <<x, y>> \in RegionOf(d)
  BY <1>1 DEF RegionOf
<1>3. ASSUME NEW e \in Domains \ {d} PROVE <<x, y>> \notin RegionOf(e)
  <2> SUFFICES ASSUME NEW a \in 0..(DomainWidth[e] - 1), NEW b \in 0..(DomainHeight[e] - 1),
                      <<x, y>> = <<DomainX[e] + a, DomainY[e] + b>>
               PROVE  FALSE
    BY DEF RegionOf
  <2>1. x = DomainX[e] + a /\ y = DomainY[e] + b
    OBVIOUS
  <2>2. /\ DomainX[e] \in Nat /\ DomainY[e] \in Nat /\ DomainWidth[e] \in Nat
        /\ DomainHeight[e] \in Nat
    OBVIOUS
  <2>3. \/ DomainX[d] + DomainWidth[d] < DomainX[e]
        \/ DomainX[e] + DomainWidth[e] < DomainX[d]
        \/ DomainY[d] + DomainHeight[d] < DomainY[e]
        \/ DomainY[e] + DomainHeight[e] < DomainY[d]
    BY <1>3
  <2> QED BY <1>1, <2>1, <2>2, <2>3
<1>4. x - DomainX[d] = i /\ y = DomainY[d] /\ <<x, y>>[1] = x /\ <<x, y>>[2] = y
      /\ x \in Int /\ y \in Int
  BY <1>1
<1>5. c \in Marks
  <2>1. i + 1 \in Nat
    OBVIOUS
  <2> QED BY <2>1 DEF Marks
<1>8. OnScreen(<<x, y>>)
  <2> SUFFICES ASSUME RegionsFit PROVE Lands(<<x, y>>) = <<x, y>>
    BY DEF OnScreen
  <2>1. x < TERMINAL_WIDTH /\ y <= TERMINAL_HEIGHT
    BY <1>1, <1>4 DEF RegionsFit
  <2> QED BY <1>4, <2>1 DEF Lands
<1> HIDE DEF x, y
<1>6. CellOk(d, <<x, y>>, c)
  BY <1>2, <1>3, <1>4 DEF CellOk
<1> HIDE DEF c
<1>7. Put(x, y, c) \in Calls(d) /\ Keeps(Put(x, y, c))
  BY <1>4, <1>5, <1>6, <1>8, CallsAre
<1> QED BY <1>7 DEF x, y, c

\* What a request leaves to be printed.
LEMMA PutCharDraws ==
  ASSUME NEW d \in Domains, NEW i \in Nat, \A j \in 1..i : MESSAGE[d][j] # ESC
  PROVE  /\ put_char(d, i, 0, MESSAGE[d][i + 1]) \in Seq(Calls(d))
         /\ Chained(d, put_char(d, i, 0, MESSAGE[d][i + 1]))
         /\ Accepted(d, i, 0, MESSAGE[d][i + 1]) =>
              \E k \in 1..Len(put_char(d, i, 0, MESSAGE[d][i + 1])) :
                put_char(d, i, 0, MESSAGE[d][i + 1])[k]
                  = Put(DomainX[d] + i, DomainY[d] + 0, MESSAGE[d][i + 1])
<1> DEFINE s == IF border[d] THEN <<>> ELSE borderise(d)
           p == Put(DomainX[d] + i, DomainY[d] + 0, MESSAGE[d][i + 1])
           t == IF Accepted(d, i, 0, MESSAGE[d][i + 1])
                THEN <<Colour(d), p, Colour(0)>> ELSE <<>>
<1>1. put_char(d, i, 0, MESSAGE[d][i + 1]) = s \o t
  BY DEF put_char, RESET_ATTRIBUTES
<1>2. <<>> \in Seq(Calls(d)) /\ Chained(d, <<>>)
  <2>1. \A k : k \notin 1..0
    OBVIOUS
  <2> QED BY <2>1 DEF Chained
<1>3. s \in Seq(Calls(d)) /\ Chained(d, s)
  BY <1>2, BorderPaints
<1>4. t \in Seq(Calls(d)) /\ Chained(d, t)
  <2>1. CASE ~Accepted(d, i, 0, MESSAGE[d][i + 1])
    BY <1>2, <2>1
  <2>2. CASE Accepted(d, i, 0, MESSAGE[d][i + 1])
    <3>1. InBounds(d, i, 0) /\ \A j \in 1..(i + 1) : MESSAGE[d][j] # ESC
      <4>1. MESSAGE[d][i + 1] # ESC /\ InBounds(d, i, 0)
        BY <2>2 DEF Accepted
      <4>2. \A j \in 1..(i + 1) : j \in 1..i \/ j = i + 1
        OBVIOUS
      <4> QED BY <4>1, <4>2
    <3>2. p \in Calls(d) /\ Keeps(p)
      BY <3>1, TextInRegion
    <3> HIDE DEF p
    <3> DEFINE a == Colour(d)
               b == Colour(0)
               u == <<a, p, b>>
    <3>3. a \in Calls(d) /\ ~Keeps(a) /\ b \in Calls(d) /\ ~Keeps(b) /\ Tinting(d, a)
      BY CallsAre DEF Tinting
    <3>4. t = u
      BY <2>2
    <3> HIDE DEF a, b, t
    <3>5. u \in Seq(Calls(d)) /\ Len(u) = 3 /\ u[1] = a /\ u[2] = p /\ u[3] = b
      BY <3>2, <3>3
    <3> HIDE DEF u
    <3>6. \A k \in 1..3 : k = 1 \/ k = 3 \/ (k = 2 /\ k > 1 /\ k - 1 = 1)
      OBVIOUS
    <3> QED BY <3>3, <3>4, <3>5, <3>6 DEF Chained
  <2> QED BY <2>1, <2>2
<1>6. Accepted(d, i, 0, MESSAGE[d][i + 1]) => 2 \in 1..Len(t) /\ t[2] = p
  <2> HIDE DEF p
  <2> QED OBVIOUS
<1> HIDE DEF s, t, p
<1>5. s \o t \in Seq(Calls(d)) /\ Chained(d, s \o t)
  BY <1>3, <1>4, ChainConcat
<1>7. Accepted(d, i, 0, MESSAGE[d][i + 1]) => \E k \in 1..Len(s \o t) : (s \o t)[k] = p
  <2> SUFFICES ASSUME 2 \in 1..Len(t), t[2] = p
               PROVE  \E k \in 1..Len(s \o t) : (s \o t)[k] = p
    BY <1>6
  <2>1. s \in Seq(Calls(d)) /\ t \in Seq(Calls(d))
    BY <1>3, <1>4
  <2>2. Len(s) + 2 \in 1..Len(s \o t) /\ (s \o t)[Len(s) + 2] = t[2]
    BY <2>1
  <2> QED BY <2>2
<1> QED BY <1>1, <1>5, <1>7 DEF p

\* What is left of each request would only put what belongs there, in the
\* domain's colour if the other request does not come between; only then are
\* two under way.
TtyInv ==
  /\ mixed \in BOOLEAN /\ tinted \in BOOLEAN /\ (tinted => mixed)
  /\ DOMAIN todo = Domains /\ DOMAIN printedBy = Domains /\ DOMAIN clientEnd = Domains
  /\ \A d \in Domains :
       /\ todo[d] \in Seq(Calls(d))
       /\ \A i \in 1..Len(todo[d]) :
            Keeps(todo[d][i]) => IF i = 1 THEN mixed \/ colour = d
                                 ELSE Tinting(d, todo[d][i - 1])
       /\ printedBy[d] \in Nat
       /\ ~clientEnd[d] => \A i \in 1..printedBy[d] : MESSAGE[d][i] # ESC
  /\ \A d, e \in Domains : d # e /\ todo[d] # <<>> /\ todo[e] # <<>> => mixed
  /\ RegionsFit => \A q \in DOMAIN cells : CellOk(cells[q].by, q, cells[q].char)

\* The text that fits is shown, but for a character whose request is under way.
TextPut(d, i) == Put(DomainX[d] + i - 1, DomainY[d], MESSAGE[d][i])
ShownOrDue(d, i) ==
  \/ Shows(d, i)
  \/ i = printedBy[d] /\ \E k \in 1..Len(todo[d]) : todo[d][k] = TextPut(d, i)

ShownInv ==
  \A d \in Domains :
    /\ \A i \in 1..printedBy[d] : TextFits(d, i) => ShownOrDue(d, i)
    /\ clientEnd[d] => ~TextFits(d, printedBy[d])

LEMMA TtyKept == TtyInv /\ (RegionsFit => ShownInv) => TerminalKept
<1> SUFFICES ASSUME TtyInv, RegionsFit => ShownInv PROVE TerminalKept
  OBVIOUS
<1>1. ASSUME RegionsFit, NEW d \in Domains, todo[d] = <<>>, NEW i \in 1..printedBy[d],
             TextFits(d, i)
      PROVE  Shows(d, i)
  <2>1. 1..Len(todo[d]) = {}
    BY <1>1
  <2> QED BY <1>1, <2>1 DEF ShownInv, ShownOrDue
<1>2. RegionsFit => \A d \in Domains : clientEnd[d] => ~TextFits(d, printedBy[d])
  BY DEF ShownInv
<1>3. RegionsFit => \A q \in DOMAIN cells : CellOk(cells[q].by, q, cells[q].char)
  BY DEF TtyInv
<1>4. tinted => mixed
  BY DEF TtyInv
<1> QED BY <1>1, <1>2, <1>3, <1>4 DEF TerminalKept, CellOk, BorderMarks

LEMMA PrintCharStep == \A d \in Domains : TtyInv /\ PrintChar(d) => TtyInv'
<1> SUFFICES ASSUME NEW d \in Domains, TtyInv, PrintChar(d) PROVE TtyInv'
  OBVIOUS
<1> DEFINE i == printedBy[d]
           s == put_char(d, i, 0, MESSAGE[d][i + 1])
           ok == Accepted(d, i, 0, MESSAGE[d][i + 1])
<1>1. /\ ~clientEnd[d] /\ todo[d] = <<>>
      /\ todo' = [todo EXCEPT ![d] = s]
      /\ printedBy' = [printedBy EXCEPT ![d] = i + 1]
      /\ clientEnd' = [clientEnd EXCEPT ![d] = ~ok]
      /\ mixed' = (mixed \/ \E e \in Domains : todo[e] # <<>>)
      /\ colour' = colour /\ cells' = cells /\ tinted' = tinted
  BY DEF PrintChar
<1>2. i \in Nat /\ \A j \in 1..i : MESSAGE[d][j] # ESC
  BY <1>1 DEF TtyInv
<1>3. s \in Seq(Calls(d)) /\ Chained(d, s)
  <2> HIDE DEF i
  <2> QED BY <1>2, PutCharDraws
<1>4. ok => \A j \in 1..(i + 1) : MESSAGE[d][j] # ESC
  <2>1. \A j \in 1..(i + 1) : j \in 1..i \/ j = i + 1
    BY <1>2
  <2> QED BY <1>2, <2>1 DEF Accepted
<1> HIDE DEF s, ok, i
<1>5. /\ DOMAIN todo' = Domains /\ DOMAIN printedBy' = Domains /\ DOMAIN clientEnd' = Domains
      /\ todo'[d] = s /\ printedBy'[d] = i + 1 /\ (clientEnd'[d] <=> ~ok)
      /\ \A e \in Domains \ {d} : /\ todo'[e] = todo[e] /\ printedBy'[e] = printedBy[e]
                                  /\ clientEnd'[e] = clientEnd[e]
  BY <1>1 DEF TtyInv
<1>6. /\ mixed' \in BOOLEAN /\ (mixed => mixed')
      /\ \A e \in Domains : todo[e] # <<>> => mixed'
  BY <1>1 DEF TtyInv
<1>7. tinted' \in BOOLEAN /\ (tinted' => mixed')
  BY <1>1, <1>6 DEF TtyInv
<1>8. ASSUME NEW e \in Domains, e # d
      PROVE  /\ todo'[e] \in Seq(Calls(e))
             /\ \A k \in 1..Len(todo'[e]) :
                  Keeps(todo'[e][k]) => IF k = 1 THEN mixed' \/ colour' = e
                                        ELSE Tinting(e, todo'[e][k - 1])
             /\ printedBy'[e] \in Nat
             /\ ~clientEnd'[e] => \A k \in 1..printedBy'[e] : MESSAGE[e][k] # ESC
  <2>1. /\ todo'[e] = todo[e] /\ printedBy'[e] = printedBy[e] /\ clientEnd'[e] = clientEnd[e]
        /\ colour' = colour
    BY <1>1, <1>5, <1>8
  <2>2. /\ todo[e] \in Seq(Calls(e))
        /\ \A k \in 1..Len(todo[e]) :
             Keeps(todo[e][k]) => IF k = 1 THEN mixed \/ colour = e
                                  ELSE Tinting(e, todo[e][k - 1])
        /\ printedBy[e] \in Nat
        /\ ~clientEnd[e] => \A k \in 1..printedBy[e] : MESSAGE[e][k] # ESC
    BY DEF TtyInv
  <2> QED BY <1>6, <2>1, <2>2
<1>9. /\ todo'[d] \in Seq(Calls(d))
      /\ \A k \in 1..Len(todo'[d]) :
           Keeps(todo'[d][k]) => IF k = 1 THEN mixed' \/ colour' = d
                                 ELSE Tinting(d, todo'[d][k - 1])
      /\ printedBy'[d] \in Nat
      /\ ~clientEnd'[d] => \A k \in 1..printedBy'[d] : MESSAGE[d][k] # ESC
  <2>1. \A k \in 1..Len(s) : Keeps(s[k]) => k # 1 /\ Tinting(d, s[k - 1])
    BY <1>3 DEF Chained
  <2>2. i + 1 \in Nat
    BY <1>2
  <2> QED BY <1>3, <1>4, <1>5, <2>1, <2>2
<1>10. \A e, f \in Domains : e # f /\ todo'[e] # <<>> /\ todo'[f] # <<>> => mixed'
  BY <1>5, <1>6
<1>11. RegionsFit => \A q \in DOMAIN cells' : CellOk(cells'[q].by, q, cells'[q].char)
  BY <1>1 DEF TtyInv
<1>12. \A e \in Domains :
         /\ todo'[e] \in Seq(Calls(e))
         /\ \A k \in 1..Len(todo'[e]) :
              Keeps(todo'[e][k]) => IF k = 1 THEN mixed' \/ colour' = e
                                    ELSE Tinting(e, todo'[e][k - 1])
         /\ printedBy'[e] \in Nat
         /\ ~clientEnd'[e] => \A k \in 1..printedBy'[e] : MESSAGE[e][k] # ESC
  BY <1>8, <1>9
<1> QED BY <1>5, <1>6, <1>7, <1>10, <1>11, <1>12 DEF TtyInv

LEMMA PrintfStep == \A d \in Domains : TtyInv /\ Printf(d) => TtyInv'
<1> SUFFICES ASSUME NEW d \in Domains, TtyInv, Printf(d) PROVE TtyInv'
  OBVIOUS
<1> DEFINE s == todo[d]
           p == Head(s)
           t == Tail(s)
<1>1. /\ s # <<>> /\ todo' = [todo EXCEPT ![d] = t]
      /\ printedBy' = printedBy /\ clientEnd' = clientEnd /\ mixed' = mixed
  BY DEF Printf
<1>2. /\ s \in Seq(Calls(d))
      /\ \A k \in 1..Len(s) : Keeps(s[k]) => IF k = 1 THEN mixed \/ colour = d
                                             ELSE Tinting(d, s[k - 1])
  BY DEF TtyInv
<1>3. \/ ~Keeps(p) /\ colour' = p.char /\ cells' = cells /\ tinted' = tinted
      \/ Keeps(p) /\ colour' = colour /\ cells' = cells /\ tinted' = tinted
      \/ /\ Keeps(p) /\ p.at # <<>> /\ colour' = colour
         /\ cells' = [q \in DOMAIN cells \cup {Lands(p.at)} |->
                       IF q = Lands(p.at) THEN [char |-> p.char, by |-> d] ELSE cells[q]]
         /\ tinted' = (tinted \/ colour # d)
  BY DEF Printf, Keeps
<1> HIDE DEF s
<1>4. p \in Calls(d) /\ p = s[1] /\ 1 \in 1..Len(s)
  BY <1>1, <1>2
<1>5. /\ t \in Seq(Calls(d)) /\ Len(t) = Len(s) - 1 /\ Len(s) \in Nat
      /\ \A k \in 1..Len(t) : t[k] = s[k + 1] /\ k + 1 \in 1..Len(s) /\ k + 1 # 1
                              /\ (k + 1) - 1 = k /\ (k # 1 => k - 1 \in 1..Len(t))
  BY <1>1, <1>2
<1> HIDE DEF p, t
<1>6. Keeps(p) => mixed \/ colour = d
  BY <1>2, <1>4
<1>7. Tinting(d, p) => mixed \/ colour' = d
  <2>1. CASE Keeps(p)
    BY <1>3, <1>6, <2>1
  <2>2. CASE p = Colour(d)
    <3>1. ~Keeps(p) /\ p.char = d
      BY <2>2, CallsAre DEF Colour
    <3> QED BY <1>3, <3>1
  <2> QED BY <2>1, <2>2 DEF Tinting
<1>8. \A k \in 1..Len(t) : Keeps(t[k]) => IF k = 1 THEN mixed \/ colour' = d
                                          ELSE Tinting(d, t[k - 1])
  <2> SUFFICES ASSUME NEW k \in 1..Len(t), Keeps(t[k])
               PROVE  IF k = 1 THEN mixed \/ colour' = d ELSE Tinting(d, t[k - 1])
    OBVIOUS
  <2>1. Tinting(d, s[k])
    BY <1>2, <1>5
  <2>2. CASE k = 1
    BY <1>4, <1>7, <2>1, <2>2
  <2>3. CASE k # 1
    <3>1. k - 1 \in 1..Len(t) /\ (k - 1) + 1 = k
      BY <1>5, <2>3
    <3>2. t[k - 1] = s[k]
      BY <1>5, <3>1
    <3> QED BY <2>1, <2>3, <3>2
  <2> QED BY <2>2, <2>3
<1>9. /\ DOMAIN todo' = Domains /\ todo'[d] = t
      /\ \A e \in Domains \ {d} : todo'[e] = todo[e]
  BY <1>1 DEF TtyInv
<1>10. \A e \in Domains \ {d} : todo[e] # <<>> => mixed
  BY <1>1 DEF TtyInv, s
<1>11. ASSUME NEW e \in Domains, e # d
       PROVE  /\ todo'[e] \in Seq(Calls(e))
              /\ \A k \in 1..Len(todo'[e]) :
                   Keeps(todo'[e][k]) => IF k = 1 THEN mixed' \/ colour' = e
                                         ELSE Tinting(e, todo'[e][k - 1])
  <2>1. todo'[e] = todo[e] /\ mixed' = mixed
    BY <1>1, <1>9, <1>11
  <2>2. /\ todo[e] \in Seq(Calls(e))
        /\ \A k \in 1..Len(todo[e]) :
             Keeps(todo[e][k]) => IF k = 1 THEN mixed \/ colour = e
                                  ELSE Tinting(e, todo[e][k - 1])
    BY DEF TtyInv
  <2>3. CASE todo[e] = <<>>
    <3>1. Len(todo[e]) = 0 /\ \A k : k \notin 1..0
      BY <2>3
    <3> QED BY <2>1, <2>2, <3>1
  <2>4. CASE todo[e] # <<>>
    BY <1>10, <1>11, <2>1, <2>2, <2>4
  <2> QED BY <2>3, <2>4
<1>12. \A e \in Domains :
         /\ todo'[e] \in Seq(Calls(e))
         /\ \A k \in 1..Len(todo'[e]) :
              Keeps(todo'[e][k]) => IF k = 1 THEN mixed' \/ colour' = e
                                    ELSE Tinting(e, todo'[e][k - 1])
  <2>1. /\ todo'[d] \in Seq(Calls(d))
        /\ \A k \in 1..Len(todo'[d]) :
             Keeps(todo'[d][k]) => IF k = 1 THEN mixed' \/ colour' = d
                                   ELSE Tinting(d, todo'[d][k - 1])
    BY <1>1, <1>5, <1>8, <1>9
  <2> QED BY <1>11, <2>1
<1>13. \A e, f \in Domains : e # f /\ todo'[e] # <<>> /\ todo'[f] # <<>> => mixed'
  BY <1>1, <1>9, <1>10
<1>14. tinted' \in BOOLEAN /\ (tinted' => mixed')
  <2>1. tinted \in BOOLEAN /\ (tinted => mixed) /\ mixed' = mixed
    BY <1>1 DEF TtyInv
  <2>2. CASE tinted' = tinted
    BY <2>1, <2>2
  <2>3. CASE Keeps(p) /\ tinted' = (tinted \/ colour # d)
    <3>1. tinted' \in BOOLEAN /\ (tinted' => tinted \/ colour # d)
      BY <2>3, Zenon
    <3> QED BY <1>6, <2>1, <2>3, <3>1
  <2> QED BY <1>3, <2>2, <2>3
<1>15. RegionsFit => \A q \in DOMAIN cells' : CellOk(cells'[q].by, q, cells'[q].char)
  <2> SUFFICES ASSUME RegionsFit
               PROVE  \A q \in DOMAIN cells' : CellOk(cells'[q].by, q, cells'[q].char)
    OBVIOUS
  <2>1. \A q \in DOMAIN cells : CellOk(cells[q].by, q, cells[q].char)
    BY DEF TtyInv
  <2>2. CASE cells' = cells
    BY <2>1, <2>2
  <2>3. CASE /\ p.at # <<>>
             /\ cells' = [q \in DOMAIN cells \cup {Lands(p.at)} |->
                           IF q = Lands(p.at) THEN [char |-> p.char, by |-> d] ELSE cells[q]]
    <3>1. CellOk(d, p.at, p.char) /\ Lands(p.at) = p.at
      BY <1>4, <2>3, CallsAre DEF OnScreen
    <3> DEFINE a == Lands(p.at)
               c == [char |-> p.char, by |-> d]
    <3>2. CellOk(c.by, a, c.char)
      BY <3>1
    <3>3. cells' = [q \in DOMAIN cells \cup {a} |-> IF q = a THEN c ELSE cells[q]]
      BY <2>3
    <3> HIDE DEF a, c
    <3> QED BY <2>1, <3>2, <3>3
  <2> QED BY <1>3, <2>2, <2>3
<1>16. /\ mixed' \in BOOLEAN /\ DOMAIN printedBy' = Domains /\ DOMAIN clientEnd' = Domains
       /\ \A e \in Domains :
            /\ printedBy'[e] \in Nat
            /\ ~clientEnd'[e] => \A k \in 1..printedBy'[e] : MESSAGE[e][k] # ESC
  BY <1>1 DEF TtyInv
<1> QED BY <1>9, <1>12, <1>13, <1>14, <1>15, <1>16 DEF TtyInv

\* Where a text belongs is in its domain's region.
LEMMA PlaceInRegion ==
  ASSUME NEW d \in Domains, NEW i \in Nat \ {0}, TextFits(d, i)
  PROVE  /\ TextPlace(d, i) \in RegionOf(d)
         /\ TextPlace(d, i)[1] - DomainX[d] = i - 1
<1>1. /\ DomainX[d] \in Nat /\ DomainY[d] \in Nat /\ DomainWidth[d] \in Nat
      /\ DomainHeight[d] \in Nat /\ i <= DomainWidth[d] /\ DomainHeight[d] > 0
  BY DEF TextFits
<1>2. i - 1 \in 0..(DomainWidth[d] - 1) /\ 0 \in 0..(DomainHeight[d] - 1)
  BY <1>1
<1>3. TextPlace(d, i) = <<DomainX[d] + (i - 1), DomainY[d] + 0>>
  BY <1>1 DEF TextPlace
<1>4. (DomainX[d] + (i - 1)) - DomainX[d] = i - 1
  BY <1>1
<1> QED BY <1>2, <1>3, <1>4 DEF RegionOf

LEMMA PrintCharText ==
  ASSUME NEW d \in Domains, RegionsFit, TtyInv, ShownInv, PrintChar(d)
  PROVE  ShownInv'
<1> DEFINE i == printedBy[d]
           s == put_char(d, i, 0, MESSAGE[d][i + 1])
           ok == Accepted(d, i, 0, MESSAGE[d][i + 1])
<1>1. /\ todo[d] = <<>> /\ todo' = [todo EXCEPT ![d] = s]
      /\ printedBy' = [printedBy EXCEPT ![d] = i + 1]
      /\ clientEnd' = [clientEnd EXCEPT ![d] = ~ok] /\ cells' = cells
      /\ DOMAIN todo = Domains /\ DOMAIN printedBy = Domains /\ DOMAIN clientEnd = Domains
      /\ i \in Nat /\ \A j \in 1..i : MESSAGE[d][j] # ESC
  BY DEF PrintChar, TtyInv
<1>2. ok => \E k \in 1..Len(s) : s[k] = TextPut(d, i + 1)
  <2>1. \A n \in Nat : /\ \A j \in 1..n : MESSAGE[d][j] # ESC
                      /\ Accepted(d, n, 0, MESSAGE[d][n + 1]) =>
            \E k \in 1..Len(put_char(d, n, 0, MESSAGE[d][n + 1])) :
              put_char(d, n, 0, MESSAGE[d][n + 1])[k]
                = Put(DomainX[d] + n, DomainY[d] + 0, MESSAGE[d][n + 1])
    BY PutCharDraws
  <2>2. \A n \in Nat : Put(DomainX[d] + n, DomainY[d] + 0, MESSAGE[d][n + 1]) = TextPut(d, n + 1)
    <3> TAKE n \in Nat
    <3>1. DomainX[d] + (n + 1) - 1 = DomainX[d] + n /\ DomainY[d] + 0 = DomainY[d]
      OBVIOUS
    <3> QED BY <3>1 DEF TextPut
  <2> HIDE DEF i
  <2> QED BY <1>1, <2>1, <2>2
<1>3. TextFits(d, i + 1) => ok
  <2> SUFFICES ASSUME TextFits(d, i + 1) PROVE ok
    OBVIOUS
  <2>1. /\ i + 1 <= DomainWidth[d] /\ DomainHeight[d] > 0 /\ MESSAGE[d][i + 1] # ESC
        /\ DomainX[d] \in Nat /\ DomainWidth[d] \in Nat /\ DomainHeight[d] \in Nat
    BY <1>1 DEF TextFits
  <2>2. DomainX[d] + DomainWidth[d] < TERMINAL_WIDTH /\ DomainHeight[d] < TERMINAL_HEIGHT
    BY DEF RegionsFit
  <2> HIDE DEF i
  <2> QED BY <1>1, <2>1, <2>2 DEF Accepted, InBounds
<1> HIDE DEF s, ok, i
<1>4. /\ todo'[d] = s /\ printedBy'[d] = i + 1 /\ (clientEnd'[d] <=> ~ok)
      /\ \A e \in Domains \ {d} : /\ todo'[e] = todo[e] /\ printedBy'[e] = printedBy[e]
                                  /\ (clientEnd'[e] <=> clientEnd[e])
  BY <1>1
<1>5. \A e \in Domains, n \in Nat : Shows(e, n) => Shows(e, n)'
  BY <1>1 DEF Shows
<1>6. ASSUME NEW e \in Domains, e # d, NEW n \in 1..printedBy'[e], TextFits(e, n)
      PROVE  ShownOrDue(e, n)'
  <2>1. n \in Nat /\ ShownOrDue(e, n) /\ todo'[e] = todo[e] /\ printedBy'[e] = printedBy[e]
    BY <1>4, <1>6 DEF ShownInv
  <2> QED BY <1>5, <2>1 DEF ShownOrDue
<1>7. ASSUME NEW n \in 1..printedBy'[d], TextFits(d, n) PROVE ShownOrDue(d, n)'
  <2>1. CASE n = i + 1
    <3>1. \E k \in 1..Len(s) : s[k] = TextPut(d, n)
      BY <1>2, <1>3, <1>7, <2>1
    <3> QED BY <1>4, <2>1, <3>1 DEF ShownOrDue
  <2>2. CASE n # i + 1
    <3>1. n \in 1..i /\ n \in Nat
      BY <1>1, <1>4, <2>2
    <3>2. ShownOrDue(d, n)
      BY <1>7, <3>1 DEF ShownInv, i
    <3>3. 1..Len(todo[d]) = {}
      BY <1>1
    <3> QED BY <1>5, <3>1, <3>2, <3>3 DEF ShownOrDue
  <2> QED BY <2>1, <2>2
<1>8. ASSUME NEW e \in Domains, clientEnd'[e] PROVE ~TextFits(e, printedBy'[e])
  <2>1. CASE e = d
    BY <1>3, <1>4, <1>8, <2>1
  <2>2. CASE e # d
    BY <1>4, <1>8, <2>2 DEF ShownInv
  <2> QED BY <2>1, <2>2
<1>9. \A e, n : TextFits(e, n)' <=> TextFits(e, n)
  BY DEF TextFits
<1> QED BY <1>6, <1>7, <1>8, <1>9 DEF ShownInv

LEMMA PrintfText ==
  ASSUME NEW d \in Domains, RegionsFit, TtyInv, ShownInv, Printf(d)
  PROVE  ShownInv'
<1> DEFINE s == todo[d]
           p == Head(s)
           t == Tail(s)
<1>1. /\ s # <<>> /\ todo' = [todo EXCEPT ![d] = t] /\ s \in Seq(Calls(d))
      /\ printedBy' = printedBy /\ clientEnd' = clientEnd /\ DOMAIN todo = Domains
      /\ \A e \in Domains : printedBy[e] \in Nat
      /\ \A q \in DOMAIN cells : CellOk(cells[q].by, q, cells[q].char)
  BY DEF Printf, TtyInv
<1>2. \/ cells' = cells /\ p.at = <<>>
      \/ /\ p.at # <<>>
         /\ cells' = [q \in DOMAIN cells \cup {Lands(p.at)} |->
                       IF q = Lands(p.at) THEN [char |-> p.char, by |-> d] ELSE cells[q]]
  BY DEF Printf
<1> HIDE DEF s
<1>3. /\ p \in Calls(d) /\ p = s[1] /\ t \in Seq(Calls(d)) /\ Len(t) = Len(s) - 1 /\ Len(s) \in Nat
      /\ \A k \in 1..Len(s) : k # 1 => k - 1 \in 1..Len(t) /\ t[k - 1] = s[k]
  BY <1>1
<1> HIDE DEF p, t
<1>4. /\ todo'[d] = t /\ \A e \in Domains \ {d} : todo'[e] = todo[e]
  BY <1>1
<1>5. p.at # <<>> => CellOk(d, p.at, p.char) /\ Lands(p.at) = p.at
  BY <1>3, CallsAre DEF OnScreen
\* Nothing is written over a text but the text itself.
<1>6. ASSUME NEW e \in Domains, NEW n \in Nat \ {0}, TextFits(e, n), Shows(e, n)
      PROVE  Shows(e, n)'
  <2> DEFINE a == TextPlace(e, n)
             m == [char |-> MESSAGE[e][n], by |-> e]
  <2>1. a \in DOMAIN cells /\ cells[a] = m /\ (Shows(e, n)' <=> a \in DOMAIN cells' /\ cells'[a] = m)
    BY <1>6 DEF Shows, TextPlace
  <2>2. a \in RegionOf(e) /\ a[1] - DomainX[e] = n - 1 /\ (n - 1) + 1 = n
    BY <1>6, PlaceInRegion
  <2>3. CASE cells' = cells
    BY <2>1, <2>3
  <2>4. CASE p.at # <<>> /\ p.at # a
    <3> HIDE DEF a, m
    <3> QED BY <1>2, <1>5, <2>1, <2>4
  <2>5. CASE p.at # <<>> /\ p.at = a
    <3>1. e = d
      BY <1>5, <2>2, <2>5 DEF CellOk
    <3>2. p.char = MESSAGE[e][n]
      BY <1>5, <2>2, <2>5, <3>1 DEF CellOk
    <3> QED BY <1>2, <1>5, <2>1, <2>5, <3>1, <3>2
  <2> QED BY <1>2, <2>3, <2>4, <2>5
<1>7. ASSUME NEW e \in Domains, e # d, NEW n \in 1..printedBy[e], TextFits(e, n)
      PROVE  ShownOrDue(e, n)'
  <2>1. n \in Nat \ {0} /\ ShownOrDue(e, n) /\ todo'[e] = todo[e]
    BY <1>1, <1>4, <1>7 DEF ShownInv
  <2>2. Shows(e, n) => Shows(e, n)'
    BY <1>6, <1>7, <2>1
  <2> QED BY <1>1, <2>1, <2>2 DEF ShownOrDue
<1>8. ASSUME NEW n \in 1..printedBy[d], TextFits(d, n) PROVE ShownOrDue(d, n)'
  <2>1. n \in Nat \ {0} /\ ShownOrDue(d, n)
    BY <1>1, <1>8 DEF ShownInv
  <2>2. CASE Shows(d, n)
    BY <1>6, <1>8, <2>1, <2>2 DEF ShownOrDue
  <2>3. CASE n = printedBy[d] /\ \E k \in 1..Len(s) : s[k] = TextPut(d, n)
    <3>1. PICK k \in 1..Len(s) : s[k] = TextPut(d, n)
      BY <2>3
    <3>2. CASE k # 1
      <4>1. k - 1 \in 1..Len(t) /\ t[k - 1] = TextPut(d, n)
        BY <1>3, <3>1, <3>2
      <4>2. \E j \in 1..Len(todo'[d]) : todo'[d][j] = TextPut(d, n)
        BY <1>4, <4>1
      <4>3. n = printedBy'[d] /\ TextPut(d, n)' = TextPut(d, n)
        BY <1>1, <2>3 DEF TextPut
      <4> QED BY <4>2, <4>3 DEF ShownOrDue
    <3>3. CASE k = 1
      <4>1. p.at = TextPlace(d, n) /\ p.char = MESSAGE[d][n] /\ p.at # <<>>
        <5>1. p = Put(DomainX[d] + n - 1, DomainY[d], MESSAGE[d][n])
          BY <1>3, <3>1, <3>3 DEF TextPut
        <5>2. \A x, y : <<x, y>> # <<>>
          OBVIOUS
        <5> QED BY <5>1, <5>2 DEF Put, TextPlace
      <4>2. /\ TextPlace(d, n) \in DOMAIN cells'
            /\ cells'[TextPlace(d, n)] = [char |-> MESSAGE[d][n], by |-> d]
        BY <1>2, <1>5, <4>1
      <4>3. Shows(d, n)'
        BY <4>2 DEF Shows, TextPlace
      <4> QED BY <4>3 DEF ShownOrDue
    <3> QED BY <3>2, <3>3
  <2> QED BY <2>1, <2>2, <2>3 DEF ShownOrDue, s
<1>9. \A e, n : TextFits(e, n)' <=> TextFits(e, n)
  BY DEF TextFits
<1> QED BY <1>1, <1>7, <1>8, <1>9 DEF ShownInv

LEMMA TtyInit == DisplayInit => TtyInv
<1> SUFFICES ASSUME DisplayInit PROVE TtyInv
  OBVIOUS
<1>1. /\ mixed \in BOOLEAN /\ tinted \in BOOLEAN /\ ~tinted /\ DOMAIN cells = {}
      /\ DOMAIN todo = Domains /\ DOMAIN printedBy = Domains /\ DOMAIN clientEnd = Domains
      /\ \A d \in Domains : todo[d] = <<>> /\ printedBy[d] = 0
  <2>1. mixed = FALSE /\ tinted = FALSE /\ cells = <<>>
    BY DEF DisplayInit
  <2>2. DOMAIN cells = {}
    <3>1. DOMAIN <<>> = {}
      OBVIOUS
    <3> QED BY <2>1, <3>1
  <2>3. /\ DOMAIN todo = Domains /\ DOMAIN printedBy = Domains /\ DOMAIN clientEnd = Domains
        /\ \A d \in Domains : todo[d] = <<>> /\ printedBy[d] = 0
    BY DEF DisplayInit
  <2> QED BY <2>1, <2>2, <2>3
<1>2. \A k : k \notin 1..0
  OBVIOUS
<1>3. \A d \in Domains : todo[d] \in Seq(Calls(d)) /\ Len(todo[d]) = 0
  <2> TAKE d \in Domains
  <2>1. Len(<<>>) = 0 /\ <<>> \in Seq(Calls(d))
    OBVIOUS
  <2>2. todo[d] = <<>>
    BY <1>1
  <2> QED BY <2>1, <2>2
<1> QED BY <1>1, <1>2, <1>3 DEF TtyInv

LEMMA ShownInit == DisplayInit => ShownInv
<1> SUFFICES ASSUME DisplayInit PROVE ShownInv
  OBVIOUS
<1>1. \A d \in Domains : printedBy[d] = 0 /\ ~clientEnd[d]
  BY DEF DisplayInit
<1>2. 1..0 = {}
  OBVIOUS
<1> QED BY <1>1, <1>2 DEF ShownInv

DisplaysInv == TtyInv /\ (RegionsFit => ShownInv) /\ VgaInv

LEMMA TerminalStep == DisplaysInv /\ (TerminalNext \/ UNCHANGED terminalVars) => DisplaysInv'
<1> SUFFICES ASSUME DisplaysInv, TerminalNext \/ UNCHANGED terminalVars
             PROVE  TtyInv' /\ VgaInv' /\ (RegionsFit => ShownInv')
  <2>1. RegionsFit' <=> RegionsFit
    BY DEF RegionsFit
  <2> QED BY <2>1 DEF DisplaysInv
<1> USE DEF DisplaysInv
<1>0. ASSUME UNCHANGED ttyVars PROVE RegionsFit => ShownInv'
  <2>1. cells' = cells /\ todo' = todo /\ printedBy' = printedBy /\ clientEnd' = clientEnd
    BY <1>0 DEF ttyVars
  <2> QED BY <2>1 DEF ShownInv, ShownOrDue, Shows, TextFits, TextPlace, TextPut
<1>1. ASSUME UNCHANGED ttyVars PROVE TtyInv'
  <2>1. /\ colour' = colour /\ cells' = cells /\ todo' = todo /\ printedBy' = printedBy
        /\ clientEnd' = clientEnd /\ mixed' = mixed /\ tinted' = tinted
    BY <1>1 DEF ttyVars
  <2>2. /\ mixed' \in BOOLEAN /\ tinted' \in BOOLEAN /\ (tinted' => mixed')
        /\ DOMAIN todo' = Domains /\ DOMAIN printedBy' = Domains /\ DOMAIN clientEnd' = Domains
        /\ \A d, e \in Domains : d # e /\ todo'[d] # <<>> /\ todo'[e] # <<>> => mixed'
        /\ RegionsFit => \A q \in DOMAIN cells' : CellOk(cells'[q].by, q, cells'[q].char)
    BY <2>1 DEF TtyInv
  <2>3. \A d \in Domains :
          /\ todo'[d] \in Seq(Calls(d))
          /\ \A i \in 1..Len(todo'[d]) :
               Keeps(todo'[d][i]) => IF i = 1 THEN mixed' \/ colour' = d
                                     ELSE Tinting(d, todo'[d][i - 1])
          /\ printedBy'[d] \in Nat
          /\ ~clientEnd'[d] => \A i \in 1..printedBy'[d] : MESSAGE[d][i] # ESC
    BY <2>1 DEF TtyInv
  <2> QED BY <2>2, <2>3 DEF TtyInv
<1>2. CASE UNCHANGED terminalVars
  BY <1>0, <1>1, <1>2, VgaStep DEF terminalVars
<1>3. CASE terminal_write
  BY <1>0, <1>1, <1>3, VgaStep DEF terminal_write
<1>4. ASSUME NEW d \in Domains, PrintChar(d) PROVE TtyInv' /\ VgaInv' /\ (RegionsFit => ShownInv')
  <2>1. UNCHANGED vgaVars
    BY <1>4 DEF PrintChar
  <2> QED BY <1>4, <2>1, PrintCharStep, PrintCharText, VgaStep
<1>5. ASSUME NEW d \in Domains, Printf(d) PROVE TtyInv' /\ VgaInv' /\ (RegionsFit => ShownInv')
  <2>1. UNCHANGED vgaVars
    BY <1>5 DEF Printf
  <2> QED BY <1>5, <2>1, PrintfStep, PrintfText, VgaStep
<1> QED BY <1>2, <1>3, <1>4, <1>5 DEF TerminalNext

(* Terminal: on a terminal that the regions fit, the text of each of two     *)
(* clients of the display manager is shown, up to the first control          *)
(* character and as far as it fits, in its own region and nothing else       *)
(* there, in its own colour as long as the requests are not served at a      *)
(* time, and no client writes over a border (display.c:94-143).              *)
(* vgatest's string goes over its screen row by row, and on from the top     *)
(* when it is full (vgadriver.c:91-100).                                     *)
THEOREM TextIsDisplayed == Spec => []TextDisplays
<1>1. Init => DisplaysInv
  <2>1. Init => DisplayInit /\ terminal_initialize
    BY DEF Init, TerminalInit
  <2> QED BY <2>1, TtyInit, ShownInit, VgaInit DEF DisplaysInv
<1>2. DisplaysInv /\ [Next]_vars => DisplaysInv'
  <2>1. [Next]_vars => TerminalNext \/ UNCHANGED terminalVars
    BY DEF Next, vars
  <2> QED BY <2>1, TerminalStep
<1>3. DisplaysInv => TextDisplays
  <2>1. DisplaysInv => TtyInv /\ (RegionsFit => ShownInv) /\ VgaKept
    BY DEF DisplaysInv, VgaInv
  <2> QED BY <2>1, TtyKept DEF TextDisplays
<1> QED BY <1>1, <1>2, <1>3, PTL DEF Spec
-----------------------------------------------------------------------------
(* aeroplage: the windows                                                    *)

HIDE TerminalAssumption
USE ConsoleAssumption

\* Where the character after m others belongs.
Place(w, m) == [x |-> LeftEdge(w) + 2 + (m % Columns) * CHAR_WIDTH,
                y |-> 104 + CHAR_HEIGHT + (m \div Columns) * CHAR_HEIGHT]

LEMMA RoomFacts ==
  /\ Columns \in Nat \ {0} /\ Rows \in Nat \ {0} /\ Room \in Nat \ {0}
  /\ Columns * CHAR_WIDTH = WIDTH - 4
  /\ Rows * CHAR_HEIGHT < HEIGHT - 4 - CHAR_HEIGHT
  /\ HEIGHT - 4 - CHAR_HEIGHT < (Rows + 1) * CHAR_HEIGHT
<1> DEFINE a == WIDTH - 4
           b == HEIGHT - 4 - CHAR_HEIGHT
<1>1. /\ a \in Nat /\ b \in Nat /\ a >= CHAR_WIDTH /\ b >= CHAR_HEIGHT
      /\ a % CHAR_WIDTH = 0 /\ (b + CHAR_HEIGHT) % CHAR_HEIGHT # 0
      /\ CHAR_WIDTH \in Nat \ {0, 1} /\ CHAR_HEIGHT \in Nat \ {0}
  <2>1. b + CHAR_HEIGHT = HEIGHT - 4
    OBVIOUS
  <2> HIDE DEF b
  <2>2. b = HEIGHT - 4 - CHAR_HEIGHT
    BY DEF b
  <2> QED BY <2>1, <2>2
<1>2. Columns = a \div CHAR_WIDTH /\ Rows = b \div CHAR_HEIGHT
  BY DEF Columns, Rows
<1> HIDE DEF a, b
<1> USE DEF Columns, Rows
<1>3. \A n \in Nat, p \in Nat \ {0} :
        n = p * (n \div p) + (n % p) /\ (n % p) \in 0..(p - 1) /\ (n \div p) \in Int
  OBVIOUS
<1> DEFINE w == CHAR_WIDTH
           h == CHAR_HEIGHT
           q == a \div w
           r == b \div h
           s == b % h
<1>4. a = w * q + 0 /\ q \in Int /\ w \in Nat \ {0, 1}
  BY <1>1, <1>3
<1>5. b = h * r + s /\ s \in 0..(h - 1) /\ r \in Int /\ h \in Nat \ {0}
  BY <1>1, <1>3
<1>6. (b + h) % h = s
  <2> DEFINE t == (b + h) \div h
             u == (b + h) % h
  <2>1. b + h = h * t + u /\ u \in 0..(h - 1) /\ t \in Int
    <3> DEFINE n == b + h
    <3>1. n \in Nat /\ h \in Nat \ {0}
      BY <1>1
    <3> HIDE DEF n, h
    <3>2. n = h * (n \div h) + (n % h) /\ (n % h) \in 0..(h - 1) /\ (n \div h) \in Int
      BY <1>3, <3>1
    <3> QED BY <3>2 DEF n
  <2> HIDE DEF t, u, r, s, h
  <2> DEFINE e == t - r - 1
  <2>2. e \in Int /\ h * e = h * t - h * r - h
    BY <1>5, <2>1
  <2> HIDE DEF e
  <2>3. h * e = s - u
    BY <1>1, <1>5, <2>1, <2>2
  <2>4. CASE e >= 1
    <3>1. h * e >= h
      BY <1>5, <2>2, <2>4
    <3> QED BY <1>5, <2>1, <2>3, <3>1
  <2>5. CASE e = 0
    BY <1>5, <2>1, <2>3, <2>5 DEF u
  <2>6. CASE e <= -1
    <3>1. h * e <= h * (-1)
      BY <1>5, <2>2, <2>6
    <3> QED BY <1>5, <2>1, <2>3, <3>1
  <2> QED BY <2>2, <2>4, <2>5, <2>6
<1>7. s # 0
  BY <1>1, <1>6
<1> HIDE DEF q, r, s, w, h
<1>8. w = CHAR_WIDTH /\ h = CHAR_HEIGHT /\ a >= w /\ b >= h
  BY <1>1 DEF w, h
<1>9. q \in Nat \ {0} /\ q * w = a
  <2>1. CASE q <= 0
    <3>1. w * q <= 0
      BY <1>4, <2>1
    <3> QED BY <1>4, <1>8, <3>1
  <2> QED BY <1>4, <2>1
<1>10. r \in Nat \ {0} /\ r * h = h * r /\ (r + 1) * h = h * r + h
  <2>1. CASE r <= 0
    <3>1. h * r <= 0
      BY <1>5, <2>1
    <3> QED BY <1>5, <1>8, <3>1
  <2> QED BY <1>5, <2>1
<1>11. r * h < b /\ b < (r + 1) * h
  BY <1>5, <1>7, <1>10
<1>12. q * r \in Nat \ {0}
  BY <1>9, <1>10
<1>13. Columns = q /\ Rows = r /\ Room = q * r
  BY <1>2, <1>8 DEF q, r, Room
<1> HIDE DEF Columns, Rows
<1> QED BY <1>8, <1>9, <1>10, <1>11, <1>12, <1>13 DEF a, b

\* The place after the next one.
LEMMA NextPlace ==
  ASSUME NEW w \in Windows, NEW m \in Nat
  PROVE  NextPen(w, Place(w, m)) = Place(w, m + 1)
<1> DEFINE c == m % Columns
           d == m \div Columns
           x == LeftEdge(w)
           k == CHAR_WIDTH
           h == CHAR_HEIGHT
<1>1. /\ Columns \in Nat \ {0} /\ Columns * k = WIDTH - 4 /\ k \in Nat \ {0, 1} /\ h \in Nat
      /\ WIDTH \in Nat
  BY RoomFacts
<1>2. x \in Nat
  BY DEF LeftEdge
<1>3. /\ c \in 0..(Columns - 1)
      /\ (m + 1) % Columns = IF c + 1 = Columns THEN 0 ELSE c + 1
  BY <1>1, NextRemainder
<1>4. (m + 1) \div Columns = IF (m + 1) % Columns = 0 THEN d + 1 ELSE d
  BY <1>1, NextMultiple
<1>5. d \in Int
  BY <1>1
<1> HIDE DEF c, d, x
<1> DEFINE p == Place(w, m)
           wrap == p.x + k >= x + WIDTH - 3
<1>6. p.x = x + 2 + c * k /\ p.y = 104 + h + d * h /\ p = [x |-> p.x, y |-> p.y]
  BY DEF Place, c, d, x
<1>7. /\ c * k \in Nat /\ (c + 1) * k = c * k + k
      /\ (c + 1 # Columns => (c + 1) * k <= (Columns - 1) * k)
      /\ (Columns - 1) * k + k = Columns * k
  <2>1. \A a, b \in Nat : a <= b => a * k <= b * k /\ a * k \in Nat /\ (a + 1) * k = a * k + k
    BY <1>1, TimesMonotone
  <2>2. c \in Nat /\ c + 1 \in Nat /\ Columns - 1 \in Nat /\ c <= c
        /\ (c + 1 # Columns => c + 1 <= Columns - 1) /\ (Columns - 1) + 1 = Columns
    BY <1>1, <1>3
  <2> HIDE DEF k
  <2> QED BY <2>1, <2>2
<1>8. wrap <=> c + 1 = Columns
  <2> HIDE DEF k
  <2>1. CASE c + 1 = Columns
    BY <1>1, <1>2, <1>6, <1>7, <2>1
  <2>2. CASE c + 1 # Columns
    BY <1>1, <1>2, <1>6, <1>7, <2>2
  <2> QED BY <2>1, <2>2
<1>9. d * h + h = (d + 1) * h /\ 0 * k = 0
  BY <1>1, <1>5
<1>10. NextPen(w, p) = IF wrap THEN [x |-> x + 2, y |-> p.y + h] ELSE [x |-> p.x + k, y |-> p.y]
  BY <1>6 DEF NextPen, x
<1>11. Place(w, m + 1) = [x |-> x + 2 + ((m + 1) % Columns) * k,
                         y |-> 104 + h + ((m + 1) \div Columns) * h]
  BY DEF Place, x
<1> HIDE DEF k, h, p, wrap
<1>12. CASE c + 1 = Columns
  <2>1. (m + 1) % Columns = 0 /\ (m + 1) \div Columns = d + 1
    BY <1>3, <1>4, <1>12
  <2>2. /\ x + 2 + 0 * k = x + 2
        /\ 104 + h + (d + 1) * h = p.y + h
    <3>1. x + 2 + 0 * k = x + 2
      BY <1>2, <1>9
    <3>2. d * h \in Int /\ h \in Int
      BY <1>1, <1>5
    <3> DEFINE e == d * h
               f == (d + 1) * h
    <3>3. e \in Int /\ h \in Int /\ f = e + h /\ p.y = 104 + h + e
      BY <1>6, <1>9, <3>2
    <3> HIDE DEF e, f
    <3>4. 104 + h + f = p.y + h
      BY <3>3
    <3> QED BY <3>1, <3>4 DEF f
  <2> QED BY <1>8, <1>10, <1>11, <1>12, <2>1, <2>2 DEF p
<1>13. CASE c + 1 # Columns
  <2>1. (m + 1) % Columns = c + 1 /\ c + 1 # 0
    BY <1>1, <1>3, <1>13
  <2>2. (m + 1) \div Columns = d
    BY <1>4, <2>1
  <2>3. x + 2 + (c + 1) * k = p.x + k
    BY <1>1, <1>2, <1>6, <1>7
  <2> QED BY <1>6, <1>8, <1>10, <1>11, <1>13, <2>1, <2>2, <2>3 DEF p
<1> QED BY <1>12, <1>13 DEF p

\* The window is full when it shows all it has room for.
LEMMA FullPlace ==
  ASSUME NEW w \in Windows, NEW m \in 0..Room
  PROVE  Place(w, m).y >= 100 + HEIGHT - CHAR_HEIGHT <=> m = Room
<1> DEFINE c == m % Columns
           d == m \div Columns
           h == CHAR_HEIGHT
           q == Columns
           r == Rows
<1>1. /\ q \in Nat \ {0} /\ r \in Nat \ {0} /\ Room = q * r /\ h \in Nat /\ HEIGHT \in Nat
      /\ r * h < HEIGHT - 4 - h /\ HEIGHT - 4 - h < (r + 1) * h
  BY RoomFacts DEF Room
<1>2. m = q * d + c /\ c \in 0..(q - 1) /\ d \in Int /\ m \in Nat /\ m <= Room
  BY <1>1
<1>3. Place(w, m).y = 104 + h + d * h
  BY DEF Place
<1> HIDE DEF c, d, q, r, h, Room
<1>4. CASE m = Room
  <2> DEFINE e == r - d
  <2>1. e \in Int /\ q * e = q * r - q * d
    BY <1>1, <1>2
  <2> HIDE DEF e
  <2>2. q * e = c
    BY <1>1, <1>2, <1>4, <2>1
  <2>3. CASE e >= 1
    <3>1. q * e >= q
      BY <1>1, <2>1, <2>3
    <3> QED BY <1>1, <1>2, <2>2, <3>1
  <2>4. CASE e <= -1
    <3>1. q * e <= q * (-1)
      BY <1>1, <2>1, <2>4
    <3> QED BY <1>1, <1>2, <2>2, <3>1
  <2>5. CASE e = 0
    <3>1. d = r
      BY <1>1, <1>2, <2>5 DEF e
    <3>2. (r + 1) * h = r * h + h /\ r * h \in Int
      BY <1>1
    <3>3. 104 + h + d * h >= 100 + HEIGHT - h
      BY <1>1, <3>1, <3>2
    <3> QED BY <1>3, <1>4, <3>3 DEF h
  <2> QED BY <2>1, <2>3, <2>4, <2>5
<1>5. CASE m # Room
  <2>1. q * d < q * r
    <3>1. q * d \in Int
      BY <1>1, <1>2
    <3> QED BY <1>1, <1>2, <1>5, <3>1
  <2>2. d < r
    <3> SUFFICES ASSUME d >= r PROVE FALSE
      BY <1>1, <1>2
    <3>1. q * d >= q * r
      BY <1>1, <1>2
    <3> QED BY <1>1, <1>2, <2>1, <3>1
  <2>3. (d + 1) * h <= r * h /\ (d + 1) * h = d * h + h /\ d * h \in Int /\ r * h \in Int
    BY <1>1, <1>2, <2>2
  <2>4. ~(104 + h + d * h >= 100 + HEIGHT - h)
    BY <1>1, <2>3
  <2> QED BY <1>3, <1>5, <2>4 DEF h
<1> QED BY <1>4, <1>5

\* Characters drawn are inside the borders and not on each other.
LEMMA PlaceInside ==
  ASSUME NEW w \in Windows, NEW m \in Nat, m < Room
  PROVE  /\ Place(w, m).x > LeftEdge(w)
         /\ Place(w, m).x + CHAR_WIDTH - 1 < LeftEdge(w) + WIDTH
         /\ Place(w, m).y >= 104 + CHAR_HEIGHT
         /\ Place(w, m).y + CHAR_HEIGHT - 1 < 100 + HEIGHT
         /\ \A n \in 0..(m - 1) : Place(w, n) # Place(w, m)
<1> DEFINE c(n) == n % Columns
           d(n) == n \div Columns
           h == CHAR_HEIGHT
           k == CHAR_WIDTH
           q == Columns
           x == LeftEdge(w)
<1>1. /\ q \in Nat \ {0} /\ h \in Nat \ {0} /\ HEIGHT \in Nat /\ k \in Nat \ {0, 1}
      /\ q * k = WIDTH - 4 /\ WIDTH \in Nat /\ Room \in Nat
  BY RoomFacts
<1>2. x \in Nat
  BY DEF LeftEdge
<1>3. \A n \in Nat : n = q * d(n) + c(n) /\ c(n) \in 0..(q - 1) /\ d(n) \in Nat
  <2>1. \A n \in Nat : n = q * d(n) + c(n) /\ c(n) \in 0..(q - 1) /\ d(n) \in Int
    BY <1>1
  <2> TAKE n \in Nat
  <2> DEFINE e == d(n)
             f == c(n)
  <2>2. n = q * e + f /\ f \in 0..(q - 1) /\ e \in Int
    BY <2>1
  <2> HIDE DEF e, f, q
  <2>3. CASE e <= -1
    <3>1. q * e <= q * (-1)
      BY <1>1, <2>2, <2>3
    <3> QED BY <1>1, <2>2, <3>1
  <2> QED BY <2>2, <2>3 DEF e, f, q
<1>4. \A n \in Nat : Place(w, n) = [x |-> x + 2 + c(n) * k, y |-> 104 + h + d(n) * h]
  BY DEF Place
<1> HIDE DEF c, d, h, k, q, x
<1>5. /\ Place(w, m).x = x + 2 + c(m) * k /\ Place(w, m).y = 104 + h + d(m) * h
  BY <1>4
<1>6. /\ c(m) * k \in Nat /\ c(m) * k + k <= q * k /\ d(m) * h \in Nat
  <2>1. (c(m) + 1) * k <= q * k /\ (c(m) + 1) * k = c(m) * k + k /\ c(m) * k \in Nat
    <3>1. c(m) \in Nat /\ c(m) + 1 <= q /\ c(m) + 1 \in Nat /\ q \in Nat /\ k \in Nat
      <4>1. c(m) \in 0..(q - 1)
        BY <1>3
      <4> DEFINE e == c(m)
      <4> HIDE DEF e
      <4>2. e \in 0..(q - 1)
        BY <4>1 DEF e
      <4>3. e \in Nat /\ e + 1 <= q /\ e + 1 \in Nat /\ q \in Nat /\ k \in Nat
        BY <1>1, <4>2
      <4> QED BY <4>3 DEF e
    <3>2. (c(m) + 1) * k <= q * k
      BY <3>1, TimesMonotone
    <3>3. (c(m) + 1) * k = c(m) * k + k /\ c(m) * k \in Nat
      BY <3>1, TimesMonotone
    <3> QED BY <3>2, <3>3
  <2>2. d(m) * h \in Nat
    BY <1>1, <1>3
  <2> QED BY <2>1, <2>2
<1>7. 104 + h + d(m) * h < 100 + HEIGHT - h
  <2>1. m \in 0..Room /\ m # Room
    BY <1>1
  <2>2. ~(Place(w, m).y >= 100 + HEIGHT - h)
    BY <2>1, FullPlace DEF h
  <2> QED BY <1>1, <1>5, <1>6, <2>2
<1>8. ASSUME NEW n \in 0..(m - 1), Place(w, n) = Place(w, m) PROVE FALSE
  <2>1. n \in Nat /\ n # m
    OBVIOUS
  <2>2. x + 2 + c(n) * k = x + 2 + c(m) * k /\ 104 + h + d(n) * h = 104 + h + d(m) * h
    BY <1>4, <1>8, <2>1
  <2>3. c(n) * k = c(m) * k /\ d(n) * h = d(m) * h
    <3>1. c(n) * k \in Int /\ c(m) * k \in Int /\ d(n) * h \in Int /\ d(m) * h \in Int
      BY <1>1, <1>3, <2>1
    <3> QED BY <1>1, <1>2, <2>2, <3>1
  <2>4. \A a, b, e \in Nat : e # 0 /\ a * e = b * e => a = b
    <3> TAKE a, b, e \in Nat
    <3> HAVE e # 0 /\ a * e = b * e
    <3>1. CASE a < b
      <4>1. (a + 1) * e <= b * e /\ (a + 1) * e = a * e + e
        <5>1. a + 1 \in Nat /\ a + 1 <= b
          BY <3>1
        <5> QED BY <5>1, TimesMonotone
      <4> QED BY <4>1
    <3>2. CASE b < a
      <4>1. (b + 1) * e <= a * e /\ (b + 1) * e = b * e + e
        <5>1. b + 1 \in Nat /\ b + 1 <= a
          BY <3>2
        <5> QED BY <5>1, TimesMonotone
      <4> QED BY <4>1
    <3> QED BY <3>1, <3>2
  <2>5. c(n) = c(m) /\ d(n) = d(m)
    <3>1. /\ c(n) \in Nat /\ c(m) \in Nat /\ d(n) \in Nat /\ d(m) \in Nat
          /\ k \in Nat /\ k # 0 /\ h \in Nat /\ h # 0
      BY <1>1, <1>3, <2>1
    <3> QED BY <2>3, <2>4, <3>1
  <2>6. n = q * d(n) + c(n) /\ m = q * d(m) + c(m)
    BY <1>3, <2>1
  <2>7. n = m
    BY <2>5, <2>6, Zenon
  <2> QED BY <2>1, <2>7
<1>9. /\ x + 2 + c(m) * k > x /\ x + 2 + c(m) * k + k - 1 < x + WIDTH
      /\ 104 + h + d(m) * h >= 104 + h /\ 104 + h + d(m) * h + h - 1 < 100 + HEIGHT
  BY <1>1, <1>2, <1>6, <1>7
<1> QED BY <1>5, <1>8, <1>9 DEF x, k, h

HIDE ConsoleAssumption

\* The printable ones among the first n characters of a text.
Printables(text, n) == {i \in 1..n : printable(text[i])}

LEMMA PrintablesAre ==
  ASSUME NEW text, NEW n \in Nat
  PROVE  /\ IsFiniteSet(Printables(text, n)) /\ Cardinality(Printables(text, n)) \in Nat
         /\ Printables(text, 0) = {} /\ Cardinality(Printables(text, 0)) = 0
         /\ Printables(text, n + 1) = Printables(text, n)
                                      \cup (IF printable(text[n + 1]) THEN {n + 1} ELSE {})
         /\ Cardinality(Printables(text, n + 1)) =
              Cardinality(Printables(text, n)) + (IF printable(text[n + 1]) THEN 1 ELSE 0)
<1>1. IsFiniteSet(1..n) /\ Printables(text, n) \subseteq 1..n
  BY FS_Interval DEF Printables
<1>2. IsFiniteSet(Printables(text, n)) /\ Cardinality(Printables(text, n)) \in Nat
  BY <1>1, FS_Subset, FS_CardinalityType
<1>3. \A i : i \notin 1..0
  OBVIOUS
<1>4. Printables(text, 0) = {} /\ Cardinality(Printables(text, 0)) = 0
  BY <1>3, FS_EmptySet DEF Printables
<1>5. n + 1 \notin Printables(text, n) /\ \A i : i \in 1..(n + 1) <=> i \in 1..n \/ i = n + 1
  BY DEF Printables
<1>6. Printables(text, n + 1) = Printables(text, n)
                                \cup (IF printable(text[n + 1]) THEN {n + 1} ELSE {})
  BY <1>5 DEF Printables
<1>7. Cardinality(Printables(text, n) \cup {n + 1}) = Cardinality(Printables(text, n)) + 1
  BY <1>2, <1>5, FS_AddElement
<1>8. CASE printable(text[n + 1])
  BY <1>2, <1>4, <1>6, <1>7, <1>8
<1>9. CASE ~printable(text[n + 1])
  <2>1. Printables(text, n + 1) = Printables(text, n)
    BY <1>6, <1>9
  <2> QED BY <1>2, <1>4, <1>6, <1>9, <2>1
<1> QED BY <1>8, <1>9

\* A later printable character has a higher rank.
LEMMA RanksGrow ==
  ASSUME NEW text, NEW n \in Nat, NEW m \in Nat, n <= m
  PROVE  /\ Cardinality(Printables(text, n)) <= Cardinality(Printables(text, m))
         /\ n < m /\ printable(text[m])
            => Cardinality(Printables(text, n)) < Cardinality(Printables(text, m))
<1>1. \A a, b \in Nat : a <= b => Cardinality(Printables(text, a)) <= Cardinality(Printables(text, b))
  <2> TAKE a, b \in Nat
  <2> HAVE a <= b
  <2>1. Printables(text, a) \subseteq Printables(text, b)
    BY DEF Printables
  <2> QED BY <2>1, PrintablesAre, FS_Subset
<1>2. CASE n < m /\ printable(text[m])
  <2>1. m - 1 \in Nat /\ n <= m - 1 /\ (m - 1) + 1 = m
    BY <1>2
  <2>2. Cardinality(Printables(text, n)) <= Cardinality(Printables(text, m - 1))
    BY <1>1, <2>1
  <2>3. Cardinality(Printables(text, (m - 1) + 1)) = Cardinality(Printables(text, m - 1)) + 1
    BY <1>2, <2>1, PrintablesAre
  <2>4. Cardinality(Printables(text, n)) \in Nat /\ Cardinality(Printables(text, m - 1)) \in Nat
    BY <2>1, PrintablesAre
  <2> QED BY <1>1, <2>1, <2>2, <2>3, <2>4
<1> QED BY <1>1, <1>2

Drawings == [char : {"a", "8"}, at : {Place(w, m) : w \in Windows, m \in Nat}]

\* A window after n characters of its text have come: what is in it, and its pen.
DrawnAs(w, n, text, pic, p) ==
  /\ pic \in Seq(Drawings) /\ Len(pic) <= Room
  /\ Len(pic) = IF Cardinality(Printables(text, n)) < Room
                THEN Cardinality(Printables(text, n)) ELSE Room
  /\ \A i \in Printables(text, n) :
       Cardinality(Printables(text, i)) <= Len(pic)
       => pic[Cardinality(Printables(text, i))].char = text[i]
  /\ \A i \in 1..Len(pic) : pic[i].at = Place(w, i - 1)
  /\ p = Place(w, Len(pic))

LEMMA Drawing ==
  ASSUME NEW w \in Windows, NEW n \in Nat, NEW text, NEW pic, NEW p, NEW pic2, NEW p2,
         DrawnAs(w, n, text, pic, p),
         IF ~printable(text[n + 1]) \/ p.y >= 100 + HEIGHT - CHAR_HEIGHT
         THEN pic2 = pic /\ p2 = p
         ELSE pic2 = Append(pic, [char |-> text[n + 1], at |-> p]) /\ p2 = NextPen(w, p)
  PROVE  DrawnAs(w, n + 1, text, pic2, p2)
<1> DEFINE c == text[n + 1]
           k == Cardinality(Printables(text, n))
           k2 == Cardinality(Printables(text, n + 1))
           m == Len(pic)
<1>1. /\ pic \in Seq(Drawings) /\ m \in 0..Room /\ m \in Nat /\ Room \in Nat
      /\ m = (IF k < Room THEN k ELSE Room)
      /\ \A i \in 1..m : pic[i].at = Place(w, i - 1)
      /\ p = Place(w, m)
  BY RoomFacts DEF DrawnAs
<1>2. \A i \in Printables(text, n) :
        Cardinality(Printables(text, i)) <= m => pic[Cardinality(Printables(text, i))].char = text[i]
  BY DEF DrawnAs
<1>3. /\ k \in Nat /\ k2 = k + (IF printable(c) THEN 1 ELSE 0)
      /\ Printables(text, n + 1) = Printables(text, n) \cup (IF printable(c) THEN {n + 1} ELSE {})
  BY PrintablesAre
<1>4. p.y >= 100 + HEIGHT - CHAR_HEIGHT <=> m = Room
  BY <1>1, FullPlace
<1>5. n + 1 \in Nat
  OBVIOUS
<1> HIDE DEF c, k, k2, m
<1>6. CASE ~printable(c)
  <2>1. k2 = k /\ Printables(text, n + 1) = Printables(text, n) /\ pic2 = pic /\ p2 = p
    <3>1. Printables(text, n + 1) = Printables(text, n) \cup {} /\ k2 = k + 0
      BY <1>3, <1>6
    <3>2. pic2 = pic /\ p2 = p
      BY <1>6 DEF c
    <3> QED BY <1>3, <3>1, <3>2
  <2>2. Cardinality(Printables(text, n + 1)) = Cardinality(Printables(text, n))
    BY <2>1
  <2> QED BY <2>1, <2>2 DEF DrawnAs
<1>7. CASE printable(c) /\ m = Room
  <2>1. k2 = k + 1 /\ pic2 = pic /\ p2 = p /\ Printables(text, n + 1) = Printables(text, n) \cup {n + 1}
    BY <1>3, <1>4, <1>7 DEF c
  <2>2. ~(k2 < Room) /\ ~(k2 <= m)
    BY <1>1, <1>3, <1>7, <2>1
  <2>3. \A i \in Printables(text, n + 1) :
          Cardinality(Printables(text, i)) <= m => pic[Cardinality(Printables(text, i))].char = text[i]
    BY <1>2, <2>1, <2>2 DEF k2
  <2>4. pic2 \in Seq(Drawings) /\ Len(pic2) <= Room /\ Len(pic2) = Room
    BY <1>1, <1>7, <2>1 DEF m
  <2> QED BY <1>1, <2>1, <2>2, <2>3, <2>4 DEF DrawnAs, m, k2
<1>8. CASE printable(c) /\ m # Room
  <2> DEFINE e == [char |-> c, at |-> p]
  <2>1. /\ k2 = k + 1 /\ pic2 = Append(pic, e) /\ p2 = NextPen(w, p)
        /\ Printables(text, n + 1) = Printables(text, n) \cup {n + 1}
    BY <1>3, <1>4, <1>8 DEF c
  <2>2. k < Room /\ m = k /\ k2 = m + 1 /\ k2 <= Room
    BY <1>1, <1>3, <1>8, <2>1
  <2>3. e \in Drawings /\ e.char = c /\ e.at = p
    BY <1>1, <1>8 DEF Drawings, printable
  <2> HIDE DEF e
  <2>4. /\ pic2 \in Seq(Drawings) /\ Len(pic2) = m + 1 /\ pic2[m + 1] = e
        /\ \A i \in 1..m : pic2[i] = pic[i]
    BY <1>1, <2>1, <2>3, AppendProperties DEF m
  <2>5. p2 = Place(w, m + 1)
    BY <1>1, <2>1, NextPlace
  <2>6. \A i \in 1..(m + 1) : pic2[i].at = Place(w, i - 1)
    <3> TAKE i \in 1..(m + 1)
    <3>1. CASE i \in 1..m
      BY <1>1, <2>4, <3>1
    <3>2. CASE i = m + 1
      <4>1. i - 1 = m
        BY <1>1, <3>2
      <4> QED BY <1>1, <2>3, <2>4, <3>2, <4>1
    <3> QED BY <1>1, <3>1, <3>2
  <2>7. ASSUME NEW i \in Printables(text, n + 1)
        PROVE  pic2[Cardinality(Printables(text, i))].char = text[i]
    <3>1. CASE i = n + 1
      BY <2>2, <2>3, <2>4, <3>1 DEF c, k2
    <3>2. CASE i \in Printables(text, n)
      <4> DEFINE r == Cardinality(Printables(text, i))
      <4>1. i \in Nat /\ i <= n /\ printable(text[i]) /\ i - 1 \in Nat /\ (i - 1) + 1 = i
        BY <3>2 DEF Printables
      <4>2. r \in Nat /\ r <= k
        BY <4>1, RanksGrow, PrintablesAre DEF k
      <4>3. Cardinality(Printables(text, (i - 1) + 1)) = Cardinality(Printables(text, i - 1)) + 1
            /\ Cardinality(Printables(text, i - 1)) \in Nat
        BY <4>1, PrintablesAre
      <4>4. r >= 1
        BY <4>1, <4>3
      <4> HIDE DEF r
      <4>5. r \in 1..m
        BY <1>1, <2>2, <4>2, <4>4
      <4>6. pic[r].char = text[i]
        BY <1>1, <1>2, <3>2, <4>5 DEF r
      <4>7. pic2[r] = pic[r]
        BY <2>4, <4>5
      <4> QED BY <4>6, <4>7 DEF r
    <3> QED BY <2>1, <3>1, <3>2
  <2>8. Len(pic2) = IF k2 < Room THEN k2 ELSE Room
    BY <1>1, <2>2, <2>4
  <2>9. Len(pic2) <= Room
    BY <1>1, <2>2, <2>4
  <2> QED BY <2>4, <2>5, <2>6, <2>7, <2>8, <2>9 DEF DrawnAs, k2
<1> QED BY <1>6, <1>7, <1>8

\* It is the same for a longer text.
LEMMA TextGrows ==
  ASSUME NEW w, NEW n \in Nat, NEW text, NEW more, NEW pic, NEW p,
         DrawnAs(w, n, text, pic, p), \A i \in 1..n : more[i] = text[i]
  PROVE  DrawnAs(w, n, more, pic, p)
<1>1. \A m \in Nat : m <= n => Printables(more, m) = Printables(text, m)
  BY DEF Printables
<1>2. \A i \in Printables(text, n) :
        i \in 1..n /\ Printables(more, i) = Printables(text, i) /\ more[i] = text[i]
  BY <1>1 DEF Printables
<1>3. Printables(more, n) = Printables(text, n)
  BY <1>1
<1> QED BY <1>2, <1>3 DEF DrawnAs

Texts == [Windows -> Seq(PlainKeys)]
Counts == [Windows -> Nat]

\* The characters that have left the keyboard and not the switch, onWay, go to
\* the windows as the texts say: D[i] is where the switch sends when the i-th
\* comes, and R[i] how much each window was sent by then.
Routed(onWay, from, to, texts, past, D, R) ==
  /\ D[1] = from /\ D[Len(onWay) + 1] = to /\ R[1] = past
  /\ \A w \in Windows : R[Len(onWay) + 1][w] = Len(texts[w])
  /\ \A i \in 1..(Len(onWay) + 1) : \A w \in Windows : R[i][w] <= Len(texts[w])
  /\ \A i \in 1..Len(onWay) :
       \/ onWay[i] = SWITCH_CHAR /\ D[i + 1] = Other(D[i]) /\ R[i + 1] = R[i]
       \/ /\ onWay[i] # SWITCH_CHAR /\ D[i + 1] = D[i]
          /\ R[i + 1] = [R[i] EXCEPT ![D[i]] = @ + 1]
          /\ R[i][D[i]] < Len(texts[D[i]])
          /\ onWay[i] = texts[D[i]][R[i][D[i]] + 1]

Routes(onWay, from, to, texts, past) ==
  \E D \in [1..(Len(onWay) + 1) -> Windows], R \in [1..(Len(onWay) + 1) -> Counts] :
    Routed(onWay, from, to, texts, past, D, R)

\* The switch takes the first one.
LEMMA RouteFirst ==
  ASSUME NEW onWay \in Seq(PlainKeys), NEW from \in Windows, NEW to \in Windows,
         NEW texts \in Texts, NEW past \in Counts,
         Routes(onWay, from, to, texts, past), onWay # <<>>
  PROVE  /\ Head(onWay) = SWITCH_CHAR
            => Routes(Tail(onWay), Other(from), to, texts, past)
         /\ Head(onWay) # SWITCH_CHAR
            => /\ Routes(Tail(onWay), from, to, texts, [past EXCEPT ![from] = @ + 1])
               /\ past[from] < Len(texts[from]) /\ Head(onWay) = texts[from][past[from] + 1]
<1> DEFINE n == Len(onWay)
           rest == Tail(onWay)
<1>1. /\ n \in Nat \ {0} /\ Len(rest) = n - 1 /\ Head(onWay) = onWay[1]
      /\ \A i \in 1..(n - 1) : rest[i] = onWay[i + 1]
  OBVIOUS
<1>2. PICK D \in [1..(n + 1) -> Windows], R \in [1..(n + 1) -> Counts] :
        Routed(onWay, from, to, texts, past, D, R)
  BY DEF Routes
<1>3. /\ D[1] = from /\ D[n + 1] = to /\ R[1] = past
      /\ \A w \in Windows : R[n + 1][w] = Len(texts[w])
      /\ \A i \in 1..(n + 1) : \A w \in Windows : R[i][w] <= Len(texts[w])
      /\ \A i \in 1..n :
           \/ onWay[i] = SWITCH_CHAR /\ D[i + 1] = Other(D[i]) /\ R[i + 1] = R[i]
           \/ /\ onWay[i] # SWITCH_CHAR /\ D[i + 1] = D[i]
              /\ R[i + 1] = [R[i] EXCEPT ![D[i]] = @ + 1]
              /\ R[i][D[i]] < Len(texts[D[i]])
              /\ onWay[i] = texts[D[i]][R[i][D[i]] + 1]
  BY <1>2 DEF Routed
<1> HIDE DEF n, rest
<1> DEFINE D2 == [i \in 1..n |-> D[i + 1]]
           R2 == [i \in 1..n |-> R[i + 1]]
<1>4. /\ \A i \in 1..n : i + 1 \in 1..(n + 1) /\ D2[i] = D[i + 1] /\ R2[i] = R[i + 1]
      /\ 1 \in 1..n /\ n \in 1..n /\ (n - 1) + 1 = n
      /\ \A i \in 1..(n - 1) : i \in 1..n /\ i + 1 \in 1..n
  BY <1>1
<1>5. D2 \in [1..n -> Windows] /\ R2 \in [1..n -> Counts]
  BY <1>2, <1>4
<1> HIDE DEF D2, R2
<1>6. /\ D2[(n - 1) + 1] = to
      /\ \A w \in Windows : R2[(n - 1) + 1][w] = Len(texts[w])
      /\ \A i \in 1..((n - 1) + 1) : \A w \in Windows : R2[i][w] <= Len(texts[w])
  BY <1>3, <1>4
<1>7. \A i \in 1..(n - 1) :
        \/ rest[i] = SWITCH_CHAR /\ D2[i + 1] = Other(D2[i]) /\ R2[i + 1] = R2[i]
        \/ /\ rest[i] # SWITCH_CHAR /\ D2[i + 1] = D2[i]
           /\ R2[i + 1] = [R2[i] EXCEPT ![D2[i]] = @ + 1]
           /\ R2[i][D2[i]] < Len(texts[D2[i]])
           /\ rest[i] = texts[D2[i]][R2[i][D2[i]] + 1]
  <2> TAKE i \in 1..(n - 1)
  <2> DEFINE j == i + 1
  <2>1. /\ j \in 1..n /\ rest[i] = onWay[j] /\ D2[i] = D[j] /\ R2[i] = R[j]
        /\ D2[j] = D[j + 1] /\ R2[j] = R[j + 1]
    BY <1>1, <1>4
  <2> HIDE DEF j
  <2>2. \/ onWay[j] = SWITCH_CHAR /\ D[j + 1] = Other(D[j]) /\ R[j + 1] = R[j]
        \/ /\ onWay[j] # SWITCH_CHAR /\ D[j + 1] = D[j]
           /\ R[j + 1] = [R[j] EXCEPT ![D[j]] = @ + 1]
           /\ R[j][D[j]] < Len(texts[D[j]])
           /\ onWay[j] = texts[D[j]][R[j][D[j]] + 1]
    BY <1>3, <2>1
  <2> HIDE DEF SWITCH_CHAR, Other
  <2>3. \/ rest[i] = SWITCH_CHAR /\ D2[j] = Other(D2[i]) /\ R2[j] = R2[i]
        \/ /\ rest[i] # SWITCH_CHAR /\ D2[j] = D2[i]
           /\ R2[j] = [R2[i] EXCEPT ![D2[i]] = @ + 1]
           /\ R2[i][D2[i]] < Len(texts[D2[i]])
           /\ rest[i] = texts[D2[i]][R2[i][D2[i]] + 1]
    BY <2>1, <2>2, Zenon
  <2> QED BY <2>3 DEF j
<1>8. \A f, b : D2[1] = f /\ R2[1] = b => Routes(rest, f, to, texts, b)
  <2> TAKE f, b
  <2> HAVE D2[1] = f /\ R2[1] = b
  <2>1. Len(rest) + 1 = n /\ Len(rest) = n - 1
    BY <1>1
  <2>2. Routed(rest, f, to, texts, b, D2, R2)
    BY <1>6, <1>7, <2>1 DEF Routed
  <2> QED BY <1>5, <2>1, <2>2 DEF Routes
<1>9. \/ onWay[1] = SWITCH_CHAR /\ D[2] = Other(from) /\ R[2] = past
      \/ /\ onWay[1] # SWITCH_CHAR /\ D[2] = from
         /\ R[2] = [past EXCEPT ![from] = @ + 1]
         /\ past[from] < Len(texts[from])
         /\ onWay[1] = texts[from][past[from] + 1]
  <2>1. \A i \in 1..n :
          \/ onWay[i] = SWITCH_CHAR /\ D[i + 1] = Other(D[i]) /\ R[i + 1] = R[i]
          \/ /\ onWay[i] # SWITCH_CHAR /\ D[i + 1] = D[i]
             /\ R[i + 1] = [R[i] EXCEPT ![D[i]] = @ + 1]
             /\ R[i][D[i]] < Len(texts[D[i]])
             /\ onWay[i] = texts[D[i]][R[i][D[i]] + 1]
    BY <1>3
  <2>2. \/ onWay[1] = SWITCH_CHAR /\ D[1 + 1] = Other(D[1]) /\ R[1 + 1] = R[1]
        \/ /\ onWay[1] # SWITCH_CHAR /\ D[1 + 1] = D[1]
           /\ R[1 + 1] = [R[1] EXCEPT ![D[1]] = @ + 1]
           /\ R[1][D[1]] < Len(texts[D[1]])
           /\ onWay[1] = texts[D[1]][R[1][D[1]] + 1]
    BY <1>4, <2>1
  <2>3. 1 + 1 = 2 /\ D[1] = from /\ R[1] = past
    BY <1>3
  <2> HIDE DEF SWITCH_CHAR, Other
  <2> QED BY <2>2, <2>3
<1>10. D2[1] = D[2] /\ R2[1] = R[2]
  <2>1. 1 + 1 = 2
    OBVIOUS
  <2> QED BY <1>4, <2>1
<1> QED BY <1>1, <1>8, <1>9, <1>10 DEF rest

\* Another one follows: tab, or a character for the window chosen last.
LEMMA RouteNext ==
  ASSUME NEW onWay \in Seq(PlainKeys), NEW from \in Windows, NEW to \in Windows,
         NEW texts \in Texts, NEW past \in Counts,
         Routes(onWay, from, to, texts, past), NEW k \in PlainKeys
  PROVE  /\ k = SWITCH_CHAR => Routes(Append(onWay, k), from, Other(to), texts, past)
         /\ k # SWITCH_CHAR
            => Routes(Append(onWay, k), from, to, [texts EXCEPT ![to] = Append(@, k)], past)
<1> DEFINE n == Len(onWay)
           s == Append(onWay, k)
           to2 == IF k = SWITCH_CHAR THEN Other(to) ELSE to
           texts2 == IF k = SWITCH_CHAR THEN texts ELSE [texts EXCEPT ![to] = Append(@, k)]
<1>1. /\ n \in Nat /\ Len(s) = n + 1 /\ s[n + 1] = k
      /\ \A i \in 1..n : s[i] = onWay[i]
  BY AppendProperties
<1>2. PICK D \in [1..(n + 1) -> Windows], R \in [1..(n + 1) -> Counts] :
        Routed(onWay, from, to, texts, past, D, R)
  BY DEF Routes
<1>3. /\ D[1] = from /\ D[n + 1] = to /\ R[1] = past
      /\ \A w \in Windows : R[n + 1][w] = Len(texts[w])
      /\ \A i \in 1..(n + 1) : \A w \in Windows : R[i][w] <= Len(texts[w])
      /\ \A i \in 1..n :
           \/ onWay[i] = SWITCH_CHAR /\ D[i + 1] = Other(D[i]) /\ R[i + 1] = R[i]
           \/ /\ onWay[i] # SWITCH_CHAR /\ D[i + 1] = D[i]
              /\ R[i + 1] = [R[i] EXCEPT ![D[i]] = @ + 1]
              /\ R[i][D[i]] < Len(texts[D[i]])
              /\ onWay[i] = texts[D[i]][R[i][D[i]] + 1]
  BY <1>2 DEF Routed
<1>4. \A w \in Windows :
        /\ texts[w] \in Seq(PlainKeys) /\ Len(texts[w]) \in Nat
        /\ Len(texts2[w]) \in Nat /\ Len(texts[w]) <= Len(texts2[w])
        /\ k # SWITCH_CHAR /\ w = to => Len(texts2[w]) = Len(texts[w]) + 1
        /\ ~(k # SWITCH_CHAR /\ w = to) => Len(texts2[w]) = Len(texts[w])
        /\ \A i \in 1..Len(texts[w]) : texts2[w][i] = texts[w][i]
        /\ k # SWITCH_CHAR /\ w = to => texts2[w][Len(texts[w]) + 1] = k
  <2> TAKE w \in Windows
  <2>1. texts[w] \in Seq(PlainKeys) /\ Len(texts[w]) \in Nat
    BY DEF Texts
  <2>2. CASE k # SWITCH_CHAR /\ w = to
    <3>1. texts2[w] = Append(texts[w], k)
      BY <2>2 DEF Texts
    <3>2. /\ Len(Append(texts[w], k)) = Len(texts[w]) + 1
          /\ Append(texts[w], k)[Len(texts[w]) + 1] = k
          /\ \A i \in 1..Len(texts[w]) : Append(texts[w], k)[i] = texts[w][i]
      BY <2>1, AppendProperties
    <3> QED BY <2>1, <2>2, <3>1, <3>2
  <2>3. CASE ~(k # SWITCH_CHAR /\ w = to)
    <3>1. texts2[w] = texts[w]
      BY <2>3 DEF Texts
    <3> QED BY <2>1, <2>3, <3>1
  <2> QED BY <2>2, <2>3
<1>5. to2 \in Windows
  BY DEF Other, Windows
<1>6. \A i \in 1..(n + 1) : /\ R[i] \in Counts /\ D[i] \in Windows
                            /\ \A w \in Windows : R[i][w] \in Nat
  BY <1>2 DEF Counts
<1> HIDE DEF n, s, texts2
<1> DEFINE r2 == IF k = SWITCH_CHAR THEN R[n + 1] ELSE [R[n + 1] EXCEPT ![to] = @ + 1]
           D2 == [i \in 1..(n + 2) |-> IF i = n + 2 THEN to2 ELSE D[i]]
           R2 == [i \in 1..(n + 2) |-> IF i = n + 2 THEN r2 ELSE R[i]]
<1>7. /\ r2 \in Counts
      /\ \A w \in Windows : r2[w] = Len(texts2[w])
  <2>1. n + 1 \in 1..(n + 1)
    BY <1>1
  <2>2. R[n + 1] \in [Windows -> Nat]
    BY <1>6, <2>1 DEF Counts
  <2>3. CASE k = SWITCH_CHAR
    <3>1. \A w \in Windows : Len(texts2[w]) = Len(texts[w])
      BY <1>4, <2>3
    <3> QED BY <1>3, <2>2, <2>3, <3>1 DEF Counts
  <2>4. CASE k # SWITCH_CHAR
    <3>1. \A w \in Windows : Len(texts2[w]) = IF w = to THEN Len(texts[w]) + 1 ELSE Len(texts[w])
      BY <1>4, <2>4
    <3>2. r2 = [R[n + 1] EXCEPT ![to] = @ + 1]
      BY <2>4
    <3> HIDE DEF r2
    <3>3. r2 \in [Windows -> Nat] /\ r2[to] = R[n + 1][to] + 1
          /\ \A w \in Windows : w # to => r2[w] = R[n + 1][w]
      BY <2>2, <3>2
    <3>4. \A w \in Windows : R[n + 1][w] = Len(texts[w])
      BY <1>3
    <3>5. \A w \in Windows : r2[w] = Len(texts2[w])
      BY <3>1, <3>3, <3>4
    <3> QED BY <3>3, <3>5 DEF Counts
  <2> QED BY <2>3, <2>4
<1> HIDE DEF r2, to2
<1>8. /\ D2 \in [1..(n + 2) -> Windows] /\ R2 \in [1..(n + 2) -> Counts]
      /\ D2[n + 2] = to2 /\ R2[n + 2] = r2
      /\ \A i \in 1..(n + 1) : D2[i] = D[i] /\ R2[i] = R[i]
  <2>1. \A i \in 1..(n + 2) : i # n + 2 => i \in 1..(n + 1)
    BY <1>1
  <2>2. n + 2 \in 1..(n + 2) /\ \A i \in 1..(n + 1) : i # n + 2 /\ i \in 1..(n + 2)
    BY <1>1
  <2> QED BY <1>5, <1>6, <1>7, <2>1, <2>2
<1> HIDE DEF D2, R2
<1>9. D2[1] = from /\ R2[1] = past
  <2>1. 1 \in 1..(n + 1)
    BY <1>1
  <2> QED BY <1>3, <1>8, <2>1
<1>10. \A i \in 1..(n + 2) : \A w \in Windows : R2[i][w] <= Len(texts2[w])
  <2> TAKE i \in 1..(n + 2)
  <2> TAKE w \in Windows
  <2>1. Len(texts[w]) \in Nat /\ Len(texts2[w]) \in Nat /\ Len(texts[w]) <= Len(texts2[w])
    BY <1>4
  <2>2. CASE i = n + 2
    <3>1. R2[i][w] = Len(texts2[w])
      BY <1>7, <1>8, <2>2
    <3> QED BY <2>1, <3>1
  <2>3. CASE i # n + 2
    <3>1. i \in 1..(n + 1)
      BY <1>1, <2>3
    <3>2. R2[i][w] = R[i][w] /\ R[i][w] <= Len(texts[w]) /\ R[i][w] \in Nat
      BY <1>3, <1>6, <1>8, <3>1
    <3> QED BY <2>1, <3>2
  <2> QED BY <2>2, <2>3
<1>11. \A i \in 1..(n + 1) :
         \/ s[i] = SWITCH_CHAR /\ D2[i + 1] = Other(D2[i]) /\ R2[i + 1] = R2[i]
         \/ /\ s[i] # SWITCH_CHAR /\ D2[i + 1] = D2[i]
            /\ R2[i + 1] = [R2[i] EXCEPT ![D2[i]] = @ + 1]
            /\ R2[i][D2[i]] < Len(texts2[D2[i]])
            /\ s[i] = texts2[D2[i]][R2[i][D2[i]] + 1]
  <2> TAKE i \in 1..(n + 1)
  <2>1. CASE i = n + 1
    <3>1. i + 1 = n + 2 /\ i \in 1..(n + 1)
      BY <1>1, <2>1
    <3>2. D2[i] = to /\ R2[i] = R[n + 1] /\ D2[i + 1] = to2 /\ R2[i + 1] = r2 /\ s[i] = k
      BY <1>1, <1>3, <1>8, <2>1, <3>1
    <3>3. CASE k = SWITCH_CHAR
      BY <3>2, <3>3 DEF to2, r2
    <3>4. CASE k # SWITCH_CHAR
      <4>1. D2[i + 1] = to /\ R2[i + 1] = [R[n + 1] EXCEPT ![to] = @ + 1]
        BY <3>2, <3>4 DEF to2, r2
      <4>2. R[n + 1][to] = Len(texts[to]) /\ Len(texts[to]) \in Nat
        BY <1>3, <1>4
      <4>3. texts2[to][Len(texts[to]) + 1] = k /\ Len(texts2[to]) = Len(texts[to]) + 1
        BY <1>4, <3>4
      <4>4. Len(texts[to]) < Len(texts2[to])
        BY <4>2, <4>3
      <4> QED BY <3>2, <3>4, <4>1, <4>2, <4>3, <4>4
    <3> QED BY <3>3, <3>4
  <2>2. CASE i # n + 1
    <3>1. i \in 1..n /\ i \in 1..(n + 1) /\ i + 1 \in 1..(n + 1)
      BY <1>1, <2>2
    <3>2. s[i] = onWay[i] /\ D2[i] = D[i] /\ R2[i] = R[i] /\ D2[i + 1] = D[i + 1]
          /\ R2[i + 1] = R[i + 1]
      BY <1>1, <1>8, <3>1
    <3>3. CASE onWay[i] = SWITCH_CHAR
      BY <1>3, <3>1, <3>2, <3>3
    <3>4. CASE onWay[i] # SWITCH_CHAR
      <4> DEFINE d == D[i]
                 c == R[i][d]
      <4>1. /\ D[i + 1] = d /\ R[i + 1] = [R[i] EXCEPT ![d] = @ + 1]
            /\ c < Len(texts[d]) /\ onWay[i] = texts[d][c + 1]
        BY <1>3, <3>1, <3>4
      <4>2. d \in Windows /\ c \in Nat
        BY <1>6, <3>1
      <4> HIDE DEF c, d
      <4>3. /\ Len(texts[d]) \in Nat /\ Len(texts[d]) <= Len(texts2[d])
            /\ \A j \in 1..Len(texts[d]) : texts2[d][j] = texts[d][j]
            /\ Len(texts2[d]) \in Nat
        BY <1>4, <4>2
      <4>4. c < Len(texts2[d]) /\ onWay[i] = texts2[d][c + 1]
        <5>1. c + 1 \in 1..Len(texts[d])
          BY <4>1, <4>2, <4>3
        <5> QED BY <4>1, <4>2, <4>3, <5>1
      <4> QED BY <3>2, <3>4, <4>1, <4>4 DEF c, d
    <3> QED BY <3>3, <3>4
  <2> QED BY <2>1, <2>2
<1>12. Len(s) = n + 1 /\ Len(s) + 1 = n + 2
  BY <1>1
<1>13. Routed(s, from, to2, texts2, past, D2, R2)
  BY <1>7, <1>8, <1>9, <1>10, <1>11, <1>12 DEF Routed
<1>14. Routes(s, from, to2, texts2, past)
  BY <1>8, <1>12, <1>13 DEF Routes
<1> QED BY <1>14 DEF s, to2, texts2

\* With nothing on the way, the windows were sent their texts.
LEMMA RouteDone ==
  ASSUME NEW from, NEW to, NEW texts, NEW past, NEW onWay, onWay = <<>>,
         Routes(onWay, from, to, texts, past)
  PROVE  \A w \in Windows : past[w] = Len(texts[w])
<1>1. Len(onWay) = 0 /\ 0 + 1 = 1
  OBVIOUS
<1> QED BY <1>1 DEF Routes, Routed

\* No window was sent more than its text.
LEMMA RouteBound ==
  ASSUME NEW from, NEW to, NEW texts, NEW past, NEW onWay \in Seq(PlainKeys),
         Routes(onWay, from, to, texts, past)
  PROVE  \A w \in Windows : past[w] <= Len(texts[w])
<1>1. Len(onWay) \in Nat /\ 1 \in 1..(Len(onWay) + 1)
  OBVIOUS
<1> QED BY <1>1 DEF Routes, Routed

\* The driver's state agrees with the codes it has not read.
Parse(codes, code, skipped, mark) ==
  port = codes /\ escape_code = code /\ break_code = mark /\ (code = "e1" => escape_state = skipped)

ParseUp == \/ Parse(<<"e0", "8">>, NoCode, 0, FALSE) \/ Parse(<<"8">>, "e0", 0, FALSE)
           \/ Parse(<<"e0", "f0", "8">>, NoCode, 0, FALSE) \/ Parse(<<"f0", "8">>, "e0", 0, FALSE)
           \/ Parse(<<"8">>, "e0", 0, TRUE)
ParsePause ==
  \/ Parse(<<"e1", "ctrl", "num", "e1", "f0", "ctrl", "f0", "num">>, NoCode, 0, FALSE)
  \/ Parse(<<"ctrl", "num", "e1", "f0", "ctrl", "f0", "num">>, "e1", 0, FALSE)
  \/ Parse(<<"num", "e1", "f0", "ctrl", "f0", "num">>, "e1", 1, FALSE)
  \/ Parse(<<"e1", "f0", "ctrl", "f0", "num">>, NoCode, 0, FALSE)
  \/ Parse(<<"f0", "ctrl", "f0", "num">>, "e1", 0, FALSE)
  \/ Parse(<<"ctrl", "f0", "num">>, "e1", 0, TRUE)
  \/ Parse(<<"f0", "num">>, "e1", 1, TRUE)
  \/ Parse(<<"num">>, "e1", 1, TRUE)
ParseDown == Parse(<<>>, NoCode, 0, FALSE) \/ \E k \in PlainKeys : Parse(<<k>>, NoCode, 0, FALSE)

\* Only the release of a plain key leaves a character to be sent.
Releasing(k) == Parse(<<"f0", k>>, NoCode, 0, FALSE) \/ Parse(<<k>>, NoCode, 0, TRUE)
ParserInv == ParseUp \/ ParsePause \/ ParseDown \/ \E k \in PlainKeys : Releasing(k)

\* What the switch has not taken: its ring, and that character.
OnWay == IF escape_code = NoCode /\ (break_code \/ (Len(port) = 2 /\ port[1] = "f0"))
         THEN Append(toSwitch, port[Len(port)]) ELSE toSwitch

LEMMA OnWayIs ==
  /\ ParseUp \/ ParsePause \/ ParseDown => OnWay = toSwitch
  /\ \A k \in PlainKeys : Releasing(k) => OnWay = Append(toSwitch, k)
<1>1. ParseUp => OnWay = toSwitch
  <2>1. /\ Len(<<"e0", "8">>) = 2 /\ <<"e0", "8">>[1] = "e0"
        /\ Len(<<"e0", "f0", "8">>) = 3
    OBVIOUS
  <2> QED BY <2>1 DEF ParseUp, Parse, OnWay, NoCode
<1>2. ParsePause => OnWay = toSwitch
  <2>1. /\ Len(<<"e1", "ctrl", "num", "e1", "f0", "ctrl", "f0", "num">>) = 8
        /\ Len(<<"e1", "f0", "ctrl", "f0", "num">>) = 5
    OBVIOUS
  <2> QED BY <2>1 DEF ParsePause, Parse, OnWay, NoCode
<1>3. ParseDown => OnWay = toSwitch
  <2>1. Len(<<>>) = 0 /\ \A k : Len(<<k>>) = 1
    OBVIOUS
  <2>2. CASE Parse(<<>>, NoCode, 0, FALSE)
    BY <2>1, <2>2 DEF Parse, OnWay
  <2>3. ASSUME NEW k \in PlainKeys, Parse(<<k>>, NoCode, 0, FALSE) PROVE OnWay = toSwitch
    <3>1. ~break_code /\ Len(port) = 1
      BY <2>1, <2>3 DEF Parse
    <3> QED BY <3>1 DEF OnWay
  <2> QED BY <2>2, <2>3 DEF ParseDown
<1>4. ASSUME NEW k \in PlainKeys, Releasing(k) PROVE OnWay = Append(toSwitch, k)
  <2>1. /\ Len(<<"f0", k>>) = 2 /\ <<"f0", k>>[1] = "f0" /\ <<"f0", k>>[2] = k
        /\ Len(<<k>>) = 1 /\ <<k>>[1] = k
    OBVIOUS
  <2> QED BY <1>4, <2>1 DEF Releasing, Parse, OnWay
<1> QED BY <1>1, <1>2, <1>3, <1>4

LEMMA OnWayNext ==
  /\ ParseUp' \/ ParsePause' \/ ParseDown' => OnWay' = toSwitch'
  /\ \A k \in PlainKeys : Releasing(k)' => OnWay' = Append(toSwitch', k)
<1>1. (ParseUp \/ ParsePause \/ ParseDown => OnWay = toSwitch)'
  BY OnWayIs, PTL
<1>2. (\A k \in PlainKeys : Releasing(k) => OnWay = Append(toSwitch, k))'
  BY OnWayIs, PTL
<1> QED BY <1>1, <1>2

\* The parts of ScanCode, for the code that is read.
LEMMA ScanParts ==
  ASSUME ScanCode
  PROVE  /\ port' = Tail(port)
         /\ Head(port) = "f0" => /\ break_code' = TRUE /\ escape_code' = escape_code
                                 /\ escape_state' = escape_state /\ toSwitch' = toSwitch
         /\ Head(port) \in {"e0", "e1"} => /\ escape_code' = Head(port) /\ escape_state' = 0
                                           /\ break_code' = break_code /\ toSwitch' = toSwitch
         /\ Head(port) \notin {"f0", "e0", "e1"} /\ escape_code = "e0"
            => escape_code' = NoCode /\ break_code' = FALSE /\ toSwitch' = toSwitch
         /\ Head(port) \notin {"f0", "e0", "e1"} /\ escape_code = "e1" /\ escape_state = 0
            => /\ escape_code' = "e1" /\ escape_state' = 1 /\ break_code' = break_code
               /\ toSwitch' = toSwitch
         /\ Head(port) \notin {"f0", "e0", "e1"} /\ escape_code = "e1" /\ escape_state = 1
            => escape_code' = NoCode /\ break_code' = FALSE /\ toSwitch' = toSwitch
         /\ Head(port) \in PlainKeys /\ escape_code = NoCode
            => /\ escape_code' = NoCode /\ break_code' = FALSE
               /\ toSwitch' = IF break_code THEN Append(toSwitch, Head(port)) ELSE toSwitch
<1>1. /\ 0 + 1 = 1 /\ 1 # 2 /\ 1 + 1 = 2
  OBVIOUS
<1>2. Head(port) \in PlainKeys => /\ Head(port) \notin {"f0", "e0", "e1"}
                                  /\ CodeToChar(Head(port)) = Head(port) /\ Head(port) # NoChar
  BY DEF PlainKeys, CodeToChar, NoChar, SWITCH_CHAR
<1> QED BY <1>1, <1>2 DEF ScanCode, Skipped, Plain, NoCode

LEMMA ScanStep ==
  ASSUME ParserInv, ScanCode, toSwitch \in Seq(PlainKeys)
  PROVE  ParserInv' /\ OnWay' = OnWay
<1>1. ASSUME ParseUp PROVE (ParseUp' \/ ParseDown') /\ toSwitch' = toSwitch
  <2>1. CASE Parse(<<"e0", "8">>, NoCode, 0, FALSE)
    <3>1. Head(port) = "e0" /\ Tail(port) = <<"8">>
      BY <2>1 DEF Parse
    <3>2. Parse(<<"8">>, "e0", 0, FALSE)' /\ toSwitch' = toSwitch
      BY <2>1, <3>1, ScanParts DEF Parse, NoCode
    <3> QED BY <3>2 DEF ParseUp, ParseDown
  <2>2. CASE Parse(<<"8">>, "e0", 0, FALSE)
    <3>1. Head(port) = "8" /\ Tail(port) = <<>>
      BY <2>2 DEF Parse
    <3>2. Parse(<<>>, NoCode, 0, FALSE)' /\ toSwitch' = toSwitch
      BY <2>2, <3>1, ScanParts DEF Parse, NoCode
    <3> QED BY <3>2 DEF ParseUp, ParseDown
  <2>3. CASE Parse(<<"e0", "f0", "8">>, NoCode, 0, FALSE)
    <3>1. Head(port) = "e0" /\ Tail(port) = <<"f0", "8">>
      BY <2>3 DEF Parse
    <3>2. Parse(<<"f0", "8">>, "e0", 0, FALSE)' /\ toSwitch' = toSwitch
      BY <2>3, <3>1, ScanParts DEF Parse, NoCode
    <3> QED BY <3>2 DEF ParseUp, ParseDown
  <2>4. CASE Parse(<<"f0", "8">>, "e0", 0, FALSE)
    <3>1. Head(port) = "f0" /\ Tail(port) = <<"8">>
      BY <2>4 DEF Parse
    <3>2. Parse(<<"8">>, "e0", 0, TRUE)' /\ toSwitch' = toSwitch
      BY <2>4, <3>1, ScanParts DEF Parse, NoCode
    <3> QED BY <3>2 DEF ParseUp, ParseDown
  <2>5. CASE Parse(<<"8">>, "e0", 0, TRUE)
    <3>1. Head(port) = "8" /\ Tail(port) = <<>>
      BY <2>5 DEF Parse
    <3>2. Parse(<<>>, NoCode, 0, FALSE)' /\ toSwitch' = toSwitch
      BY <2>5, <3>1, ScanParts DEF Parse, NoCode
    <3> QED BY <3>2 DEF ParseUp, ParseDown
  <2> QED BY <1>1, <2>1, <2>2, <2>3, <2>4, <2>5 DEF ParseUp
<1>2. ASSUME ParsePause PROVE (ParsePause' \/ ParseDown') /\ toSwitch' = toSwitch
  <2>1. CASE Parse(<<"e1", "ctrl", "num", "e1", "f0", "ctrl", "f0", "num">>, NoCode, 0, FALSE)
    <3>1. Head(port) = "e1" /\ Tail(port) = <<"ctrl", "num", "e1", "f0", "ctrl", "f0", "num">>
      BY <2>1 DEF Parse
    <3>2. Parse(<<"ctrl", "num", "e1", "f0", "ctrl", "f0", "num">>, "e1", 0, FALSE)' /\ toSwitch' = toSwitch
      BY <2>1, <3>1, ScanParts DEF Parse, NoCode
    <3> QED BY <3>2 DEF ParsePause, ParseDown
  <2>2. CASE Parse(<<"ctrl", "num", "e1", "f0", "ctrl", "f0", "num">>, "e1", 0, FALSE)
    <3>1. Head(port) = "ctrl" /\ Tail(port) = <<"num", "e1", "f0", "ctrl", "f0", "num">>
      BY <2>2 DEF Parse
    <3>2. Parse(<<"num", "e1", "f0", "ctrl", "f0", "num">>, "e1", 1, FALSE)' /\ toSwitch' = toSwitch
      BY <2>2, <3>1, ScanParts DEF Parse, NoCode
    <3> QED BY <3>2 DEF ParsePause, ParseDown
  <2>3. CASE Parse(<<"num", "e1", "f0", "ctrl", "f0", "num">>, "e1", 1, FALSE)
    <3>1. Head(port) = "num" /\ Tail(port) = <<"e1", "f0", "ctrl", "f0", "num">>
      BY <2>3 DEF Parse
    <3>2. Parse(<<"e1", "f0", "ctrl", "f0", "num">>, NoCode, 0, FALSE)' /\ toSwitch' = toSwitch
      BY <2>3, <3>1, ScanParts DEF Parse, NoCode
    <3> QED BY <3>2 DEF ParsePause, ParseDown
  <2>4. CASE Parse(<<"e1", "f0", "ctrl", "f0", "num">>, NoCode, 0, FALSE)
    <3>1. Head(port) = "e1" /\ Tail(port) = <<"f0", "ctrl", "f0", "num">>
      BY <2>4 DEF Parse
    <3>2. Parse(<<"f0", "ctrl", "f0", "num">>, "e1", 0, FALSE)' /\ toSwitch' = toSwitch
      BY <2>4, <3>1, ScanParts DEF Parse, NoCode
    <3> QED BY <3>2 DEF ParsePause, ParseDown
  <2>5. CASE Parse(<<"f0", "ctrl", "f0", "num">>, "e1", 0, FALSE)
    <3>1. Head(port) = "f0" /\ Tail(port) = <<"ctrl", "f0", "num">>
      BY <2>5 DEF Parse
    <3>2. Parse(<<"ctrl", "f0", "num">>, "e1", 0, TRUE)' /\ toSwitch' = toSwitch
      BY <2>5, <3>1, ScanParts DEF Parse, NoCode
    <3> QED BY <3>2 DEF ParsePause, ParseDown
  <2>6. CASE Parse(<<"ctrl", "f0", "num">>, "e1", 0, TRUE)
    <3>1. Head(port) = "ctrl" /\ Tail(port) = <<"f0", "num">>
      BY <2>6 DEF Parse
    <3>2. Parse(<<"f0", "num">>, "e1", 1, TRUE)' /\ toSwitch' = toSwitch
      BY <2>6, <3>1, ScanParts DEF Parse, NoCode
    <3> QED BY <3>2 DEF ParsePause, ParseDown
  <2>7. CASE Parse(<<"f0", "num">>, "e1", 1, TRUE)
    <3>1. Head(port) = "f0" /\ Tail(port) = <<"num">>
      BY <2>7 DEF Parse
    <3>2. Parse(<<"num">>, "e1", 1, TRUE)' /\ toSwitch' = toSwitch
      BY <2>7, <3>1, ScanParts DEF Parse, NoCode
    <3> QED BY <3>2 DEF ParsePause, ParseDown
  <2>8. CASE Parse(<<"num">>, "e1", 1, TRUE)
    <3>1. Head(port) = "num" /\ Tail(port) = <<>>
      BY <2>8 DEF Parse
    <3>2. Parse(<<>>, NoCode, 0, FALSE)' /\ toSwitch' = toSwitch
      BY <2>8, <3>1, ScanParts DEF Parse, NoCode
    <3> QED BY <3>2 DEF ParsePause, ParseDown
  <2> QED BY <1>2, <2>1, <2>2, <2>3, <2>4, <2>5, <2>6, <2>7, <2>8 DEF ParsePause
<1>3. ASSUME ParseDown PROVE ParseDown' /\ toSwitch' = toSwitch
  <2>1. port # <<>>
    BY DEF ScanCode
  <2>2. PICK k \in PlainKeys : Parse(<<k>>, NoCode, 0, FALSE)
    BY <1>3, <2>1 DEF ParseDown, Parse
  <2>3. Head(port) = k /\ Tail(port) = <<>>
    BY <2>2 DEF Parse
  <2>4. Parse(<<>>, NoCode, 0, FALSE)' /\ toSwitch' = toSwitch
    BY <2>2, <2>3, ScanParts DEF Parse, NoCode
  <2> QED BY <2>4 DEF ParseDown
<1>4. ASSUME NEW k \in PlainKeys, Releasing(k)
      PROVE  \/ Releasing(k)' /\ toSwitch' = toSwitch
             \/ ParseDown' /\ toSwitch' = Append(toSwitch, k)
  <2>1. CASE Parse(<<"f0", k>>, NoCode, 0, FALSE)
    <3>1. Head(port) = "f0" /\ Tail(port) = <<k>>
      BY <2>1 DEF Parse
    <3>2. Parse(<<k>>, NoCode, 0, TRUE)' /\ toSwitch' = toSwitch
      BY <2>1, <3>1, ScanParts DEF Parse, NoCode
    <3> QED BY <3>2 DEF Releasing
  <2>2. CASE Parse(<<k>>, NoCode, 0, TRUE)
    <3>1. Head(port) = k /\ Tail(port) = <<>>
      BY <2>2 DEF Parse
    <3>2. Parse(<<>>, NoCode, 0, FALSE)' /\ toSwitch' = Append(toSwitch, k)
      BY <2>2, <3>1, ScanParts DEF Parse, NoCode
    <3> QED BY <3>2 DEF ParseDown
  <2> QED BY <1>4, <2>1, <2>2 DEF Releasing
<1>5. CASE ParseUp \/ ParsePause \/ ParseDown
  <2>1. (ParseUp' \/ ParsePause' \/ ParseDown') /\ toSwitch' = toSwitch
    BY <1>1, <1>2, <1>3, <1>5
  <2>2. OnWay = toSwitch /\ OnWay' = toSwitch'
    BY <1>5, <2>1, OnWayIs, OnWayNext
  <2> QED BY <2>1, <2>2 DEF ParserInv
<1>6. ASSUME NEW k \in PlainKeys, Releasing(k) PROVE ParserInv' /\ OnWay' = OnWay
  <2>1. OnWay = Append(toSwitch, k)
    BY <1>6, OnWayIs
  <2>2. CASE Releasing(k)' /\ toSwitch' = toSwitch
    BY <2>1, <2>2, OnWayNext DEF ParserInv
  <2>3. CASE ParseDown' /\ toSwitch' = Append(toSwitch, k)
    BY <2>1, <2>3, OnWayNext DEF ParserInv
  <2> QED BY <1>4, <1>6, <2>2, <2>3
<1> QED BY <1>5, <1>6 DEF ParserInv

\* What the display has not taken follows what it took, in the rings to and from
\* each Linux.
QueuesAs(taken_, vesa, linux, texts) ==
  \A w \in Windows :
    /\ \A i \in 1..Len(vesa[w]) : vesa[w][i] = texts[w][taken_[w] + i]
    /\ \A i \in 1..Len(linux[w]) : linux[w][i] = texts[w][taken_[w] + Len(vesa[w]) + i]
Past(taken_, vesa, linux) == [w \in Windows |-> taken_[w] + Len(vesa[w]) + Len(linux[w])]
PanesAs(taken_, texts, pics, pens) ==
  \A w \in Windows : DrawnAs(w, taken_[w], texts[w], pics[w], pens[w])

WindowTypes ==
  /\ meant \in Texts /\ toLinux \in Texts /\ toVesa \in Texts
  /\ toSwitch \in Seq(PlainKeys)
  /\ meantFor \in Windows /\ selected \in Windows /\ inputs \in Windows
  /\ DOMAIN drawn = Windows /\ DOMAIN pen = Windows

\* taken_ says how many characters the display has had of each window's ring.
WindowInv ==
  /\ WindowTypes /\ ParserInv
  /\ \E taken_ \in Counts :
       /\ Routes(OnWay, selected, meantFor, meant, Past(taken_, toVesa, toLinux))
       /\ QueuesAs(taken_, toVesa, toLinux, meant)
       /\ PanesAs(taken_, meant, drawn, pen)

LEMMA LengthsAre ==
  ASSUME WindowTypes, NEW n \in Counts
  PROVE  /\ \A w \in Windows :
              /\ n[w] \in Nat /\ Len(toVesa[w]) \in Nat /\ Len(toLinux[w]) \in Nat
              /\ Len(meant[w]) \in Nat /\ toVesa[w] \in Seq(PlainKeys)
              /\ toLinux[w] \in Seq(PlainKeys) /\ meant[w] \in Seq(PlainKeys)
         /\ Past(n, toVesa, toLinux) \in Counts
         /\ \A w \in Windows :
              Past(n, toVesa, toLinux)[w] = n[w] + Len(toVesa[w]) + Len(toLinux[w])
<1>1. \A w \in Windows : /\ toVesa[w] \in Seq(PlainKeys) /\ toLinux[w] \in Seq(PlainKeys)
                         /\ meant[w] \in Seq(PlainKeys)
  BY DEF WindowTypes, Texts
<1>2. \A w \in Windows : /\ n[w] \in Nat /\ Len(toVesa[w]) \in Nat /\ Len(toLinux[w]) \in Nat
                         /\ Len(meant[w]) \in Nat
  BY <1>1 DEF Counts
<1>3. \A w \in Windows : n[w] + Len(toVesa[w]) + Len(toLinux[w]) \in Nat
  BY <1>2
<1> QED BY <1>1, <1>2, <1>3 DEF Past, Counts

LEMMA OnWayType == WindowTypes /\ ParserInv => OnWay \in Seq(PlainKeys)
<1> SUFFICES ASSUME WindowTypes, ParserInv PROVE OnWay \in Seq(PlainKeys)
  OBVIOUS
<1>1. toSwitch \in Seq(PlainKeys)
  BY DEF WindowTypes
<1>2. CASE ParseUp \/ ParsePause \/ ParseDown
  BY <1>1, <1>2, OnWayIs
<1>3. ASSUME NEW k \in PlainKeys, Releasing(k) PROVE OnWay \in Seq(PlainKeys)
  BY <1>1, <1>3, OnWayIs, AppendProperties
<1> QED BY <1>2, <1>3 DEF ParserInv

\* The driver reads a code.
LEMMA WindowScan == WindowInv /\ ScanCode => WindowInv'
<1> SUFFICES ASSUME WindowInv, ScanCode PROVE WindowInv'
  OBVIOUS
<1>1. ParserInv' /\ OnWay' = OnWay
  BY ScanStep DEF WindowInv, WindowTypes
<1>2. /\ meant' = meant /\ toLinux' = toLinux /\ toVesa' = toVesa /\ meantFor' = meantFor
      /\ selected' = selected /\ inputs' = inputs /\ drawn' = drawn /\ pen' = pen
  BY DEF ScanCode, userVars, vesaVars
<1>3. toSwitch' \in Seq(PlainKeys)
  <2>1. \/ toSwitch' = toSwitch
        \/ /\ toSwitch' = Append(toSwitch, CodeToChar(Head(port)))
           /\ CodeToChar(Head(port)) # NoChar
    BY DEF ScanCode, Skipped, Plain
  <2>2. CodeToChar(Head(port)) # NoChar => CodeToChar(Head(port)) \in PlainKeys
    BY DEF CodeToChar
  <2> QED BY <2>1, <2>2, AppendProperties DEF WindowInv, WindowTypes
<1>4. WindowTypes'
  BY <1>2, <1>3 DEF WindowInv, WindowTypes
<1>5. PICK n \in Counts :
        /\ Routes(OnWay, selected, meantFor, meant, Past(n, toVesa, toLinux))
        /\ QueuesAs(n, toVesa, toLinux, meant) /\ PanesAs(n, meant, drawn, pen)
  BY DEF WindowInv
<1>6. /\ Routes(OnWay', selected', meantFor', meant', Past(n, toVesa', toLinux'))
      /\ QueuesAs(n, toVesa', toLinux', meant') /\ PanesAs(n, meant', drawn', pen')
  BY <1>1, <1>2, <1>5
<1> QED BY <1>1, <1>4, <1>6 DEF WindowInv

\* The driver has read every code: it waits for one, and nothing is left to be sent.
LEMMA NothingTyped ==
  ASSUME ParserInv, port = <<>>
  PROVE  Parse(<<>>, NoCode, 0, FALSE) /\ OnWay = toSwitch
<1>1. /\ \A a : <<a>> # <<>>
      /\ \A a, b : <<a, b>> # <<>>
      /\ \A a, b, c : <<a, b, c>> # <<>>
      /\ \A a, b, c, d : <<a, b, c, d>> # <<>>
      /\ \A a, b, c, d, e : <<a, b, c, d, e>> # <<>>
      /\ <<"num", "e1", "f0", "ctrl", "f0", "num">> # <<>>
      /\ <<"ctrl", "num", "e1", "f0", "ctrl", "f0", "num">> # <<>>
      /\ <<"e1", "ctrl", "num", "e1", "f0", "ctrl", "f0", "num">> # <<>>
  OBVIOUS
<1>2. ~ParseUp
  BY <1>1, Zenon DEF ParseUp, Parse
<1>3. ~ParsePause
  BY <1>1, Zenon DEF ParsePause, Parse
<1>4. \A j : ~Releasing(j) /\ ~Parse(<<j>>, NoCode, 0, FALSE)
  BY <1>1, Zenon DEF Releasing, Parse
<1>5. Parse(<<>>, NoCode, 0, FALSE)
  BY <1>2, <1>3, <1>4 DEF ParserInv, ParseDown
<1> QED BY <1>5, OnWayIs DEF ParseDown

\* A key is pressed or released, or nothing of it.
LEMMA WindowKeys == \A k \in KeyNames : WindowInv /\ (Press(k) \/ Release(k)) => WindowInv'
<1> SUFFICES ASSUME NEW k \in KeyNames, WindowInv, Press(k) \/ Release(k) PROVE WindowInv'
  OBVIOUS
<1>1. /\ port = <<>> /\ escape_code' = escape_code /\ escape_state' = escape_state
      /\ break_code' = break_code /\ toSwitch' = toSwitch /\ toLinux' = toLinux
      /\ toVesa' = toVesa /\ selected' = selected /\ inputs' = inputs /\ drawn' = drawn
      /\ pen' = pen
  BY DEF Press, Release, ringVarsC, vesaVars
<1>2. Parse(<<>>, NoCode, 0, FALSE)
  BY <1>1, NothingTyped DEF WindowInv
<1>3. OnWay = toSwitch
  BY <1>2, OnWayIs DEF ParseDown
<1>4. escape_code = NoCode /\ break_code = FALSE
  BY <1>2 DEF Parse
<1>5. \A q : port' = q => Parse(q, NoCode, 0, FALSE)'
  BY <1>1, <1>4 DEF Parse, NoCode
<1>6. PICK n \in Counts :
        /\ Routes(OnWay, selected, meantFor, meant, Past(n, toVesa, toLinux))
        /\ QueuesAs(n, toVesa, toLinux, meant) /\ PanesAs(n, meant, drawn, pen)
  BY DEF WindowInv
<1>7. CASE /\ meant' = meant /\ meantFor' = meantFor
           /\ ParseUp' \/ ParsePause' \/ ParseDown'
  <2>1. OnWay' = OnWay
    BY <1>1, <1>3, <1>7, OnWayNext
  <2>2. /\ Routes(OnWay', selected', meantFor', meant', Past(n, toVesa', toLinux'))
        /\ QueuesAs(n, toVesa', toLinux', meant') /\ PanesAs(n, meant', drawn', pen')
    BY <1>1, <1>6, <1>7, <2>1
  <2>3. WindowTypes'
    BY <1>1, <1>7 DEF WindowInv, WindowTypes
  <2> QED BY <1>7, <2>2, <2>3 DEF WindowInv, ParserInv
<1>8. CASE k \in PlainKeys /\ Release(k)
  <2>1. port' = <<"f0", k>>
    BY <1>8 DEF Release, UpCodes, PlainKeys, SWITCH_CHAR
  <2>2. Releasing(k)'
    BY <1>5, <2>1 DEF Releasing
  <2>3. OnWay' = Append(OnWay, k)
    BY <1>1, <1>3, <1>8, <2>2, OnWayNext
  <2>4. /\ OnWay \in Seq(PlainKeys) /\ selected \in Windows /\ meantFor \in Windows
        /\ meant \in Texts
    BY OnWayType DEF WindowInv, WindowTypes
  <2>5. Past(n, toVesa, toLinux) \in Counts
    BY LengthsAre DEF WindowInv
  <2> DEFINE past == Past(n, toVesa, toLinux)
  <2>6. /\ k = SWITCH_CHAR => Routes(Append(OnWay, k), selected, Other(meantFor), meant, past)
        /\ k # SWITCH_CHAR
           => Routes(Append(OnWay, k), selected, meantFor, [meant EXCEPT ![meantFor] = Append(@, k)], past)
    <3> HIDE DEF past
    <3> QED BY <1>6, <1>8, <2>4, <2>5, RouteNext DEF past
  <2>7. /\ k = SWITCH_CHAR => meantFor' = Other(meantFor) /\ meant' = meant
        /\ k # SWITCH_CHAR => /\ meantFor' = meantFor
                              /\ meant' = [meant EXCEPT ![meantFor] = Append(@, k)]
    BY <1>8 DEF Release
  <2>8. Routes(OnWay', selected', meantFor', meant', Past(n, toVesa', toLinux'))
    BY <1>1, <2>3, <2>6, <2>7
  <2>9. meant' \in Texts /\ meantFor' \in Windows
        /\ \A w \in Windows : \A i \in 1..Len(meant[w]) : meant'[w][i] = meant[w][i]
    <3>1. CASE k = SWITCH_CHAR
      BY <2>4, <2>7, <3>1 DEF Other, Windows
    <3>2. CASE k # SWITCH_CHAR
      <4> DEFINE more == Append(meant[meantFor], k)
      <4>1. meant[meantFor] \in Seq(PlainKeys)
        BY <2>4 DEF Texts
      <4>2. more \in Seq(PlainKeys) /\ \A i \in 1..Len(meant[meantFor]) : more[i] = meant[meantFor][i]
        BY <1>8, <4>1, AppendProperties
      <4>3. /\ meant' = [meant EXCEPT ![meantFor] = more]
        BY <2>7, <3>2
      <4> HIDE DEF more
      <4> QED BY <2>4, <2>7, <3>2, <4>2, <4>3 DEF Texts
    <3> QED BY <3>1, <3>2
  <2>10. WindowTypes'
    BY <1>1, <2>9 DEF WindowInv, WindowTypes
  <2>11. \A w \in Windows : past[w] <= Len(meant[w])
    <3> HIDE DEF past
    <3> QED BY <1>6, <2>4, RouteBound DEF past
  <2>12. \A w \in Windows : /\ n[w] \in Nat /\ Len(toVesa[w]) \in Nat /\ Len(toLinux[w]) \in Nat
                            /\ n[w] + Len(toVesa[w]) + Len(toLinux[w]) <= Len(meant[w])
                            /\ Len(meant[w]) \in Nat
    BY <2>11, LengthsAre DEF WindowInv
  <2>13. QueuesAs(n, toVesa', toLinux', meant')
    <3> SUFFICES ASSUME NEW w \in Windows
                 PROVE  /\ \A i \in 1..Len(toVesa[w]) : toVesa[w][i] = meant'[w][n[w] + i]
                        /\ \A i \in 1..Len(toLinux[w]) :
                             toLinux[w][i] = meant'[w][n[w] + Len(toVesa[w]) + i]
      BY <1>1 DEF QueuesAs
    <3>1. /\ \A i \in 1..Len(toVesa[w]) : toVesa[w][i] = meant[w][n[w] + i]
          /\ \A i \in 1..Len(toLinux[w]) :
               toLinux[w][i] = meant[w][n[w] + Len(toVesa[w]) + i]
      BY <1>6 DEF QueuesAs
    <3>2. /\ \A i \in 1..Len(toVesa[w]) : n[w] + i \in 1..Len(meant[w])
          /\ \A i \in 1..Len(toLinux[w]) : n[w] + Len(toVesa[w]) + i \in 1..Len(meant[w])
      <4> DEFINE a == n[w]
                 b == Len(toVesa[w])
                 c == Len(toLinux[w])
                 d == Len(meant[w])
      <4>1. a \in Nat /\ b \in Nat /\ c \in Nat /\ d \in Nat /\ a + b + c <= d
        BY <2>12
      <4> HIDE DEF a, b, c, d
      <4>2. /\ \A i \in 1..b : a + i \in 1..d
            /\ \A i \in 1..c : a + b + i \in 1..d
        BY <4>1
      <4> QED BY <4>2 DEF a, b, c, d
    <3> QED BY <2>9, <3>1, <3>2
  <2>14. PanesAs(n, meant', drawn', pen')
    <3> SUFFICES ASSUME NEW w \in Windows PROVE DrawnAs(w, n[w], meant'[w], drawn[w], pen[w])
      BY <1>1 DEF PanesAs
    <3>1. DrawnAs(w, n[w], meant[w], drawn[w], pen[w])
      BY <1>6 DEF PanesAs
    <3>2. n[w] \in Nat /\ \A i \in 1..n[w] : meant'[w][i] = meant[w][i]
      <4>1. \A i \in 1..n[w] : i \in 1..Len(meant[w])
        BY <2>12
      <4> QED BY <2>9, <2>12, <4>1
    <3> QED BY <3>1, <3>2, TextGrows
  <2> QED BY <2>2, <1>8, <2>8, <2>10, <2>13, <2>14 DEF WindowInv, ParserInv
<1>9. CASE Press(k)
  <2>1. port' = DownCodes(k) /\ meant' = meant /\ meantFor' = meantFor
    BY <1>9 DEF Press
  <2>2. CASE k \in PlainKeys
    <3>1. Parse(<<k>>, NoCode, 0, FALSE)'
      BY <1>5, <2>1, <2>2 DEF DownCodes, PlainKeys, SWITCH_CHAR
    <3> QED BY <1>7, <2>1, <2>2, <3>1 DEF ParseDown
  <2>3. CASE k = "up"
    <3>1. Parse(<<"e0", "8">>, NoCode, 0, FALSE)'
      BY <1>5, <2>1, <2>3 DEF DownCodes, PlainKeys, SWITCH_CHAR
    <3> QED BY <1>7, <2>1, <3>1 DEF ParseUp
  <2>4. CASE k = "pause"
    <3>1. Parse(<<"e1", "ctrl", "num", "e1", "f0", "ctrl", "f0", "num">>, NoCode, 0, FALSE)'
      BY <1>5, <2>1, <2>4 DEF DownCodes, PlainKeys, SWITCH_CHAR
    <3> QED BY <1>7, <2>1, <3>1 DEF ParsePause
  <2> QED BY <2>2, <2>3, <2>4 DEF KeyNames
<1>10. CASE k \notin PlainKeys /\ Release(k)
  <2>1. port' = UpCodes(k) /\ meant' = meant /\ meantFor' = meantFor
    BY <1>10 DEF Release, PlainKeys
  <2>2. CASE k = "up"
    <3>1. Parse(<<"e0", "f0", "8">>, NoCode, 0, FALSE)'
      BY <1>5, <1>10, <2>1, <2>2 DEF UpCodes
    <3> QED BY <1>7, <2>1, <3>1 DEF ParseUp
  <2>3. CASE k = "pause"
    <3>1. Parse(<<>>, NoCode, 0, FALSE)'
      BY <1>5, <1>10, <2>1, <2>3 DEF UpCodes
    <3> QED BY <1>7, <2>1, <3>1 DEF ParseDown
  <2> QED BY <1>10, <2>2, <2>3 DEF KeyNames
<1> QED BY <1>8, <1>9, <1>10

\* The driver's part, while the driver does nothing.
LEMMA DriverIdle ==
  ASSUME ParserInv, UNCHANGED driverVars
  PROVE  /\ ParserInv'
         /\ toSwitch' = toSwitch => OnWay' = OnWay
         /\ toSwitch \in Seq(PlainKeys) /\ toSwitch # <<>> /\ toSwitch' = Tail(toSwitch)
            => /\ OnWay' = Tail(OnWay) /\ Head(OnWay) = Head(toSwitch) /\ OnWay # <<>>
<1>1. port' = port /\ escape_code' = escape_code /\ escape_state' = escape_state
      /\ break_code' = break_code
  BY DEF driverVars
<1>2. \A q, c, m : \A b \in BOOLEAN : Parse(q, c, m, b) => Parse(q, c, m, b)'
  BY <1>1 DEF Parse
<1>3. ParseUp => ParseUp'
  BY <1>2 DEF ParseUp
<1>4. ParsePause => ParsePause'
  BY <1>2 DEF ParsePause
<1>5. ParseDown => ParseDown'
  BY <1>2 DEF ParseDown
<1>6. \A k \in PlainKeys : Releasing(k) => Releasing(k)'
  BY <1>2 DEF Releasing
<1>7. CASE ParseUp \/ ParsePause \/ ParseDown
  <2>1. OnWay = toSwitch /\ OnWay' = toSwitch'
    BY <1>3, <1>4, <1>5, <1>7, OnWayIs, OnWayNext
  <2> QED BY <1>3, <1>4, <1>5, <1>7, <2>1 DEF ParserInv
<1>8. ASSUME NEW k \in PlainKeys, Releasing(k)
      PROVE  /\ ParserInv'
             /\ toSwitch' = toSwitch => OnWay' = OnWay
             /\ toSwitch \in Seq(PlainKeys) /\ toSwitch # <<>> /\ toSwitch' = Tail(toSwitch)
                => /\ OnWay' = Tail(OnWay) /\ Head(OnWay) = Head(toSwitch) /\ OnWay # <<>>
  <2>1. OnWay = Append(toSwitch, k) /\ OnWay' = Append(toSwitch', k)
    BY <1>6, <1>8, OnWayIs, OnWayNext
  <2>2. ASSUME toSwitch \in Seq(PlainKeys), toSwitch # <<>>
        PROVE  /\ Append(Tail(toSwitch), k) = Tail(Append(toSwitch, k))
               /\ Head(Append(toSwitch, k)) = Head(toSwitch) /\ Append(toSwitch, k) # <<>>
    BY <2>2
  <2>3. ParserInv'
    BY <1>6, <1>8 DEF ParserInv
  <2> QED BY <2>1, <2>2, <2>3
<1> QED BY <1>7, <1>8 DEF ParserInv

LEMMA WindowSwitch == WindowInv /\ SwitchRun => WindowInv'
<1> SUFFICES ASSUME WindowInv, SwitchRun PROVE WindowInv'
  OBVIOUS
<1> DEFINE c == Head(toSwitch)
           v == selected
<1>1. /\ toSwitch # <<>> /\ toSwitch' = Tail(toSwitch) /\ UNCHANGED driverVars
      /\ c = SWITCH_CHAR => selected' = Other(v) /\ toLinux' = toLinux
      /\ c # SWITCH_CHAR => /\ toLinux' = [toLinux EXCEPT ![v] = Append(@, c)]
                            /\ selected' = v
      /\ toVesa' = toVesa /\ meant' = meant /\ meantFor' = meantFor
      /\ inputs' = inputs /\ drawn' = drawn /\ pen' = pen
  BY DEF SwitchRun, userVars, vesaVars
<1>2. WindowTypes /\ ParserInv /\ OnWay \in Seq(PlainKeys)
  BY OnWayType DEF WindowInv
<1>3. /\ toSwitch \in Seq(PlainKeys) /\ selected \in Windows /\ meantFor \in Windows
      /\ meant \in Texts /\ toLinux \in Texts
  BY <1>2 DEF WindowTypes
<1>4. ParserInv' /\ OnWay' = Tail(OnWay) /\ Head(OnWay) = c /\ OnWay # <<>>
  BY <1>1, <1>2, <1>3, DriverIdle
<1>5. c \in PlainKeys /\ toSwitch' \in Seq(PlainKeys)
  BY <1>1, <1>3
<1>6. PICK n \in Counts :
        /\ Routes(OnWay, selected, meantFor, meant, Past(n, toVesa, toLinux))
        /\ QueuesAs(n, toVesa, toLinux, meant) /\ PanesAs(n, meant, drawn, pen)
  BY DEF WindowInv
<1> DEFINE past == Past(n, toVesa, toLinux)
<1>7. past \in Counts
  BY <1>2, LengthsAre
<1> HIDE DEF c, past
<1>8. /\ c = SWITCH_CHAR => Routes(Tail(OnWay), Other(v), meantFor, meant, past)
      /\ c # SWITCH_CHAR
         => /\ Routes(Tail(OnWay), v, meantFor, meant, [past EXCEPT ![v] = @ + 1])
            /\ past[v] < Len(meant[v]) /\ c = meant[v][past[v] + 1]
  BY <1>2, <1>3, <1>4, <1>6, <1>7, RouteFirst DEF past
<1>9. PanesAs(n, meant', drawn', pen')
  BY <1>1, <1>6
<1>10. CASE c = SWITCH_CHAR
  <2>1. Routes(OnWay', selected', meantFor', meant', Past(n, toVesa', toLinux'))
    BY <1>1, <1>4, <1>8, <1>10 DEF past
  <2>2. QueuesAs(n, toVesa', toLinux', meant')
    BY <1>1, <1>6, <1>10
  <2>3. WindowTypes'
    <3>1. selected' \in Windows
      BY <1>1, <1>10 DEF Other, Windows
    <3> QED BY <1>1, <1>2, <1>5, <1>10, <3>1 DEF WindowTypes
  <2> QED BY <1>4, <1>9, <2>1, <2>2, <2>3 DEF WindowInv
<1>11. CASE c # SWITCH_CHAR
  <2> DEFINE l == Append(toLinux[v], c)
  <2>1. /\ toLinux' = [toLinux EXCEPT ![v] = l] /\ selected' = v
    BY <1>1, <1>11
  <2>2. /\ l \in Seq(PlainKeys) /\ Len(l) = Len(toLinux[v]) + 1 /\ l[Len(toLinux[v]) + 1] = c
        /\ \A i \in 1..Len(toLinux[v]) : l[i] = toLinux[v][i]
        /\ Len(toLinux[v]) \in Nat
    <3>1. toLinux[v] \in Seq(PlainKeys)
      BY <1>3 DEF Texts
    <3> QED BY <1>5, <3>1, AppendProperties
  <2> HIDE DEF l
  <2>3. /\ toLinux' \in Texts /\ toLinux'[v] = l
        /\ \A w \in Windows : w # v => toLinux'[w] = toLinux[w]
    BY <1>3, <2>1, <2>2 DEF Texts
  <2>4. WindowTypes'
    BY <1>1, <1>2, <1>5, <2>1, <2>3 DEF WindowTypes
  <2>5. Past(n, toVesa', toLinux') = [past EXCEPT ![v] = @ + 1]
    <3>1. /\ past \in [Windows -> Nat]
          /\ \A w \in Windows : past[w] = n[w] + Len(toVesa[w]) + Len(toLinux[w])
      BY <1>7 DEF past, Past, Counts
    <3>2. /\ Past(n, toVesa', toLinux')
               = [w \in Windows |-> n[w] + Len(toVesa[w]) + Len(toLinux'[w])]
      BY <1>1 DEF Past
    <3>3. n[v] + Len(toVesa[v]) + Len(toLinux'[v]) = past[v] + 1
      <4>1. n[v] \in Nat /\ Len(toVesa[v]) \in Nat
        BY <1>2, <1>3, LengthsAre
      <4>2. Len(toLinux[v]) \in Nat /\ Len(toLinux'[v]) = Len(toLinux[v]) + 1
        BY <2>2, <2>3
      <4>3. past[v] = n[v] + Len(toVesa[v]) + Len(toLinux[v])
        BY <1>3, <3>1
      <4> DEFINE x == n[v]
                 y == Len(toVesa[v])
                 z == Len(toLinux[v])
                 p == past[v]
                 z2 == Len(toLinux'[v])
      <4>4. x \in Nat /\ y \in Nat /\ z \in Nat /\ z2 = z + 1 /\ p = x + y + z
        BY <4>1, <4>2, <4>3
      <4> HIDE DEF x, y, z, p, z2
      <4>5. x + y + z2 = p + 1
        BY <4>4
      <4> QED BY <4>5 DEF x, y, z2, p
    <3>4. \A w \in Windows : n[w] + Len(toVesa[w]) + Len(toLinux'[w])
                             = IF w = v THEN past[v] + 1 ELSE past[w]
      BY <2>3, <3>1, <3>3
    <3> QED BY <3>1, <3>2, <3>4
  <2>6. Routes(OnWay', selected', meantFor', meant', Past(n, toVesa', toLinux'))
    BY <1>1, <1>4, <1>8, <1>11, <2>1, <2>5
  <2>7. QueuesAs(n, toVesa', toLinux', meant')
    <3> SUFFICES ASSUME NEW w \in Windows
                 PROVE  /\ \A i \in 1..Len(toVesa[w]) : toVesa[w][i] = meant[w][n[w] + i]
                        /\ \A i \in 1..Len(toLinux'[w]) :
                             toLinux'[w][i] = meant[w][n[w] + Len(toVesa[w]) + i]
      BY <1>1 DEF QueuesAs
    <3>1. /\ \A i \in 1..Len(toVesa[w]) : toVesa[w][i] = meant[w][n[w] + i]
          /\ \A i \in 1..Len(toLinux[w]) :
               toLinux[w][i] = meant[w][n[w] + Len(toVesa[w]) + i]
      BY <1>6 DEF QueuesAs
    <3>2. CASE w # v
      BY <2>3, <3>1, <3>2
    <3>3. CASE w = v
      <4>1. c = meant[w][n[w] + Len(toVesa[w]) + (Len(toLinux[w]) + 1)]
        <5>1. past[w] + 1 = n[w] + Len(toVesa[w]) + (Len(toLinux[w]) + 1)
          <6>1. n[w] \in Nat /\ Len(toVesa[w]) \in Nat /\ Len(toLinux[w]) \in Nat
                /\ past[w] = n[w] + Len(toVesa[w]) + Len(toLinux[w])
            BY <1>2, LengthsAre DEF past
          <6> QED BY <6>1
        <5> QED BY <1>8, <1>11, <3>3, <5>1
      <4>2. \A i \in 1..Len(l) : i \in 1..Len(toLinux[w]) \/ i = Len(toLinux[w]) + 1
        BY <2>2, <3>3
      <4> QED BY <2>2, <2>3, <3>1, <3>3, <4>1, <4>2
    <3> QED BY <3>2, <3>3
  <2> QED BY <1>4, <1>9, <2>4, <2>6, <2>7 DEF WindowInv
<1> QED BY <1>10, <1>11

LEMMA WindowPass == \A v \in Windows : WindowInv /\ PassThrough(v) => WindowInv'
<1> SUFFICES ASSUME NEW v \in Windows, WindowInv, PassThrough(v) PROVE WindowInv'
  OBVIOUS
<1> DEFINE c == Head(toLinux[v])
           a == Append(toVesa[v], c)
           l == Tail(toLinux[v])
<1>1. /\ toLinux[v] # <<>> /\ toVesa' = [toVesa EXCEPT ![v] = a]
      /\ toLinux' = [toLinux EXCEPT ![v] = l] /\ UNCHANGED driverVars
      /\ toSwitch' = toSwitch /\ selected' = selected
      /\ meant' = meant /\ meantFor' = meantFor
      /\ inputs' = inputs /\ drawn' = drawn /\ pen' = pen
  BY DEF PassThrough, userVars, vesaVars
<1>2. WindowTypes /\ ParserInv /\ toVesa \in Texts /\ toLinux \in Texts
  BY DEF WindowInv, WindowTypes
<1>3. ParserInv' /\ OnWay' = OnWay
  BY <1>1, <1>2, DriverIdle
<1>4. PICK n \in Counts :
        /\ Routes(OnWay, selected, meantFor, meant, Past(n, toVesa, toLinux))
        /\ QueuesAs(n, toVesa, toLinux, meant) /\ PanesAs(n, meant, drawn, pen)
  BY DEF WindowInv
<1>5. /\ n[v] \in Nat /\ Len(toVesa[v]) \in Nat /\ Len(toLinux[v]) \in Nat \ {0}
      /\ toVesa[v] \in Seq(PlainKeys) /\ toLinux[v] \in Seq(PlainKeys)
      /\ c = toLinux[v][1] /\ c \in PlainKeys
  <2>1. /\ n[v] \in Nat /\ toVesa[v] \in Seq(PlainKeys) /\ toLinux[v] \in Seq(PlainKeys)
    BY <1>2, LengthsAre
  <2> QED BY <1>1, <2>1
<1>6. /\ a \in Seq(PlainKeys) /\ Len(a) = Len(toVesa[v]) + 1 /\ a[Len(toVesa[v]) + 1] = c
      /\ \A i \in 1..Len(toVesa[v]) : a[i] = toVesa[v][i]
  BY <1>5, AppendProperties
<1>7. /\ l \in Seq(PlainKeys) /\ Len(l) = Len(toLinux[v]) - 1
      /\ \A i \in 1..Len(l) : l[i] = toLinux[v][i + 1]
  BY <1>1, <1>5
<1> HIDE DEF a, l, c
<1>8. /\ toVesa' \in Texts /\ toLinux' \in Texts /\ toVesa'[v] = a /\ toLinux'[v] = l
      /\ \A w \in Windows : w # v => toVesa'[w] = toVesa[w] /\ toLinux'[w] = toLinux[w]
  BY <1>1, <1>2, <1>6, <1>7 DEF Texts
<1>9. WindowTypes'
  BY <1>1, <1>2, <1>8 DEF WindowTypes
<1>10. Past(n, toVesa', toLinux') = Past(n, toVesa, toLinux)
  <2>1. \A w \in Windows : n[w] + Len(toVesa'[w]) + Len(toLinux'[w])
                           = n[w] + Len(toVesa[w]) + Len(toLinux[w])
    <3> TAKE w \in Windows
    <3>1. CASE w = v
      <4>1. Len(toVesa'[v]) = Len(toVesa[v]) + 1 /\ Len(toLinux'[v]) = Len(toLinux[v]) - 1
        BY <1>6, <1>7, <1>8
      <4>2. n[v] \in Nat /\ Len(toVesa[v]) \in Nat /\ Len(toLinux[v]) \in Nat
        BY <1>5
      <4> DEFINE x == n[v]
                 y == Len(toVesa[v])
                 z == Len(toLinux[v])
      <4> HIDE DEF x, y, z
      <4>3. x \in Nat /\ y \in Nat /\ z \in Nat
        BY <4>2 DEF x, y, z
      <4>4. x + (y + 1) + (z - 1) = x + y + z
        BY <4>3
      <4> QED BY <3>1, <4>1, <4>4 DEF x, y, z
    <3>2. CASE w # v
      BY <1>8, <3>2
    <3> QED BY <3>1, <3>2
  <2> QED BY <2>1 DEF Past
<1>11. QueuesAs(n, toVesa', toLinux', meant')
  <2> SUFFICES ASSUME NEW w \in Windows
               PROVE  /\ \A i \in 1..Len(toVesa'[w]) : toVesa'[w][i] = meant[w][n[w] + i]
                      /\ \A i \in 1..Len(toLinux'[w]) :
                           toLinux'[w][i] = meant[w][n[w] + Len(toVesa'[w]) + i]
    BY <1>1 DEF QueuesAs
  <2>1. /\ \A i \in 1..Len(toVesa[w]) : toVesa[w][i] = meant[w][n[w] + i]
        /\ \A i \in 1..Len(toLinux[w]) :
             toLinux[w][i] = meant[w][n[w] + Len(toVesa[w]) + i]
    BY <1>4 DEF QueuesAs
  <2>2. CASE w # v
    BY <1>8, <2>1, <2>2
  <2>3. CASE w = v
    <3>1. a[Len(toVesa[v]) + 1] = meant[w][n[w] + (Len(toVesa[v]) + 1)]
      <4>1. 1 \in 1..Len(toLinux[v]) /\ n[w] + Len(toVesa[v]) + 1 = n[w] + (Len(toVesa[v]) + 1)
        <5>1. n[w] \in Nat /\ Len(toVesa[v]) \in Nat /\ Len(toLinux[v]) \in Nat \ {0}
          BY <1>5, <2>3
        <5> QED BY <5>1
      <4> QED BY <1>5, <1>6, <2>1, <2>3, <4>1
    <3>2. \A i \in 1..Len(a) : i \in 1..Len(toVesa[v]) \/ i = Len(toVesa[v]) + 1
      BY <1>5, <1>6
    <3>3. \A i \in 1..Len(a) : a[i] = meant[w][n[w] + i]
      BY <1>6, <2>1, <2>3, <3>1, <3>2
    <3>4. \A i \in 1..Len(l) : l[i] = meant[w][n[w] + Len(a) + i]
      <4> TAKE i \in 1..Len(l)
      <4>1. /\ i + 1 \in 1..Len(toLinux[v])
            /\ n[w] + Len(toVesa[v]) + (i + 1) = n[w] + Len(a) + i
        <5>1. /\ n[w] \in Nat /\ Len(toVesa[v]) \in Nat /\ Len(toLinux[v]) \in Nat
              /\ Len(a) = Len(toVesa[v]) + 1 /\ Len(l) = Len(toLinux[v]) - 1
          BY <1>5, <1>6, <1>7, <2>3
        <5> DEFINE x == n[w]
                   y == Len(toVesa[v])
                   z == Len(toLinux[v])
        <5> HIDE DEF x, y, z
        <5>2. x \in Nat /\ y \in Nat /\ z \in Nat /\ i \in 1..(z - 1)
          BY <5>1 DEF x, y, z
        <5>3. i + 1 \in 1..z /\ x + y + (i + 1) = x + (y + 1) + i
          BY <5>2
        <5> QED BY <5>1, <5>3 DEF x, y, z
      <4>2. l[i] = toLinux[v][i + 1]
        BY <1>7
      <4>3. toLinux[v][i + 1] = meant[w][n[w] + Len(toVesa[v]) + (i + 1)]
        BY <2>1, <2>3, <4>1
      <4> QED BY <4>1, <4>2, <4>3
    <3> QED BY <1>8, <2>3, <3>3, <3>4
  <2> QED BY <2>2, <2>3
<1>12. /\ Routes(OnWay', selected', meantFor', meant', Past(n, toVesa', toLinux'))
       /\ PanesAs(n, meant', drawn', pen')
  BY <1>1, <1>3, <1>4, <1>10
<1> QED BY <1>3, <1>9, <1>11, <1>12 DEF WindowInv

\* The display polls a ring.
LEMMA WindowPoll == WindowInv /\ PollInput => WindowInv'
<1> SUFFICES ASSUME WindowInv, PollInput PROVE WindowInv'
  OBVIOUS
<1> DEFINE v == inputs
           c == Head(toVesa[v])
           a == Tail(toVesa[v])
<1>1. /\ UNCHANGED driverVars /\ inputs' = Other(v)
      /\ toSwitch' = toSwitch /\ selected' = selected /\ toLinux' = toLinux
      /\ meant' = meant /\ meantFor' = meantFor
      /\ \/ toVesa[v] = <<>> /\ pen' = pen /\ drawn' = drawn /\ toVesa' = toVesa
         \/ toVesa[v] # <<>> /\ Write(v, c) /\ toVesa' = [toVesa EXCEPT ![v] = a]
  BY DEF PollInput, userVars
<1>2. WindowTypes /\ ParserInv /\ toVesa \in Texts /\ v \in Windows /\ meant \in Texts
      /\ DOMAIN drawn = Windows /\ DOMAIN pen = Windows
  BY DEF WindowInv, WindowTypes
<1>3. ParserInv' /\ OnWay' = OnWay
  BY <1>1, <1>2, DriverIdle
<1>4. PICK n \in Counts :
        /\ Routes(OnWay, selected, meantFor, meant, Past(n, toVesa, toLinux))
        /\ QueuesAs(n, toVesa, toLinux, meant) /\ PanesAs(n, meant, drawn, pen)
  BY DEF WindowInv
<1>5. Other(v) \in Windows
  BY DEF Other, Windows
<1>6. CASE toVesa[v] = <<>> /\ pen' = pen /\ drawn' = drawn /\ toVesa' = toVesa
  <2>1. WindowTypes'
    BY <1>1, <1>2, <1>5, <1>6 DEF WindowTypes
  <2>2. /\ Routes(OnWay', selected', meantFor', meant', Past(n, toVesa', toLinux'))
        /\ QueuesAs(n, toVesa', toLinux', meant') /\ PanesAs(n, meant', drawn', pen')
    BY <1>1, <1>3, <1>4, <1>6
  <2> QED BY <1>3, <2>1, <2>2 DEF WindowInv
<1>7. CASE toVesa[v] # <<>> /\ Write(v, c) /\ toVesa' = [toVesa EXCEPT ![v] = a]
  <2>1. /\ n[v] \in Nat /\ Len(toVesa[v]) \in Nat \ {0} /\ Len(toLinux[v]) \in Nat
        /\ toVesa[v] \in Seq(PlainKeys) /\ c = toVesa[v][1]
        /\ a \in Seq(PlainKeys) /\ Len(a) = Len(toVesa[v]) - 1
        /\ \A i \in 1..Len(a) : a[i] = toVesa[v][i + 1]
    <3>1. n[v] \in Nat /\ toVesa[v] \in Seq(PlainKeys) /\ Len(toLinux[v]) \in Nat
      BY <1>2, LengthsAre
    <3> QED BY <1>7, <3>1
  <2>2. c = meant[v][n[v] + 1]
    <3>1. 1 \in 1..Len(toVesa[v])
      BY <2>1
    <3> QED BY <1>2, <1>4, <2>1, <3>1 DEF QueuesAs
  <2> DEFINE n2 == [n EXCEPT ![v] = @ + 1]
  <2>3. /\ n2 \in Counts /\ n2[v] = n[v] + 1 /\ \A w \in Windows : w # v => n2[w] = n[w]
    BY <1>2, <2>1 DEF Counts
  <2> HIDE DEF n2, a, v
  <2>4. /\ toVesa' \in Texts /\ toVesa'[v] = a
        /\ \A w \in Windows : w # v => toVesa'[w] = toVesa[w]
    BY <1>2, <1>7, <2>1 DEF Texts
  <2>5. Past(n2, toVesa', toLinux') = Past(n, toVesa, toLinux)
    <3>1. \A w \in Windows : n2[w] + Len(toVesa'[w]) + Len(toLinux'[w])
                             = n[w] + Len(toVesa[w]) + Len(toLinux[w])
      <4> TAKE w \in Windows
      <4>1. CASE w = v
        <5>1. /\ n[v] \in Nat /\ Len(toVesa[v]) \in Nat /\ Len(toLinux[v]) \in Nat
              /\ n2[v] = n[v] + 1 /\ Len(toVesa'[v]) = Len(toVesa[v]) - 1
          BY <2>1, <2>3, <2>4
        <5> DEFINE x == n[v]
                   y == Len(toVesa[v])
                   z == Len(toLinux[v])
        <5> HIDE DEF x, y, z
        <5>2. x \in Nat /\ y \in Nat /\ z \in Nat
          BY <5>1 DEF x, y, z
        <5>3. (x + 1) + (y - 1) + z = x + y + z
          BY <5>2
        <5> QED BY <1>1, <4>1, <5>1, <5>3 DEF x, y, z
      <4>2. CASE w # v
        BY <1>1, <2>3, <2>4, <4>2
      <4> QED BY <4>1, <4>2
    <3> QED BY <3>1 DEF Past
  <2>6. QueuesAs(n2, toVesa', toLinux', meant')
    <3> SUFFICES ASSUME NEW w \in Windows
                 PROVE  /\ \A i \in 1..Len(toVesa'[w]) : toVesa'[w][i] = meant[w][n2[w] + i]
                        /\ \A i \in 1..Len(toLinux[w]) :
                             toLinux[w][i] = meant[w][n2[w] + Len(toVesa'[w]) + i]
      BY <1>1 DEF QueuesAs
    <3>1. /\ \A i \in 1..Len(toVesa[w]) : toVesa[w][i] = meant[w][n[w] + i]
          /\ \A i \in 1..Len(toLinux[w]) :
               toLinux[w][i] = meant[w][n[w] + Len(toVesa[w]) + i]
      BY <1>4 DEF QueuesAs
    <3>2. CASE w # v
      BY <2>3, <2>4, <3>1, <3>2
    <3>3. CASE w = v
      <4>1. \A i \in 1..Len(a) : a[i] = meant[w][n2[w] + i]
        <5> TAKE i \in 1..Len(a)
        <5>1. i + 1 \in 1..Len(toVesa[w]) /\ n[w] + (i + 1) = n2[w] + i
          <6>1. /\ n[w] \in Nat /\ Len(toVesa[w]) \in Nat
                /\ n2[w] = n[w] + 1 /\ Len(a) = Len(toVesa[w]) - 1
            BY <2>1, <2>3, <3>3
          <6> QED BY <6>1
        <5>2. a[i] = toVesa[w][i + 1]
          BY <2>1, <3>3
        <5> QED BY <3>1, <5>1, <5>2
      <4>2. n2[w] + Len(a) = n[w] + Len(toVesa[w])
        BY <2>1, <2>3, <3>3
      <4> QED BY <2>4, <3>1, <3>3, <4>1, <4>2
    <3> QED BY <3>2, <3>3
  <2>7. DrawnAs(v, n[v], meant[v], drawn[v], pen[v])
    BY <1>2, <1>4 DEF PanesAs
  <2>8. /\ DOMAIN drawn' = Windows /\ DOMAIN pen' = Windows
        /\ \A w \in Windows : w # v => drawn'[w] = drawn[w] /\ pen'[w] = pen[w]
        /\ IF ~printable(c) \/ pen[v].y >= 100 + HEIGHT - CHAR_HEIGHT
           THEN drawn'[v] = drawn[v] /\ pen'[v] = pen[v]
           ELSE /\ drawn'[v] = Append(drawn[v], [char |-> c, at |-> pen[v]])
                /\ pen'[v] = NextPen(v, pen[v])
    BY <1>2, <1>7 DEF Write, draw
  <2>9. DrawnAs(v, n[v] + 1, meant[v], drawn'[v], pen'[v])
    <3>1. \A s2, p2 :
            (IF ~printable(meant[v][n[v] + 1]) \/ pen[v].y >= 100 + HEIGHT - CHAR_HEIGHT
             THEN s2 = drawn[v] /\ p2 = pen[v]
             ELSE /\ s2 = Append(drawn[v], [char |-> meant[v][n[v] + 1], at |-> pen[v]])
                  /\ p2 = NextPen(v, pen[v]))
            => DrawnAs(v, n[v] + 1, meant[v], s2, p2)
      BY <1>2, <2>1, <2>7, Drawing
    <3>2. (IF ~printable(meant[v][n[v] + 1]) \/ pen[v].y >= 100 + HEIGHT - CHAR_HEIGHT
           THEN drawn'[v] = drawn[v] /\ pen'[v] = pen[v]
           ELSE /\ drawn'[v] = Append(drawn[v], [char |-> meant[v][n[v] + 1], at |-> pen[v]])
                /\ pen'[v] = NextPen(v, pen[v]))
      BY <2>2, <2>8
    <3> QED BY <3>1, <3>2
  <2>10. PanesAs(n2, meant', drawn', pen')
    <3> SUFFICES ASSUME NEW w \in Windows PROVE DrawnAs(w, n2[w], meant[w], drawn'[w], pen'[w])
      BY <1>1 DEF PanesAs
    <3>1. CASE w = v
      BY <2>3, <2>9, <3>1
    <3>2. CASE w # v
      BY <1>4, <2>3, <2>8, <3>2 DEF PanesAs
    <3> QED BY <3>1, <3>2
  <2>11. WindowTypes'
    BY <1>1, <1>2, <1>5, <2>4, <2>8 DEF WindowTypes
  <2>12. Routes(OnWay', selected', meantFor', meant', Past(n2, toVesa', toLinux'))
    BY <1>1, <1>3, <1>4, <2>5
  <2> QED BY <1>3, <2>3, <2>6, <2>10, <2>11, <2>12 DEF WindowInv
<1> QED BY <1>1, <1>6, <1>7

LEMMA WindowStep == WindowInv /\ (ConsoleNext \/ UNCHANGED consoleVars) => WindowInv'
<1> SUFFICES ASSUME WindowInv, ConsoleNext \/ UNCHANGED consoleVars PROVE WindowInv'
  OBVIOUS
<1>1. CASE ConsoleNext
  BY <1>1, WindowKeys, WindowScan, WindowSwitch, WindowPass, WindowPoll DEF ConsoleNext
<1>2. CASE UNCHANGED consoleVars
  <2>1. /\ UNCHANGED driverVars /\ toSwitch' = toSwitch /\ selected' = selected
        /\ toLinux' = toLinux /\ toVesa' = toVesa /\ meant' = meant /\ meantFor' = meantFor
        /\ inputs' = inputs /\ drawn' = drawn /\ pen' = pen
    BY <1>2 DEF consoleVars, ringVarsC, userVars, vesaVars
  <2>2. ParserInv' /\ OnWay' = OnWay
    BY <2>1, DriverIdle DEF WindowInv
  <2>3. WindowTypes'
    BY <2>1 DEF WindowInv, WindowTypes
  <2> QED BY <2>1, <2>2, <2>3 DEF WindowInv
<1> QED BY <1>1, <1>2

LEMMA WindowInit == ConsoleInit => WindowInv
<1> SUFFICES ASSUME ConsoleInit PROVE WindowInv
  OBVIOUS
<1> DEFINE n == [w \in Windows |-> 0]
<1>1. /\ <<>> \in Seq(PlainKeys) /\ <<>> \in Seq(Drawings) /\ Len(<<>>) = 0
      /\ LOW \in Windows /\ n \in Counts /\ Room \in Nat \ {0}
  <2>1. LOW \in Windows
    BY DEF Windows
  <2> QED BY <2>1, RoomFacts DEF Counts
<1>2. WindowTypes
  BY <1>1 DEF ConsoleInit, WindowTypes, Texts
<1>3. Parse(<<>>, NoCode, 0, FALSE) /\ OnWay = <<>>
  <2>1. Parse(<<>>, NoCode, 0, FALSE)
    BY DEF ConsoleInit, Parse
  <2> QED BY <2>1, OnWayIs DEF ParseDown, ConsoleInit
<1>4. \A w \in Windows : DrawnAs(w, n[w], meant[w], drawn[w], pen[w])
  <2> TAKE w \in Windows
  <2>1. n[w] = 0 /\ drawn[w] = <<>> /\ pen[w] = FirstPen(w)
    BY DEF ConsoleInit
  <2>2. Printables(meant[w], 0) = {} /\ Cardinality(Printables(meant[w], 0)) = 0
    BY PrintablesAre
  <2>3. FirstPen(w) = Place(w, 0)
    <3> DEFINE q == Columns
    <3>1. q \in Nat \ {0}
      BY RoomFacts
    <3> HIDE DEF q
    <3> DEFINE d == 0 \div q
               r == 0 % q
    <3>2. 0 = q * d + r /\ r \in 0..(q - 1) /\ d \in Int
      BY <3>1
    <3> HIDE DEF d, r
    <3>3. 0 % q = 0 /\ 0 \div q = 0
      <4>1. CASE d >= 1
        <5>1. q * d >= q
          BY <3>1, <3>2, <4>1
        <5> QED BY <3>1, <3>2, <5>1
      <4>2. CASE d <= -1
        <5>1. q * d <= q * (-1)
          BY <3>1, <3>2, <4>2
        <5> QED BY <3>1, <3>2, <5>1
      <4>3. CASE d = 0
        BY <3>1, <3>2, <4>3 DEF d, r
      <4> QED BY <3>2, <4>1, <4>2, <4>3
    <3>4. 0 * CHAR_WIDTH = 0 /\ 0 * CHAR_HEIGHT = 0 /\ LeftEdge(w) \in Nat
      BY ConsoleAssumption DEF LeftEdge
    <3>5. CHAR_HEIGHT \in Nat
      BY ConsoleAssumption
    <3> DEFINE x == LeftEdge(w)
               h == CHAR_HEIGHT
    <3> HIDE DEF x, h
    <3>6. x + 2 + 0 = x + 2 /\ 104 + h + 0 = 100 + 4 + h
      BY <3>4, <3>5 DEF x, h
    <3> QED BY <3>3, <3>4, <3>6 DEF FirstPen, Place, q, x, h
  <2>4. DrawnAs(w, 0, meant[w], <<>>, Place(w, 0))
    BY <1>1, <2>2 DEF DrawnAs
  <2> QED BY <2>1, <2>3, <2>4
<1>5. \A w \in Windows : Len(toVesa[w]) = 0 /\ Len(toLinux[w]) = 0 /\ Len(meant[w]) = 0
  BY DEF ConsoleInit
<1>6. \A w \in Windows : n[w] = 0
  OBVIOUS
<1> HIDE DEF n
<1>7. QueuesAs(n, toVesa, toLinux, meant)
  BY <1>5 DEF QueuesAs
<1>8. Routes(OnWay, selected, meantFor, meant, Past(n, toVesa, toLinux))
  <2> DEFINE past == Past(n, toVesa, toLinux)
             D == [i \in 1..1 |-> LOW]
             R == [i \in 1..1 |-> past]
  <2>1. past \in Counts /\ \A w \in Windows : past[w] = 0
    BY <1>5, <1>6 DEF Past, Counts
  <2>2. /\ D \in [1..1 -> Windows] /\ R \in [1..1 -> Counts]
        /\ D[1] = LOW /\ R[1] = past
    BY <1>1, <2>1
  <2> HIDE DEF D, R, past
  <2>3. Len(OnWay) = 0 /\ Len(OnWay) + 1 = 1 /\ selected = LOW /\ meantFor = LOW
    BY <1>1, <1>3 DEF ConsoleInit
  <2>4. Routed(OnWay, selected, meantFor, meant, past, D, R)
    BY <1>5, <2>1, <2>2, <2>3 DEF Routed
  <2> QED BY <2>2, <2>3, <2>4 DEF Routes, past
<1> QED BY <1>1, <1>2, <1>3, <1>4, <1>7, <1>8 DEF WindowInv, ParserInv, ParseDown, PanesAs

\* What the invariant says of the windows.
LEMMA WindowsKept == WindowInv => WindowsFaithful
<1> SUFFICES ASSUME WindowInv, NEW w \in Windows
             PROVE  LET want == Displayable(w, Len(meant[w]))
                        got_ == drawn[w]
                    IN  /\ Len(got_) <= Cardinality(want)
                        /\ \A i \in want : LET rank == Cardinality(Displayable(w, i))
                                           IN  rank <= Len(got_) => got_[rank].char = meant[w][i]
                        /\ \A i \in 1..Len(got_) :
                             /\ got_[i].at.x > LeftEdge(w)
                             /\ got_[i].at.x + CHAR_WIDTH - 1 < LeftEdge(w) + WIDTH
                             /\ got_[i].at.y >= 104 + CHAR_HEIGHT
                             /\ got_[i].at.y + CHAR_HEIGHT - 1 < 100 + HEIGHT
                             /\ \A j \in 1..(i - 1) : got_[i].at # got_[j].at
                        /\ Arrived => Len(got_) = Min({Cardinality(want), Room})
  BY DEF WindowsFaithful
<1> DEFINE text == meant[w]
           pic == drawn[w]
           cards(m) == Cardinality(Printables(text, m))
           all == Len(text)
<1>1. PICK n \in Counts :
        /\ Routes(OnWay, selected, meantFor, meant, Past(n, toVesa, toLinux))
        /\ PanesAs(n, meant, drawn, pen)
  BY DEF WindowInv
<1>2. /\ OnWay \in Seq(PlainKeys) /\ all \in Nat /\ n[w] \in Nat
      /\ Past(n, toVesa, toLinux)[w] = n[w] + Len(toVesa[w]) + Len(toLinux[w])
      /\ Len(toVesa[w]) \in Nat /\ Len(toLinux[w]) \in Nat
  BY LengthsAre, OnWayType DEF WindowInv
<1>3. n[w] <= all
  <2>1. Past(n, toVesa, toLinux)[w] <= all
    BY <1>1, <1>2, RouteBound
  <2> QED BY <1>2, <2>1
<1>4. /\ pic \in Seq(Drawings) /\ Len(pic) <= Room
      /\ Len(pic) = IF cards(n[w]) < Room THEN cards(n[w]) ELSE Room
      /\ \A i \in Printables(text, n[w]) : cards(i) <= Len(pic) => pic[cards(i)].char = text[i]
      /\ \A i \in 1..Len(pic) : pic[i].at = Place(w, i - 1)
  BY <1>1 DEF PanesAs, DrawnAs
<1>5. \A m : Displayable(w, m) = Printables(text, m)
  BY DEF Displayable, Printables
<1>6. \A m \in Nat : cards(m) \in Nat
  BY PrintablesAre
<1>7. Len(pic) \in Nat /\ Room \in Nat
  BY <1>4, RoomFacts
<1>8. cards(n[w]) <= cards(all) /\ Len(pic) <= cards(n[w]) /\ Len(pic) <= cards(all)
  <2>1. cards(n[w]) <= cards(all)
    BY <1>2, <1>3, RanksGrow
  <2>2. cards(n[w]) \in Nat /\ cards(all) \in Nat
    BY <1>2, <1>6
  <2> QED BY <1>4, <1>7, <2>1, <2>2
<1>9. \A i \in Printables(text, all) : cards(i) <= Len(pic) => pic[cards(i)].char = text[i]
  <2> TAKE i \in Printables(text, all)
  <2>1. i \in 1..all /\ printable(text[i]) /\ i \in Nat
    BY <1>2 DEF Printables
  <2>2. CASE i <= n[w]
    <3>1. i \in Printables(text, n[w])
      BY <1>2, <2>1, <2>2 DEF Printables
    <3> QED BY <1>4, <3>1
  <2>3. CASE n[w] < i
    <3>1. cards(n[w]) < cards(i)
      <4>1. \A a, b \in Nat : a <= b => (a < b /\ printable(text[b]) => cards(a) < cards(b))
        BY RanksGrow
      <4> QED BY <1>2, <2>1, <2>3, <4>1
    <3>2. cards(n[w]) \in Nat /\ cards(i) \in Nat
      BY <1>2, <1>6, <2>1
    <3> QED BY <1>7, <1>8, <3>1, <3>2
  <2> QED BY <1>2, <2>1, <2>2, <2>3
<1>10. \A i \in 1..Len(pic) :
         /\ pic[i].at.x > LeftEdge(w)
         /\ pic[i].at.x + CHAR_WIDTH - 1 < LeftEdge(w) + WIDTH
         /\ pic[i].at.y >= 104 + CHAR_HEIGHT
         /\ pic[i].at.y + CHAR_HEIGHT - 1 < 100 + HEIGHT
         /\ \A j \in 1..(i - 1) : pic[i].at # pic[j].at
  <2> TAKE i \in 1..Len(pic)
  <2> DEFINE m == i - 1
             here == Place(w, m)
  <2>1. m \in Nat /\ m < Room
    BY <1>4, <1>7
  <2>2. /\ here.x > LeftEdge(w) /\ here.x + CHAR_WIDTH - 1 < LeftEdge(w) + WIDTH
        /\ here.y >= 104 + CHAR_HEIGHT /\ here.y + CHAR_HEIGHT - 1 < 100 + HEIGHT
        /\ \A j \in 0..(m - 1) : Place(w, j) # here
    BY <2>1, PlaceInside
  <2>3. \A j \in 1..(i - 1) : j \in 1..Len(pic) /\ j - 1 \in 0..(m - 1)
    BY <1>7
  <2>4. pic[i].at = here
    BY <1>4
  <2> QED BY <1>4, <2>2, <2>3, <2>4
<1>11. ASSUME Arrived PROVE Len(pic) = Min({cards(all), Room})
  <2>1. OnWay = <<>>
    <3>1. port = <<>> /\ toSwitch = <<>>
      BY <1>11 DEF Arrived
    <3> QED BY <3>1, NothingTyped DEF WindowInv
  <2>2. n[w] = all
    <3>1. Past(n, toVesa, toLinux)[w] = all
      BY <1>1, <2>1, RouteDone
    <3>2. Len(toVesa[w]) = 0 /\ Len(toLinux[w]) = 0
      BY <1>11 DEF Arrived
    <3> QED BY <1>2, <3>1, <3>2
  <2>3. \A a, b \in Nat : Min({a, b}) = IF a < b THEN a ELSE b
    <3> TAKE a, b \in Nat
    <3> DEFINE c == IF a < b THEN a ELSE b
    <3>1. c \in {a, b} /\ \A y \in {a, b} : c <= y
      OBVIOUS
    <3>2. \A x \in {a, b} : (\A y \in {a, b} : x <= y) => x = c
      OBVIOUS
    <3> HIDE DEF c
    <3> QED BY <3>1, <3>2 DEF Min
  <2> QED BY <1>2, <1>4, <1>6, <1>7, <2>2, <2>3
<1> HIDE DEF text, pic
<1>12. cards(all) = Cardinality(Displayable(w, all))
  BY <1>5
<1> QED BY <1>5, <1>8, <1>9, <1>10, <1>11 DEF text, pic

(* Console: each window shows the printable characters typed for it, in order *)
(* and each once, whichever other keys are down and however late its rings   *)
(* are, and all of them up to the room it has once they have arrived: the    *)
(* driver sends a character for each plain key that goes up, also between    *)
(* the codes of escaped keys (driver.c:63-104), the switch sends it where    *)
(* the user last switched to (switch.c:44-62), and the display puts it at    *)
(* the next free place inside the borders (vesadriver.c:131-168).            *)
THEOREM WindowsAreFaithful == Spec => []WindowsFaithful
<1>1. Init => WindowInv
  BY WindowInit DEF Init
<1>2. WindowInv /\ [Next]_vars => WindowInv'
  <2>1. [Next]_vars => ConsoleNext \/ UNCHANGED consoleVars
    BY DEF Next, vars
  <2> QED BY <2>1, WindowStep
<1>3. WindowInv => WindowsFaithful
  BY WindowsKept
<1> QED BY <1>1, <1>2, <1>3, PTL DEF Spec
=============================================================================
