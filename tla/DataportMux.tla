----------------------------- MODULE DataportMux -----------------------------
(* testdataportmux and testdataportmuxflat: counter.c in N components that   *)
(* share one integer through a dataport connected to all of them.  Each      *)
(* waits for its turn and increments the integer with a compare-and-swap     *)
(* that is asserted to succeed.  Every access to the dataport is one step.   *)
EXTENDS Integers

CONSTANTS N,         \* components: 5 in the code
          Limit      \* the count they stop at: 20 in the code

ASSUME CountersAssumption == N \in Nat \ {0} /\ Limit \in Nat \ {0}

VARIABLES value, muxPc, oldval

muxVars == <<value, muxPc, oldval>>

IDs == 0..(N - 1)

MuxInit ==
  /\ value = 0
  /\ muxPc = [c \in IDs |-> "test"]
  /\ oldval = [c \in IDs |-> 0]

\* Mutant: the outer loop runs one count too long.
Below_or_at == value <= Limit
Below == value < Limit

\* while (*value < 20)
Test(c) ==
  /\ muxPc[c] = "test"
  /\ muxPc' = [muxPc EXCEPT ![c] = IF Below THEN "turn" ELSE "done"]
  /\ UNCHANGED <<value, oldval>>

\* Mutant: a component also goes when its turn has passed.
MyTurn_late(c) == value % N >= c
MyTurn(c) == value % N = c

\* while ((*value) % 5 != ID);  left once the turn has come.
Wait(c) ==
  /\ muxPc[c] = "turn"
  /\ MyTurn(c)
  /\ muxPc' = [muxPc EXCEPT ![c] = "read"]
  /\ UNCHANGED <<value, oldval>>

Read(c) ==
  /\ muxPc[c] = "read"
  /\ oldval' = [oldval EXCEPT ![c] = value]
  /\ muxPc' = [muxPc EXCEPT ![c] = "cas"]
  /\ UNCHANGED value

Swapped(c) == IF value = oldval[c] THEN oldval[c] + 1 ELSE value

\* The compare-and-swap and its assertion, which stops a component it fails in.
CompareAndSwap(c) ==
  /\ muxPc[c] = "cas"
  /\ value' = Swapped(c)
  /\ muxPc' = [muxPc EXCEPT ![c] = IF value = oldval[c] THEN "test" ELSE "failed"]
  /\ UNCHANGED oldval

MuxStep(c) == Test(c) \/ Wait(c) \/ Read(c) \/ CompareAndSwap(c)

MuxNext == \E c \in IDs : MuxStep(c)
-----------------------------------------------------------------------------
MuxTypeOK ==
  /\ value \in Nat
  /\ muxPc \in [IDs -> {"test", "turn", "read", "cas", "done", "failed"}]
  /\ oldval \in [IDs -> Nat]

\* counter.c:34: the compare-and-swap succeeds.  Nobody writes between a
\* component's read and its swap, although nothing is locked.
AssertHolds == \A c \in IDs : muxPc[c] = "cas" => value = oldval[c]

\* The limit is tested before the wait and is stale after it, so the count
\* overshoots, but each component passes the stale test once at most.
OvershootBounded == value <= Limit + N - 1

\* The component whose increment reaches the limit is out of its loop.
MuxDone == Limit % N = 0 => muxPc[N - 1] = "done"
=============================================================================
