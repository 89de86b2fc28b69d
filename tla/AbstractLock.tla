---------------------------- MODULE AbstractLock ----------------------------
(* What the interface Lock of mutex and lockserver promises: between lock    *)
(* and unlock a user is alone, and it unlocks what it has locked.            *)
EXTENDS FiniteSets

CONSTANT Users

VARIABLE holders

LockInit == holders = {}
Acquire(u) == holders = {} /\ holders' = {u}
Release(u) == u \in holders /\ holders' = holders \ {u}
LockNext == \E u \in Users : Acquire(u) \/ Release(u)

LockSpec == LockInit /\ [][LockNext]_holders
=============================================================================
