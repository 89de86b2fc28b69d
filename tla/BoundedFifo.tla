---------------------------- MODULE BoundedFifo ----------------------------
(* What the dataport between the security demo's Crypto and Transmitter     *)
(* components promises (the comment of                                      *)
(* security_demo/include/dataport_buffer.h): a first-in first-out channel   *)
(* of bounded capacity that discards a character only when it is full.      *)
EXTENDS Naturals, Sequences

CONSTANTS Items,      \* what may travel
          Capacity    \* how many items the channel holds

VARIABLES queue,      \* the items in the channel, oldest first
          delivered,  \* everything taken out so far, in order
          discarded   \* how many items were refused

fifoVars == <<queue, delivered, discarded>>

FifoInit == queue = <<>> /\ delivered = <<>> /\ discarded = 0

Put(c) ==
  /\ Len(queue) < Capacity
  /\ queue' = Append(queue, c)
  /\ UNCHANGED <<delivered, discarded>>

Discard ==
  /\ Len(queue) = Capacity
  /\ discarded' = discarded + 1
  /\ UNCHANGED <<queue, delivered>>

Get ==
  /\ queue # <<>>
  /\ delivered' = Append(delivered, Head(queue))
  /\ queue' = Tail(queue)
  /\ UNCHANGED discarded

FifoNext == (\E c \in Items : Put(c)) \/ Discard \/ Get

FifoSpec == FifoInit /\ [][FifoNext]_fifoVars
=============================================================================
