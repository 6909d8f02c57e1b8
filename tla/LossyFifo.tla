----------------------------- MODULE LossyFifo ------------------------------
(***************************************************************************)
(* What RingBuffer.hpp promises: a bounded queue between one producer and  *)
(* one consumer that drops the newest message when it is full, counts both *)
(* cases, and delivers what it accepted whole and in order. Messages are   *)
(* numbered in the order they are offered.                                 *)
(***************************************************************************)
EXTENDS Naturals, Sequences

CONSTANT Capacity

VARIABLES
  queue,       \* accepted and not yet taken
  taken,       \* the last message taken, 0 when none was
  aggr, loss   \* how many were accepted and how many dropped

vars == <<queue, taken, aggr, loss>>

Init ==
  /\ queue = <<>> /\ taken = 0
  /\ aggr = 0 /\ loss = 0

Accept ==
  /\ Len(queue) < Capacity
  /\ queue' = Append(queue, aggr + loss + 1)
  /\ aggr' = aggr + 1
  /\ UNCHANGED <<taken, loss>>

Drop ==
  /\ Len(queue) = Capacity
  /\ loss' = loss + 1
  /\ UNCHANGED <<queue, taken, aggr>>

Take ==
  /\ queue # <<>>
  /\ taken' = Head(queue)
  /\ queue' = Tail(queue)
  /\ UNCHANGED <<aggr, loss>>

Next == Accept \/ Drop \/ Take

Spec == Init /\ [][Next]_vars
=============================================================================
