------------------------------ MODULE LogFifo -------------------------------
(***************************************************************************)
(* What the program expects of its log (the comments of BiQTP.cpp:96-122   *)
(* and 255): one bounded queue for all threads that makes a thread wait    *)
(* rather than overrun a message, a file of each logger that takes its     *)
(* messages in the order of the queue, and a shutdown that waits for all.  *)
(* A message may be lost on the way into its file, but is not overtaken.   *)
(***************************************************************************)
EXTENDS Naturals, Sequences

CONSTANTS Threads, Message, Loggers, Capacity

VARIABLES
  accepted,   \* the messages, in the order they were queued
  posted,     \* how many of them are of each thread
  settled,    \* how many of them the files are through with
  kept,       \* what each logger's file took
  closed

vars == <<accepted, posted, settled, kept, closed>>

Init ==
  /\ accepted = <<>> /\ posted = [t \in Threads |-> 0] /\ settled = 0
  /\ kept = [l \in Loggers |-> <<>>]
  /\ closed = FALSE

Accept ==
  /\ ~closed
  /\ Len(accepted) - settled < Capacity
  /\ \E m \in Message :
       /\ m.n = posted[m.by] + 1
       /\ posted' = [posted EXCEPT ![m.by] = m.n]
       /\ accepted' = Append(accepted, m)
  /\ UNCHANGED <<settled, kept, closed>>

Settle ==
  /\ settled < Len(accepted)
  /\ settled' = settled + 1
  /\ LET m == accepted[settled + 1] IN
       kept' \in {kept, [kept EXCEPT ![m.to] = Append(@, m)]}
  /\ UNCHANGED <<accepted, posted, closed>>

Close ==
  /\ ~closed /\ settled = Len(accepted)
  /\ closed' = TRUE
  /\ UNCHANGED <<accepted, posted, settled, kept>>

Next == Accept \/ Settle \/ Close

Spec == Init /\ [][Next]_vars
=============================================================================
