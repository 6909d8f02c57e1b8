---------------------------- MODULE RingProgress ----------------------------
(***************************************************************************)
(* What the two threads that write a ring do to it, seen from outside: how *)
(* many ticks have been pushed, how many have been averaged and how many   *)
(* compared. Everything that happens to one ring is one of three steps.    *)
(***************************************************************************)
EXTENDS Naturals

CONSTANTS MaxTicks, MaxLag

VARIABLES pushed, maCnt, adrCnt

counters == <<pushed, maCnt, adrCnt>>

Init == pushed = 0 /\ maCnt = 0 /\ adrCnt = 0

Push ==
  /\ pushed < MaxTicks
  /\ pushed < maCnt + MaxLag /\ pushed < adrCnt + MaxLag
  /\ pushed' = pushed + 1
  /\ UNCHANGED <<maCnt, adrCnt>>

(* Averages and ratios take turns, a tick at a time.                       *)
Average ==
  /\ maCnt < pushed /\ maCnt <= adrCnt
  /\ maCnt' = maCnt + 1
  /\ UNCHANGED <<pushed, adrCnt>>

Compare ==
  /\ adrCnt < pushed /\ adrCnt <= maCnt
  /\ adrCnt' = adrCnt + 1
  /\ UNCHANGED <<pushed, maCnt>>

Next == Push \/ Average \/ Compare

Spec == Init /\ [][Next]_counters
=============================================================================
