----------------------------- MODULE MCStrategy -----------------------------
(* One look-back shorter and one as long as a lead, on a ring that is       *)
(* filled and overwritten twice; the warm-up is exactly what the longest    *)
(* call needs with Calculator a full lag behind.                            *)
EXTENDS Strategy

MCMAInterval  == <<2>>
MCADRInterval == <<1, 2>>

MCReads == <<
  [ratio |-> 1, lead |-> 0, guard |-> 0],
  [ratio |-> 2, lead |-> 0, guard |-> 0],
  [ratio |-> 2, lead |-> 2, guard |-> 0] >>
=============================================================================
