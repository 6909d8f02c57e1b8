--------------------------- MODULE MCAsyncLogger ----------------------------
(* A queue of one message for two threads, so that both may sleep at once,  *)
(* one of which writes to both files.                                       *)
EXTENDS AsyncLogger

MCUses == [t \in Threads |-> IF t = "t1" THEN {"log"} ELSE {"log", "out"}]
=============================================================================
