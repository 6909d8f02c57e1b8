----------------------------- MODULE RingBuffer -----------------------------
(***************************************************************************)
(* The queue of RingBuffer.hpp: one thread pushes, another calls front,    *)
(* reads the message through the pointer it got, and pops. They share only *)
(* the slots, each a flag (true: readable) and a message; every access is  *)
(* a step, in program order, as an unoptimised build on a machine with     *)
(* ordered stores makes them.                                              *)
(*                                                                         *)
(* Messages are numbered from 1 in the order of the calls of push. Copying *)
(* one takes two steps, a half each.                                       *)
(***************************************************************************)
EXTENDS Integers, FiniteSets

CONSTANTS
  RING_BUFFER_SIZE,
  MaxPushes          \* bound: how often push is called

ASSUME BufferAssumption ==
  /\ RING_BUFFER_SIZE \in Nat \ {0}
  /\ MaxPushes \in Nat

VARIABLES
  first, second,           \* msg_loop: the flag and the message of each slot
  write_index, read_index,
  aggr_cnt, loss_cnt,
  pcW,                     \* where push is
  pushes,                  \* how often it has been called
  pcR,                     \* where the reader is
  held,                    \* external: what it has copied of the message
  taken                    \* external: the last message it kept

slots    == <<first, second>>
writer   == <<write_index, aggr_cnt, loss_cnt, pcW, pushes>>
reader   == <<read_index, pcR, held, taken>>
vars     == <<slots, writer, reader>>

Slots    == 0 .. RING_BUFFER_SIZE - 1
Messages == 0 .. MaxPushes
Halves   == [lo : Messages, hi : Messages]
Whole(n) == [lo |-> n, hi |-> n]

Init ==
  /\ first = [i \in Slots |-> FALSE]
  /\ second = [i \in Slots |-> Whole(0)]
  /\ write_index = 0 /\ read_index = 0
  /\ aggr_cnt = 0 /\ loss_cnt = 0
  /\ pcW = "idle" /\ pushes = 0
  /\ pcR = "front" /\ held = Whole(0) /\ taken = Whole(0)

-----------------------------------------------------------------------------
(* push                                                                    *)

PushTest ==
  /\ pcW = "idle"
  /\ pushes < MaxPushes
  /\ pushes' = pushes + 1
  /\ pcW' = IF first[write_index] THEN "loss" ELSE "low"
  /\ UNCHANGED <<slots, write_index, aggr_cnt, loss_cnt, reader>>

PushLoss ==
  /\ pcW = "loss"
  /\ loss_cnt' = loss_cnt + 1
  /\ pcW' = "idle"
  /\ UNCHANGED <<slots, write_index, aggr_cnt, pushes, reader>>

(* The flag before the message: the two assignments the other way round.   *)
PushLow_Flagged ==
  /\ pcW = "low"
  /\ second' = [second EXCEPT ![write_index].lo = pushes]
  /\ first' = [first EXCEPT ![write_index] = TRUE]
  /\ pcW' = "high"
  /\ UNCHANGED <<write_index, aggr_cnt, loss_cnt, pushes, reader>>

PushLow ==
  /\ pcW = "low"
  /\ second' = [second EXCEPT ![write_index].lo = pushes]
  /\ pcW' = "high"
  /\ UNCHANGED <<first, write_index, aggr_cnt, loss_cnt, pushes, reader>>

PushHigh ==
  /\ pcW = "high"
  /\ second' = [second EXCEPT ![write_index].hi = pushes]
  /\ pcW' = "flag"
  /\ UNCHANGED <<first, write_index, aggr_cnt, loss_cnt, pushes, reader>>

PushFlag ==
  /\ pcW = "flag"
  /\ first' = [first EXCEPT ![write_index] = TRUE]
  /\ pcW' = "increment"
  /\ UNCHANGED <<second, write_index, aggr_cnt, loss_cnt, pushes, reader>>

PushIncrement ==
  /\ pcW = "increment"
  /\ write_index' = write_index + 1
  /\ pcW' = "modulo"
  /\ UNCHANGED <<slots, aggr_cnt, loss_cnt, pushes, reader>>

PushModulo ==
  /\ pcW = "modulo"
  /\ write_index' = write_index % RING_BUFFER_SIZE
  /\ pcW' = "count"
  /\ UNCHANGED <<slots, aggr_cnt, loss_cnt, pushes, reader>>

PushCount ==
  /\ pcW = "count"
  /\ aggr_cnt' = aggr_cnt + 1
  /\ pcW' = "idle"
  /\ UNCHANGED <<slots, write_index, loss_cnt, pushes, reader>>

push ==
  \/ PushTest \/ PushLoss
  \/ PushLow \/ PushHigh \/ PushFlag \/ PushIncrement \/ PushModulo \/ PushCount

-----------------------------------------------------------------------------
(* The reader: front until it returns a pointer, the message, pop.         *)

Front ==
  /\ pcR = "front"
  /\ pcR' = IF first[read_index] THEN "low" ELSE "front"
  /\ UNCHANGED <<slots, writer, read_index, held, taken>>

CopyLow ==
  /\ pcR = "low"
  /\ held' = [held EXCEPT !.lo = second[read_index].lo]
  /\ pcR' = "high"
  /\ UNCHANGED <<slots, writer, read_index, taken>>

CopyHigh ==
  /\ pcR = "high"
  /\ held' = [held EXCEPT !.hi = second[read_index].hi]
  /\ pcR' = "flag"
  /\ UNCHANGED <<slots, writer, read_index, taken>>

PopFlag ==
  /\ pcR = "flag"
  /\ first' = [first EXCEPT ![read_index] = FALSE]
  /\ taken' = held
  /\ pcR' = "increment"
  /\ UNCHANGED <<second, writer, read_index, held>>

PopIncrement_Twice ==
  /\ pcR = "increment"
  /\ read_index' = read_index + 2
  /\ pcR' = "modulo"
  /\ UNCHANGED <<slots, writer, held, taken>>

PopIncrement ==
  /\ pcR = "increment"
  /\ read_index' = read_index + 1
  /\ pcR' = "modulo"
  /\ UNCHANGED <<slots, writer, held, taken>>

PopModulo ==
  /\ pcR = "modulo"
  /\ read_index' = read_index % RING_BUFFER_SIZE
  /\ pcR' = "front"
  /\ UNCHANGED <<slots, writer, held, taken>>

pop == PopFlag \/ PopIncrement \/ PopModulo

Reader == Front \/ CopyLow \/ CopyHigh \/ pop

Next == push \/ Reader

Spec     == Init /\ [][Next]_vars
(* The reader polls: it never waits for anything.                          *)
FairSpec == Spec /\ WF_vars(Reader)

-----------------------------------------------------------------------------
Readable == {i \in Slots : first[i]}

(* The slot of the oldest message: pop has given its own back already.      *)
head == (read_index + IF pcR = "increment" THEN 1 ELSE 0) % RING_BUFFER_SIZE

Number(message) == IF message.lo = message.hi THEN message.lo ELSE -1

Backlog ==
  [n \in 1 .. Cardinality(Readable) |->
     Number(second[(head + n - 1) % RING_BUFFER_SIZE])]

Fifo == INSTANCE LossyFifo WITH
  Capacity <- RING_BUFFER_SIZE,
  queue    <- Backlog,
  taken    <- Number(taken),
  aggr     <- aggr_cnt + (IF pcW \in {"increment", "modulo", "count"} THEN 1 ELSE 0),
  loss     <- loss_cnt + (IF pcW = "loss" THEN 1 ELSE 0)

(* The buffer is the lossy queue its header describes (RingBuffer.hpp:6-8): *)
(* a message is accepted or dropped whole, counted once, and taken once, in *)
(* order and as it was pushed, with no more between the threads than the    *)
(* flags of the slots.                                                     *)
Implements == Fifo!Spec

Queued(n) == \E i \in Readable : second[i] = Whole(n)

(* Every message that is accepted is taken.                                 *)
Delivered == \A n \in 1 .. MaxPushes : Queued(n) ~> taken = Whole(n)
=============================================================================
