-------------------------- MODULE RingBufferProofs --------------------------
(***************************************************************************)
(* The queue of RingBuffer.hpp implements LossyFifo, for every number of   *)
(* slots and of calls of push.                                             *)
(***************************************************************************)
EXTENDS RingBuffer, Sequences, FiniteSetTheorems, TLAPS

Size   == RING_BUFFER_SIZE
Length == Cardinality(Readable)

(* The slot n slots after slot i, and how far slot i is from the oldest.    *)
After(i, n) == IF i + n < Size THEN i + n ELSE i + n - Size
Offset(i)   == IF i >= head THEN i - head ELSE i - head + Size

(* The slot of the next message: push has moved on from its own already.    *)
tail == (write_index + IF pcW = "increment" THEN 1 ELSE 0) % Size

TypeInv ==
  /\ first \in [Slots -> BOOLEAN] /\ second \in [Slots -> Halves]
  /\ write_index \in 0 .. Size /\ (pcW # "modulo" => write_index < Size)
  /\ read_index \in 0 .. Size /\ (pcR # "modulo" => read_index < Size)
  /\ aggr_cnt \in Nat /\ loss_cnt \in Nat /\ pushes \in Messages
  /\ pcW \in {"idle", "loss", "low", "high", "flag", "increment", "modulo", "count"}
  /\ pcR \in {"front", "low", "high", "flag", "increment", "modulo"}
  /\ held \in Halves /\ taken \in Halves

(* Every call but the one under way has been counted once.                  *)
CountInv == pushes = aggr_cnt + loss_cnt + (IF pcW = "idle" THEN 0 ELSE 1)

(* The readable slots follow each other from head on, and tail follows      *)
(* them.                                                                   *)
SegmentInv ==
  /\ \A i \in Slots : first[i] <=> Offset(i) < Length
  /\ tail = After(head, Length)

(* push writes to a slot that is not readable, and has written so much.    *)
WriterInv ==
  /\ pcW \in {"low", "high", "flag"} => ~first[write_index]
  /\ pcW = "high" => second[write_index].lo = pushes
  /\ pcW = "flag" => second[write_index] = Whole(pushes)

(* The reader reads from a slot that is readable, and has read so much.     *)
ReaderInv ==
  /\ pcR \in {"low", "high", "flag"} => first[read_index]
  /\ pcR = "high" => held.lo = second[read_index].lo
  /\ pcR = "flag" => held = second[read_index]

BufferInv == TypeInv /\ CountInv /\ SegmentInv /\ WriterInv /\ ReaderInv

-----------------------------------------------------------------------------
(* Arithmetic of slots.                                                    *)

(* A number less than twice the size is at most one pass over the slots.    *)
LEMMA ModTwice ==
  ASSUME NEW x \in 0 .. 2 * Size - 1
  PROVE  x % Size = IF x < Size THEN x ELSE x - Size
<1>1. Size \in Nat \ {0}
  BY BufferAssumption DEF BufferAssumption, Size
<1> DEFINE d == x \div Size
           m == x % Size
<1>2. d \in Int /\ m \in 0 .. Size - 1 /\ x = Size * d + m
  BY <1>1
<1> HIDE DEF d
<1>3. x % Size = m
  OBVIOUS
<1> HIDE DEF m
<1>4. CASE x < Size
  <2>1. d < 1
    <3> SUFFICES ASSUME d - 1 \in Nat PROVE FALSE
      BY <1>2
    <3>1. Size * (d - 1) >= 0 /\ Size * (d - 1) = Size * d - Size
      BY <1>1, <1>2
    <3> QED BY <1>1, <1>2, <1>4, <3>1
  <2>2. d > -1
    <3> SUFFICES ASSUME -1 - d \in Nat PROVE FALSE
      BY <1>2
    <3>1. Size * (-1 - d) >= 0 /\ Size * (-1 - d) = -Size - Size * d
      BY <1>1, <1>2
    <3> QED BY <1>1, <1>2, <3>1
  <2>3. d = 0
    BY <1>2, <2>1, <2>2
  <2> QED BY <1>1, <1>2, <1>3, <1>4, <2>3
<1>5. CASE x >= Size
  <2>1. d < 2
    <3> SUFFICES ASSUME d - 2 \in Nat PROVE FALSE
      BY <1>2
    <3>1. Size * (d - 2) >= 0 /\ Size * (d - 2) = Size * d - 2 * Size
      BY <1>1, <1>2
    <3> QED BY <1>1, <1>2, <3>1
  <2>2. d > 0
    <3> SUFFICES ASSUME -d \in Nat PROVE FALSE
      BY <1>2
    <3>1. Size * (-d) >= 0 /\ Size * (-d) = -(Size * d)
      BY <1>1, <1>2
    <3> QED BY <1>1, <1>2, <1>5, <3>1
  <2>3. d = 1
    BY <1>2, <2>1, <2>2
  <2> QED BY <1>1, <1>2, <1>3, <1>5, <2>3
<1> QED BY <1>1, <1>4, <1>5

(* The `%` of push and pop is a test for the last slot.                    *)
LEMMA ModAfter ==
  ASSUME NEW i \in Slots, NEW n \in 0 .. Size
  PROVE  (i + n) % Size = After(i, n) /\ After(i, n) \in Slots
<1>1. Size \in Nat \ {0} /\ Slots = 0 .. Size - 1
  BY BufferAssumption DEF BufferAssumption, Size, Slots
<1> DEFINE x == i + n
<1>2. x \in 0 .. 2 * Size - 1
  BY <1>1
<1> HIDE DEF x
<1>3. x % Size = IF x < Size THEN x ELSE x - Size
  BY <1>2, ModTwice
<1> QED BY <1>1, <1>2, <1>3 DEF After, x

(* The two are each other's inverse: the slot n slots on is n slots away.   *)
LEMMA OffsetAfter ==
  ASSUME head \in Slots, NEW n \in 0 .. Size - 1
  PROVE  Offset(After(head, n)) = n
BY BufferAssumption DEF BufferAssumption, Size, Slots, After, Offset

(* Every slot is as far from the oldest as Offset says.                    *)
LEMMA AfterOffset ==
  ASSUME head \in Slots, NEW i \in Slots
  PROVE  Offset(i) \in 0 .. Size - 1 /\ After(head, Offset(i)) = i
BY BufferAssumption DEF BufferAssumption, Size, Slots, After, Offset

(* Where head and tail are at each step of pop and push.                   *)
LEMMA Ends ==
  ASSUME TypeInv
  PROVE  /\ Size \in Nat \ {0} /\ Slots = 0 .. Size - 1
         /\ head \in Slots /\ tail \in Slots
         /\ pcR = "increment" => head = After(read_index, 1)
         /\ pcR # "increment" => head = IF read_index = Size THEN 0 ELSE read_index
         /\ pcW = "increment" => tail = After(write_index, 1)
         /\ pcW # "increment" => tail = IF write_index = Size THEN 0 ELSE write_index
<1>1. Size \in Nat \ {0} /\ Slots = 0 .. Size - 1
  BY BufferAssumption DEF BufferAssumption, Size, Slots
<1>2. ASSUME NEW x \in 0 .. Size
      PROVE  (x + 0) % Size = (IF x = Size THEN 0 ELSE x) /\ (x + 0) % Size \in Slots
  <2>1. x \in 0 .. 2 * Size - 1 /\ x + 0 = x
    BY <1>1
  <2>2. x % Size = IF x < Size THEN x ELSE x - Size
    BY <2>1, ModTwice
  <2> QED BY <1>1, <2>1, <2>2
<1>3. ASSUME NEW x \in Slots
      PROVE  (x + 1) % Size = After(x, 1) /\ After(x, 1) \in Slots
  <2>1. 1 \in 0 .. Size
    BY <1>1
  <2> QED BY <2>1, ModAfter
<1>4. /\ pcR = "increment" => head = After(read_index, 1)
      /\ pcR # "increment" => head = IF read_index = Size THEN 0 ELSE read_index
      /\ head \in Slots
  <2>1. CASE pcR = "increment"
    <3>1. read_index \in Slots
      BY <1>1, <2>1 DEF TypeInv
    <3>2. head = (read_index + 1) % Size
      BY <2>1 DEF head, Size
    <3> QED BY <1>3, <2>1, <3>1, <3>2
  <2>2. CASE pcR # "increment"
    <3>1. head = (read_index + 0) % Size /\ read_index \in 0 .. Size
      BY <2>2 DEF head, Size, TypeInv
    <3> QED BY <1>2, <2>2, <3>1
  <2> QED BY <2>1, <2>2
<1>5. /\ pcW = "increment" => tail = After(write_index, 1)
      /\ pcW # "increment" => tail = IF write_index = Size THEN 0 ELSE write_index
      /\ tail \in Slots
  <2>1. CASE pcW = "increment"
    <3>1. write_index \in Slots
      BY <1>1, <2>1 DEF TypeInv
    <3>2. tail = (write_index + 1) % Size
      BY <2>1 DEF tail
    <3> QED BY <1>3, <2>1, <3>1, <3>2
  <2>2. CASE pcW # "increment"
    <3>1. tail = (write_index + 0) % Size /\ write_index \in 0 .. Size
      BY <2>2 DEF tail, TypeInv
    <3> QED BY <1>2, <2>2, <3>1
  <2> QED BY <2>1, <2>2
<1> QED BY <1>1, <1>4, <1>5

(* The buffer is full when all its slots are readable.                     *)
LEMMA LengthIs ==
  /\ IsFiniteSet(Readable) /\ Length \in 0 .. Size
  /\ Length = Size => Readable = Slots
<1>1. Size \in Nat \ {0} /\ Slots = 0 .. Size - 1
  BY BufferAssumption DEF BufferAssumption, Size, Slots
<1>2. IsFiniteSet(Slots) /\ Cardinality(Slots) = Size
  <2>1. 0 \in Int /\ Size - 1 \in Int /\ ~(0 > Size - 1) /\ Size - 1 - 0 + 1 = Size
    BY <1>1
  <2>2. IsFiniteSet(0 .. Size - 1) /\ Cardinality(0 .. Size - 1) = Size - 1 - 0 + 1
    BY <2>1, FS_Interval
  <2> QED BY <1>1, <2>1, <2>2
<1>3. Readable \in SUBSET Slots
  BY DEF Readable
<1>4. /\ IsFiniteSet(Readable) /\ Cardinality(Readable) <= Cardinality(Slots)
      /\ Cardinality(Slots) = Cardinality(Readable) => Slots = Readable
  BY <1>2, <1>3, FS_Subset
<1>5. Cardinality(Readable) \in Nat
  BY <1>4, FS_CardinalityType
<1> QED BY <1>1, <1>2, <1>4, <1>5 DEF Length

(* push finds its slot readable exactly when the buffer is full.           *)
LEMMA FullTest ==
  ASSUME TypeInv, SegmentInv, pcW \in {"idle", "low", "high", "flag"}
  PROVE  /\ write_index \in Slots
         /\ first[write_index] <=> Length = Size
         /\ Length < Size => write_index = After(head, Length) /\ Offset(write_index) = Length
<1>1. /\ Size \in Nat \ {0} /\ Slots = 0 .. Size - 1 /\ head \in Slots
      /\ write_index \in Slots /\ write_index = tail
  BY Ends DEF TypeInv
<1>2. write_index = After(head, Length) /\ Length \in 0 .. Size
  BY <1>1, LengthIs DEF SegmentInv
<1>3. CASE Length = Size
  <2>1. first[write_index]
    BY <1>1, <1>3, LengthIs DEF Readable
  <2> QED BY <1>1, <1>3, <2>1
<1>4. CASE Length < Size
  <2> DEFINE n == Length
  <2>1. n \in 0 .. Size - 1
    BY <1>1, <1>2, <1>4
  <2>2. Offset(After(head, n)) = n
    <3> HIDE DEF n
    <3> QED BY <1>1, <2>1, OffsetAfter
  <2>3. Offset(write_index) = Length
    BY <1>2, <2>2
  <2>4. ~first[write_index]
    BY <1>1, <1>2, <1>4, <2>3 DEF SegmentInv
  <2> QED BY <1>1, <1>2, <1>4, <2>3, <2>4
<1> QED BY <1>1, <1>2, <1>3, <1>4

-----------------------------------------------------------------------------
(* The first state.                                                        *)

(* An empty buffer.                                                        *)
LEMMA InitBuffer == Init => BufferInv /\ Readable = {} /\ Length = 0
<1> SUFFICES ASSUME Init PROVE BufferInv /\ Readable = {} /\ Length = 0
  OBVIOUS
<1>1. TypeInv
  BY BufferAssumption DEF BufferAssumption, Init, TypeInv, Size, Slots, Halves, Messages, Whole
<1>2. Readable = {} /\ Length = 0
  <2>1. Readable = {}
    BY DEF Init, Readable
  <2> QED BY <2>1, FS_EmptySet DEF Length
<1>3. CountInv
  BY DEF Init, CountInv
<1>4. SegmentInv
  <2>1. Size \in Nat \ {0} /\ Slots = 0 .. Size - 1 /\ head = 0 /\ tail = 0
    BY <1>1, Ends DEF Init
  <2>2. tail = After(head, Length)
    BY <1>2, <2>1 DEF After
  <2>3. ASSUME NEW i \in Slots PROVE ~first[i] /\ ~(Offset(i) < Length)
    BY <1>2, <2>1 DEF Init, Offset
  <2> QED BY <2>2, <2>3 DEF SegmentInv
<1>5. WriterInv /\ ReaderInv
  BY DEF Init, WriterInv, ReaderInv
<1> QED BY <1>1, <1>2, <1>3, <1>4, <1>5 DEF BufferInv

-----------------------------------------------------------------------------
(* What LossyFifo sees of a step.                                          *)

(* What LossyFifo calls aggr and loss.                                     *)
Aggr == aggr_cnt + (IF pcW \in {"increment", "modulo", "count"} THEN 1 ELSE 0)
Loss == loss_cnt + (IF pcW = "loss" THEN 1 ELSE 0)

(* The messages of the readable slots are the queue, in order.             *)
LEMMA BacklogSlots ==
  ASSUME TypeInv, SegmentInv, NEW n \in 1 .. Length
  PROVE  /\ (head + n - 1) % RING_BUFFER_SIZE = After(head, n - 1)
         /\ After(head, n - 1) \in Readable
<1>1. head \in Slots /\ Length \in 0 .. Size /\ Size \in Nat
  BY Ends, LengthIs
<1> DEFINE m == n - 1
<1>2. m \in 0 .. Size /\ m \in 0 .. Size - 1 /\ m < Length /\ head + n - 1 = head + m
  BY <1>1
<1> HIDE DEF m
<1>3. (head + m) % Size = After(head, m) /\ After(head, m) \in Slots
  BY <1>1, <1>2, ModAfter
<1>4. Offset(After(head, m)) = m
  BY <1>1, <1>2, OffsetAfter
<1>5. After(head, m) \in Readable
  BY <1>2, <1>3, <1>4 DEF SegmentInv, Readable
<1> QED BY <1>2, <1>3, <1>5 DEF m, Size

(* A step that moves neither flags nor ends keeps them in order.           *)
LEMMA SegmentFrame ==
  ASSUME SegmentInv, first' = first, head' = head, tail' = tail
  PROVE  SegmentInv'
BY DEF SegmentInv, Offset, Length, Readable

(* A step that changes no readable message, no flag and no end leaves the   *)
(* queue alone.                                                            *)
LEMMA BacklogFrame ==
  ASSUME TypeInv, SegmentInv, first' = first, head' = head,
         \A i \in Readable : second'[i] = second[i]
  PROVE  Backlog' = Backlog
<1>1. Backlog = [n \in 1 .. Length |-> Number(second[(head + n - 1) % RING_BUFFER_SIZE])]
  BY DEF Backlog, Length
<1>2. Backlog' = [n \in 1 .. Length |-> Number(second'[(head + n - 1) % RING_BUFFER_SIZE])]
  BY DEF Backlog, Length, Readable
<1>3. ASSUME NEW n \in 1 .. Length
      PROVE  second'[(head + n - 1) % RING_BUFFER_SIZE] = second[(head + n - 1) % RING_BUFFER_SIZE]
  BY BacklogSlots
<1> QED BY <1>1, <1>2, <1>3

(* LossyFifo does not see a step that leaves the queue, what was taken and  *)
(* the two counts alone.                                                   *)
LEMMA Unseen ==
  ASSUME Backlog' = Backlog, taken' = taken, Aggr' = Aggr, Loss' = Loss
  PROVE  UNCHANGED Fifo!vars
BY DEF Fifo!vars, Aggr, Loss

-----------------------------------------------------------------------------
(* The steps of push.                                                      *)

(* The slot is tested: a full buffer drops the message.                    *)
LEMMA PushTestStep == BufferInv /\ PushTest => BufferInv' /\ [Fifo!Next]_(Fifo!vars)
<1> SUFFICES ASSUME BufferInv, PushTest PROVE BufferInv' /\ [Fifo!Next]_(Fifo!vars)
  OBVIOUS
<1> USE DEF BufferInv
<1>1. /\ pcW = "idle" /\ pushes' = pushes + 1 /\ pushes < MaxPushes
      /\ first' = first /\ second' = second /\ write_index' = write_index
      /\ aggr_cnt' = aggr_cnt /\ loss_cnt' = loss_cnt /\ read_index' = read_index
      /\ pcR' = pcR /\ held' = held /\ taken' = taken
      /\ pcW' = IF first[write_index] THEN "loss" ELSE "low"
  BY DEF PushTest, slots, reader
<1>2. TypeInv'
  <2>1. pushes' \in Messages
    BY <1>1, BufferAssumption DEF TypeInv, Messages, BufferAssumption
  <2> QED BY <1>1, <2>1 DEF TypeInv
<1>3. CountInv'
  BY <1>1 DEF CountInv, TypeInv, Messages
<1>4. head' = head /\ tail' = tail
  BY <1>1 DEF head, tail
<1>5. SegmentInv'
  BY <1>1, <1>4, SegmentFrame
<1>6. WriterInv' /\ ReaderInv'
  BY <1>1 DEF WriterInv, ReaderInv
<1>7. Backlog' = Backlog
  BY <1>1, <1>4, BacklogFrame
<1>8. CASE first[write_index]
  <2>1. Length = Size
    BY <1>1, <1>8, FullTest
  <2>2. Len(Backlog) = Size
    BY <2>1, LengthIs DEF Backlog, Length
  <2>3. Loss' = Loss + 1 /\ Aggr' = Aggr
    BY <1>1, <1>8 DEF Loss, Aggr, TypeInv
  <2>4. Fifo!Drop
    BY <1>1, <1>7, <2>2, <2>3 DEF Fifo!Drop, Size, Aggr, Loss
  <2> QED BY <1>2, <1>3, <1>5, <1>6, <2>4 DEF Fifo!Next
<1>9. CASE ~first[write_index]
  <2>1. Loss' = Loss /\ Aggr' = Aggr
    BY <1>1, <1>9 DEF Loss, Aggr
  <2>2. UNCHANGED Fifo!vars
    BY <1>1, <1>7, <2>1, Unseen
  <2> QED BY <1>2, <1>3, <1>5, <1>6, <2>2
<1> QED BY <1>8, <1>9

(* A dropped message is counted.                                           *)
LEMMA PushLossStep == BufferInv /\ PushLoss => BufferInv' /\ [Fifo!Next]_(Fifo!vars)
<1> SUFFICES ASSUME BufferInv, PushLoss PROVE BufferInv' /\ [Fifo!Next]_(Fifo!vars)
  OBVIOUS
<1> USE DEF BufferInv
<1>1. /\ pcW = "loss" /\ pcW' = "idle" /\ loss_cnt' = loss_cnt + 1
      /\ first' = first /\ second' = second /\ write_index' = write_index
      /\ aggr_cnt' = aggr_cnt /\ pushes' = pushes /\ read_index' = read_index
      /\ pcR' = pcR /\ held' = held /\ taken' = taken
  BY DEF PushLoss, slots, reader
<1>2. TypeInv'
  BY <1>1 DEF TypeInv
<1>3. CountInv'
  BY <1>1 DEF CountInv, TypeInv
<1>4. head' = head /\ tail' = tail
  BY <1>1 DEF head, tail
<1>5. SegmentInv'
  BY <1>1, <1>4, SegmentFrame
<1>6. WriterInv' /\ ReaderInv'
  BY <1>1 DEF WriterInv, ReaderInv
<1>7. Backlog' = Backlog
  BY <1>1, <1>4, BacklogFrame
<1>8. Loss' = Loss /\ Aggr' = Aggr
  BY <1>1 DEF Loss, Aggr, TypeInv
<1>9. UNCHANGED Fifo!vars
  BY <1>1, <1>7, <1>8, Unseen
<1> QED BY <1>2, <1>3, <1>5, <1>6, <1>9

(* What a step of the copying needs: its slot is not readable.             *)
LEMMA WriteSlot ==
  ASSUME BufferInv, pcW \in {"low", "high", "flag"}
  PROVE  /\ write_index \in Slots /\ write_index \notin Readable
         /\ second[write_index] \in Halves /\ pushes \in Messages
         /\ \A i \in Readable : i # write_index
         /\ pcR \in {"low", "high", "flag"} => read_index \in Slots /\ read_index # write_index
<1> USE DEF BufferInv
<1>1. write_index \in Slots
  BY FullTest
<1>2. write_index \notin Readable
  BY DEF WriterInv, Readable
<1>3. pcR \in {"low", "high", "flag"} => read_index \in Slots /\ first[read_index]
  BY Ends DEF TypeInv, ReaderInv
<1> QED BY <1>1, <1>2, <1>3 DEF TypeInv, WriterInv

(* The first half of the message.                                          *)
LEMMA PushLowStep == BufferInv /\ PushLow => BufferInv' /\ [Fifo!Next]_(Fifo!vars)
<1> SUFFICES ASSUME BufferInv, PushLow PROVE BufferInv' /\ [Fifo!Next]_(Fifo!vars)
  OBVIOUS
<1>1. /\ pcW = "low" /\ pcW' = "high" /\ second' = [second EXCEPT ![write_index].lo = pushes]
      /\ first' = first /\ write_index' = write_index
      /\ aggr_cnt' = aggr_cnt /\ loss_cnt' = loss_cnt /\ pushes' = pushes
      /\ read_index' = read_index
      /\ pcR' = pcR /\ held' = held /\ taken' = taken
  BY DEF PushLow, reader
<1>2. /\ write_index \in Slots /\ write_index \notin Readable
      /\ second[write_index] \in Halves /\ pushes \in Messages
      /\ pcR \in {"low", "high", "flag"} => read_index \in Slots /\ read_index # write_index
  BY <1>1, WriteSlot
<1> USE DEF BufferInv
<1>3. /\ second' \in [Slots -> Halves] /\ second'[write_index].lo = pushes
      /\ \A i \in Slots : i # write_index => second'[i] = second[i]
  BY <1>1, <1>2 DEF TypeInv, Halves
<1>4. TypeInv'
  BY <1>1, <1>3 DEF TypeInv
<1>5. CountInv'
  BY <1>1 DEF CountInv
<1>6. head' = head /\ tail' = tail
  BY <1>1 DEF head, tail
<1>7. SegmentInv'
  BY <1>1, <1>6, SegmentFrame
<1>8. WriterInv' /\ ReaderInv'
  BY <1>1, <1>2, <1>3 DEF WriterInv, ReaderInv
<1>9. \A i \in Readable : second'[i] = second[i]
  BY <1>2, <1>3 DEF Readable
<1>10. Backlog' = Backlog
  BY <1>1, <1>6, <1>9, BacklogFrame
<1>11. Loss' = Loss /\ Aggr' = Aggr
  BY <1>1 DEF Loss, Aggr
<1>12. UNCHANGED Fifo!vars
  BY <1>1, <1>10, <1>11, Unseen
<1> QED BY <1>4, <1>5, <1>7, <1>8, <1>12

(* The second half: the message is whole.                                  *)
LEMMA PushHighStep == BufferInv /\ PushHigh => BufferInv' /\ [Fifo!Next]_(Fifo!vars)
<1> SUFFICES ASSUME BufferInv, PushHigh PROVE BufferInv' /\ [Fifo!Next]_(Fifo!vars)
  OBVIOUS
<1>1. /\ pcW = "high" /\ pcW' = "flag" /\ second' = [second EXCEPT ![write_index].hi = pushes]
      /\ first' = first /\ write_index' = write_index
      /\ aggr_cnt' = aggr_cnt /\ loss_cnt' = loss_cnt /\ pushes' = pushes
      /\ read_index' = read_index
      /\ pcR' = pcR /\ held' = held /\ taken' = taken
  BY DEF PushHigh, reader
<1>2. /\ write_index \in Slots /\ write_index \notin Readable
      /\ second[write_index] \in Halves /\ pushes \in Messages
      /\ pcR \in {"low", "high", "flag"} => read_index \in Slots /\ read_index # write_index
  BY <1>1, WriteSlot
<1> USE DEF BufferInv
<1>3. /\ second' \in [Slots -> Halves] /\ second'[write_index] = Whole(pushes)
      /\ \A i \in Slots : i # write_index => second'[i] = second[i]
  BY <1>1, <1>2 DEF TypeInv, WriterInv, Halves, Whole
<1>4. TypeInv'
  BY <1>1, <1>3 DEF TypeInv
<1>5. CountInv'
  BY <1>1 DEF CountInv
<1>6. head' = head /\ tail' = tail
  BY <1>1 DEF head, tail
<1>7. SegmentInv'
  BY <1>1, <1>6, SegmentFrame
<1>8. WriterInv' /\ ReaderInv'
  BY <1>1, <1>2, <1>3 DEF WriterInv, ReaderInv, Whole
<1>9. \A i \in Readable : second'[i] = second[i]
  BY <1>2, <1>3 DEF Readable
<1>10. Backlog' = Backlog
  BY <1>1, <1>6, <1>9, BacklogFrame
<1>11. Loss' = Loss /\ Aggr' = Aggr
  BY <1>1 DEF Loss, Aggr
<1>12. UNCHANGED Fifo!vars
  BY <1>1, <1>10, <1>11, Unseen
<1> QED BY <1>4, <1>5, <1>7, <1>8, <1>12

(* A sequence that goes on from another one by one element is that one with *)
(* the element appended.                                                   *)
LEMMA AppendIs ==
  ASSUME NEW T, NEW s \in Seq(T), NEW t \in Seq(T), NEW x \in T,
         Len(t) = Len(s) + 1, \A n \in 1 .. Len(s) : t[n] = s[n], t[Len(s) + 1] = x
  PROVE  t = Append(s, x)
OBVIOUS

(* A sequence that is another one shifted by one is its tail.              *)
LEMMA TailIs ==
  ASSUME NEW T, NEW s \in Seq(T), NEW t \in Seq(T), Len(s) > 0,
         Len(t) = Len(s) - 1, \A n \in 1 .. Len(t) : t[n] = s[n + 1]
  PROVE  t = Tail(s)
OBVIOUS

(* What LossyFifo calls its queue is one.                                  *)
LEMMA BacklogType ==
  ASSUME TypeInv, SegmentInv
  PROVE  /\ Backlog \in Seq(Int) /\ Len(Backlog) = Length
         /\ \A n \in 1 .. Length : Backlog[n] = Number(second[After(head, n - 1)])
<1>1. Length \in Nat
  BY LengthIs
<1>2. ASSUME NEW n \in 1 .. Length
      PROVE  /\ Number(second[(head + n - 1) % RING_BUFFER_SIZE]) \in Int
             /\ (head + n - 1) % RING_BUFFER_SIZE = After(head, n - 1)
  <2>1. After(head, n - 1) \in Slots /\ (head + n - 1) % RING_BUFFER_SIZE = After(head, n - 1)
    BY BacklogSlots DEF Readable
  <2>2. second[After(head, n - 1)] \in Halves
    BY <2>1 DEF TypeInv
  <2> QED BY <2>1, <2>2, BufferAssumption DEF Number, Halves, Messages, BufferAssumption
<1>3. Backlog = [n \in 1 .. Length |-> Number(second[(head + n - 1) % RING_BUFFER_SIZE])]
  BY DEF Backlog, Length
<1> QED BY <1>1, <1>2, <1>3

(* The flag: the message is accepted.                                      *)
LEMMA PushFlagStep == BufferInv /\ PushFlag => BufferInv' /\ [Fifo!Next]_(Fifo!vars)
<1> SUFFICES ASSUME BufferInv, PushFlag PROVE BufferInv' /\ [Fifo!Next]_(Fifo!vars)
  OBVIOUS
<1>1. /\ pcW = "flag" /\ pcW' = "increment" /\ first' = [first EXCEPT ![write_index] = TRUE]
      /\ second' = second /\ write_index' = write_index
      /\ aggr_cnt' = aggr_cnt /\ loss_cnt' = loss_cnt /\ pushes' = pushes
      /\ read_index' = read_index
      /\ pcR' = pcR /\ held' = held /\ taken' = taken
  BY DEF PushFlag, reader
<1>2. /\ write_index \in Slots /\ write_index \notin Readable
      /\ pushes \in Messages
  BY <1>1, WriteSlot
<1> USE DEF BufferInv
<1>3. /\ Length \in 0 .. Size /\ Length < Size
      /\ write_index = After(head, Length) /\ Offset(write_index) = Length
      /\ Size \in Nat /\ head \in Slots /\ Slots = 0 .. Size - 1
  <2>1. Length \in 0 .. Size /\ Length # Size
    BY <1>1, <1>2, FullTest, LengthIs DEF Readable
  <2>2. Size \in Nat /\ head \in Slots /\ Slots = 0 .. Size - 1
    BY Ends
  <2>3. Length < Size
    BY <2>1, <2>2
  <2> QED BY <1>1, <2>1, <2>2, <2>3, FullTest
<1>4. Length' = Length + 1
  <2>1. Readable' = Readable \union {write_index}
    BY <1>1, <1>2 DEF Readable, TypeInv
  <2>2. Cardinality(Readable \union {write_index}) = Cardinality(Readable) + 1
    BY <1>2, LengthIs, FS_AddElement
  <2> QED BY <2>1, <2>2 DEF Length
<1>5. TypeInv'
  BY <1>1, <1>2 DEF TypeInv
<1>6. CountInv'
  BY <1>1 DEF CountInv
<1>7. head' = head
  BY <1>1 DEF head
<1>8. SegmentInv'
  <2>1. ASSUME NEW i \in Slots PROVE first'[i] <=> Offset(i) < Length + 1
    <3>1. Offset(i) \in 0 .. Size - 1 /\ After(head, Offset(i)) = i
      BY <1>3, AfterOffset
    <3>2. first'[i] <=> first[i] \/ i = write_index
      BY <1>1, <1>2 DEF TypeInv
    <3>3. first[i] <=> Offset(i) < Length
      BY DEF SegmentInv
    <3>4. i = write_index <=> Offset(i) = Length
      BY <1>3, <3>1
    <3> QED BY <1>3, <3>1, <3>2, <3>3, <3>4
  <2>2. tail' = After(head, Length + 1)
    <3>1. tail' = (write_index + 1) % Size
      BY <1>1 DEF tail
    <3>2. (write_index + 1) % Size = After(write_index, 1)
      <4>1. 1 \in 0 .. Size
        BY <1>3
      <4> QED BY <1>2, <4>1, ModAfter
    <3>3. After(write_index, 1) = After(head, Length + 1)
      BY <1>3 DEF After
    <3> QED BY <3>1, <3>2, <3>3
  <2>3. \A i \in Slots : Offset(i)' = Offset(i)
    BY <1>7 DEF Offset
  <2> QED BY <1>4, <1>7, <2>1, <2>2, <2>3 DEF SegmentInv
<1>9. WriterInv' /\ ReaderInv'
  <2>1. pcR \in {"low", "high", "flag"} => first'[read_index]
    BY <1>1, <1>2 DEF ReaderInv, TypeInv
  <2> QED BY <1>1, <2>1 DEF WriterInv, ReaderInv
<1>10. Backlog' = Append(Backlog, pushes)
  <2>1. Backlog \in Seq(Int) /\ Len(Backlog) = Length
    BY BacklogType
  <2>2. Backlog' = [n \in 1 .. Length + 1 |-> Number(second[(head + n - 1) % RING_BUFFER_SIZE])]
    BY <1>1, <1>4, <1>7 DEF Backlog, Length
  <2>3. Number(second[(head + (Length + 1) - 1) % RING_BUFFER_SIZE]) = pushes
    <3>1. head + (Length + 1) - 1 = head + Length
      BY <1>3
    <3>2. (head + Length) % Size = write_index
      BY <1>3, ModAfter
    <3>3. second[write_index] = Whole(pushes)
      BY <1>1 DEF WriterInv
    <3> QED BY <3>1, <3>2, <3>3 DEF Size, Number, Whole
  <2>4. \A n \in 1 .. Length : Backlog'[n] = Backlog[n]
    <3>1. Backlog = [n \in 1 .. Length |-> Number(second[(head + n - 1) % RING_BUFFER_SIZE])]
      BY DEF Backlog, Length
    <3>2. \A n \in 1 .. Length : n \in 1 .. Length + 1
      BY <1>3
    <3> HIDE DEF Length, Size
    <3> QED BY <2>2, <3>1, <3>2
  <2>5. Backlog' \in Seq(Int) /\ Len(Backlog') = Length + 1 /\ Backlog'[Length + 1] = pushes
    <3>1. Backlog'[Length + 1] = pushes
      BY <1>3, <2>2, <2>3
    <3>2. pushes \in Int
      BY <1>2, BufferAssumption DEF Messages, BufferAssumption
    <3>3. \A n \in 1 .. Length + 1 : Backlog'[n] \in Int
      BY <1>3, <2>1, <2>4, <3>1, <3>2
    <3> QED BY <1>3, <2>2, <3>1, <3>3
  <2>6. pushes \in Int
    BY <1>2, BufferAssumption DEF Messages, BufferAssumption
  <2> DEFINE b == Backlog
  <2> HIDE DEF b
  <2>7. b' = Append(b, pushes)
    BY <2>1, <2>4, <2>5, <2>6, AppendIs DEF b
  <2> QED BY <2>7 DEF b
<1>11. Fifo!Accept
  <2>1. Loss' = Loss /\ Aggr' = Aggr + 1 /\ pushes = Aggr + Loss + 1
    BY <1>1 DEF Loss, Aggr, CountInv, TypeInv
  <2>2. Len(Backlog) < RING_BUFFER_SIZE
    BY <1>3, BacklogType DEF Size
  <2> QED BY <1>1, <1>10, <2>1, <2>2 DEF Fifo!Accept, Aggr, Loss
<1> QED BY <1>5, <1>6, <1>8, <1>9, <1>11 DEF Fifo!Next

(* The index moves on, in two steps.                                       *)
LEMMA PushIncrementStep == BufferInv /\ PushIncrement => BufferInv' /\ [Fifo!Next]_(Fifo!vars)
<1> SUFFICES ASSUME BufferInv, PushIncrement PROVE BufferInv' /\ [Fifo!Next]_(Fifo!vars)
  OBVIOUS
<1> USE DEF BufferInv
<1>1. /\ pcW = "increment" /\ pcW' = "modulo" /\ write_index' = write_index + 1
      /\ first' = first /\ second' = second
      /\ aggr_cnt' = aggr_cnt /\ loss_cnt' = loss_cnt /\ pushes' = pushes
      /\ read_index' = read_index
      /\ pcR' = pcR /\ held' = held /\ taken' = taken
  BY DEF PushIncrement, slots, reader
<1>2. TypeInv'
  BY <1>1, Ends DEF TypeInv
<1>3. CountInv'
  BY <1>1 DEF CountInv
<1>4. head' = head
  BY <1>1 DEF head
<1>5. tail' = tail
  <2>1. write_index \in Int /\ write_index + 1 + 0 = write_index + 1
    BY <1>1 DEF TypeInv
  <2> QED BY <1>1, <2>1 DEF tail
<1>6. SegmentInv'
  BY <1>1, <1>4, <1>5, SegmentFrame
<1>7. WriterInv' /\ ReaderInv'
  BY <1>1 DEF WriterInv, ReaderInv
<1>8. Backlog' = Backlog
  BY <1>1, <1>4, BacklogFrame
<1>9. Loss' = Loss /\ Aggr' = Aggr
  BY <1>1 DEF Loss, Aggr
<1>10. UNCHANGED Fifo!vars
  BY <1>1, <1>8, <1>9, Unseen
<1> QED BY <1>2, <1>3, <1>6, <1>7, <1>10

(* ... and comes back to the first slot after the last.                    *)
LEMMA PushModuloStep == BufferInv /\ PushModulo => BufferInv' /\ [Fifo!Next]_(Fifo!vars)
<1> SUFFICES ASSUME BufferInv, PushModulo PROVE BufferInv' /\ [Fifo!Next]_(Fifo!vars)
  OBVIOUS
<1> USE DEF BufferInv
<1>1. /\ pcW = "modulo" /\ pcW' = "count" /\ write_index' = write_index % RING_BUFFER_SIZE
      /\ first' = first /\ second' = second
      /\ aggr_cnt' = aggr_cnt /\ loss_cnt' = loss_cnt /\ pushes' = pushes
      /\ read_index' = read_index
      /\ pcR' = pcR /\ held' = held /\ taken' = taken
  BY DEF PushModulo, slots, reader
<1>2. tail \in Slots /\ write_index' = tail /\ Slots = 0 .. Size - 1 /\ Size \in Nat
  <2>1. write_index \in Int
    BY DEF TypeInv
  <2>2. write_index + 0 = write_index
    BY <2>1
  <2> QED BY <1>1, <2>2, Ends DEF tail, Size
<1>3. TypeInv'
  BY <1>1, <1>2 DEF TypeInv
<1>4. CountInv'
  BY <1>1 DEF CountInv
<1>5. head' = head
  BY <1>1 DEF head
<1>6. tail' = tail
  <2>1. tail' = (write_index' + 0) % Size
    BY <1>1 DEF tail
  <2>2. write_index' \in 0 .. 2 * Size - 1 /\ write_index' < Size /\ write_index' + 0 = write_index'
    BY <1>2
  <2> DEFINE w == write_index'
  <2> HIDE DEF w
  <2>3. w % Size = w
    BY <2>2, ModTwice DEF w
  <2> QED BY <1>2, <2>1, <2>2, <2>3 DEF w
<1>7. SegmentInv'
  BY <1>1, <1>5, <1>6, SegmentFrame
<1>8. WriterInv' /\ ReaderInv'
  BY <1>1 DEF WriterInv, ReaderInv
<1>9. Backlog' = Backlog
  BY <1>1, <1>5, BacklogFrame
<1>10. Loss' = Loss /\ Aggr' = Aggr
  BY <1>1 DEF Loss, Aggr
<1>11. UNCHANGED Fifo!vars
  BY <1>1, <1>9, <1>10, Unseen
<1> QED BY <1>3, <1>4, <1>7, <1>8, <1>11

(* An accepted message is counted.                                         *)
LEMMA PushCountStep == BufferInv /\ PushCount => BufferInv' /\ [Fifo!Next]_(Fifo!vars)
<1> SUFFICES ASSUME BufferInv, PushCount PROVE BufferInv' /\ [Fifo!Next]_(Fifo!vars)
  OBVIOUS
<1> USE DEF BufferInv
<1>1. /\ pcW = "count" /\ pcW' = "idle" /\ aggr_cnt' = aggr_cnt + 1
      /\ first' = first /\ second' = second /\ write_index' = write_index
      /\ loss_cnt' = loss_cnt /\ pushes' = pushes
      /\ read_index' = read_index
      /\ pcR' = pcR /\ held' = held /\ taken' = taken
  BY DEF PushCount, slots, reader
<1>2. TypeInv'
  BY <1>1 DEF TypeInv
<1>3. CountInv'
  BY <1>1 DEF CountInv, TypeInv
<1>4. head' = head /\ tail' = tail
  BY <1>1 DEF head, tail
<1>5. SegmentInv'
  BY <1>1, <1>4, SegmentFrame
<1>6. WriterInv' /\ ReaderInv'
  BY <1>1 DEF WriterInv, ReaderInv
<1>7. Backlog' = Backlog
  BY <1>1, <1>4, BacklogFrame
<1>8. Loss' = Loss /\ Aggr' = Aggr
  BY <1>1 DEF Loss, Aggr, TypeInv
<1>9. UNCHANGED Fifo!vars
  BY <1>1, <1>7, <1>8, Unseen
<1> QED BY <1>2, <1>3, <1>5, <1>6, <1>9

-----------------------------------------------------------------------------
(* The steps of the reader.                                                *)

(* A step that touches neither the slots nor an index.                     *)
LEMMA ReadStep ==
  ASSUME BufferInv, UNCHANGED <<slots, writer, read_index, taken>>, head' = head,
         ReaderInv', held' \in Halves,
         pcR' \in {"front", "low", "high", "flag", "increment", "modulo"},
         pcR' # "modulo" => read_index < Size
  PROVE  BufferInv' /\ [Fifo!Next]_(Fifo!vars)
<1> USE DEF BufferInv
<1>1. /\ first' = first /\ second' = second /\ write_index' = write_index
      /\ aggr_cnt' = aggr_cnt /\ loss_cnt' = loss_cnt /\ pushes' = pushes /\ pcW' = pcW
      /\ read_index' = read_index /\ taken' = taken
  BY DEF slots, writer
<1>2. TypeInv' /\ CountInv' /\ WriterInv'
  BY <1>1 DEF TypeInv, CountInv, WriterInv
<1>3. tail' = tail
  BY <1>1 DEF tail
<1>4. SegmentInv'
  BY <1>1, <1>3, SegmentFrame
<1>5. Backlog' = Backlog
  BY <1>1, BacklogFrame
<1>6. Loss' = Loss /\ Aggr' = Aggr
  BY <1>1 DEF Loss, Aggr
<1>7. UNCHANGED Fifo!vars
  BY <1>1, <1>5, <1>6, Unseen
<1> QED BY <1>2, <1>4, <1>7

(* front finds a message.                                                  *)
LEMMA FrontStep == BufferInv /\ Front => BufferInv' /\ [Fifo!Next]_(Fifo!vars)
<1> SUFFICES ASSUME BufferInv, Front PROVE BufferInv' /\ [Fifo!Next]_(Fifo!vars)
  OBVIOUS
<1>1. /\ pcR = "front" /\ pcR' = IF first[read_index] THEN "low" ELSE "front"
      /\ UNCHANGED <<slots, writer, read_index, held, taken>>
      /\ first' = first /\ second' = second
  BY DEF Front, slots
<1>2. head' = head
  BY <1>1 DEF head
<1>3. ReaderInv'
  BY <1>1 DEF ReaderInv
<1> QED BY <1>1, <1>2, <1>3, ReadStep DEF BufferInv, TypeInv

(* The reader copies the message, a half at a time.                        *)
LEMMA CopyLowStep == BufferInv /\ CopyLow => BufferInv' /\ [Fifo!Next]_(Fifo!vars)
<1> SUFFICES ASSUME BufferInv, CopyLow PROVE BufferInv' /\ [Fifo!Next]_(Fifo!vars)
  OBVIOUS
<1>1. /\ pcR = "low" /\ pcR' = "high" /\ held' = [held EXCEPT !.lo = second[read_index].lo]
      /\ UNCHANGED <<slots, writer, read_index, taken>>
      /\ first' = first /\ second' = second
  BY DEF CopyLow, slots
<1>2. head' = head
  BY <1>1 DEF head
<1>3. read_index \in Slots /\ second[read_index] \in Halves /\ held \in Halves
      /\ first[read_index] /\ read_index < Size
  BY <1>1, Ends DEF BufferInv, TypeInv, ReaderInv
<1>4. held' \in Halves /\ held'.lo = second[read_index].lo
  BY <1>1, <1>3 DEF Halves
<1>5. ReaderInv'
  BY <1>1, <1>3, <1>4 DEF ReaderInv
<1> QED BY <1>1, <1>2, <1>3, <1>4, <1>5, ReadStep

(* ... and the second half is of the same message as the first.            *)
LEMMA CopyHighStep == BufferInv /\ CopyHigh => BufferInv' /\ [Fifo!Next]_(Fifo!vars)
<1> SUFFICES ASSUME BufferInv, CopyHigh PROVE BufferInv' /\ [Fifo!Next]_(Fifo!vars)
  OBVIOUS
<1>1. /\ pcR = "high" /\ pcR' = "flag" /\ held' = [held EXCEPT !.hi = second[read_index].hi]
      /\ UNCHANGED <<slots, writer, read_index, taken>>
      /\ first' = first /\ second' = second
  BY DEF CopyHigh, slots
<1>2. head' = head
  BY <1>1 DEF head
<1>3. read_index \in Slots /\ second[read_index] \in Halves /\ held \in Halves
      /\ first[read_index] /\ read_index < Size /\ held.lo = second[read_index].lo
  BY <1>1, Ends DEF BufferInv, TypeInv, ReaderInv
<1>4. held' \in Halves /\ held' = second[read_index]
  BY <1>1, <1>3 DEF Halves
<1>5. ReaderInv'
  BY <1>1, <1>3, <1>4 DEF ReaderInv
<1> QED BY <1>1, <1>2, <1>3, <1>4, <1>5, ReadStep

(* pop gives the slot back: the message is taken.                          *)
LEMMA PopFlagStep == BufferInv /\ PopFlag => BufferInv' /\ [Fifo!Next]_(Fifo!vars)
<1> SUFFICES ASSUME BufferInv, PopFlag PROVE BufferInv' /\ [Fifo!Next]_(Fifo!vars)
  OBVIOUS
<1>1. /\ pcR = "flag" /\ pcR' = "increment" /\ first' = [first EXCEPT ![read_index] = FALSE]
      /\ taken' = held
      /\ second' = second /\ write_index' = write_index /\ pcW' = pcW
      /\ aggr_cnt' = aggr_cnt /\ loss_cnt' = loss_cnt /\ pushes' = pushes
      /\ read_index' = read_index /\ held' = held
  BY DEF PopFlag, writer
<1> USE DEF BufferInv
<1>2. /\ Size \in Nat \ {0} /\ Slots = 0 .. Size - 1
      /\ read_index \in Slots /\ head = read_index
  BY <1>1, Ends DEF TypeInv
<1>3. read_index \in Readable /\ held = second[read_index]
  BY <1>1, <1>2 DEF ReaderInv, Readable
<1>4. Length' = Length - 1 /\ Length \in 1 .. Size
  <2>1. Readable' = Readable \ {read_index}
    BY <1>1, <1>2 DEF Readable, TypeInv
  <2>2. Cardinality(Readable \ {read_index}) = Cardinality(Readable) - 1
    BY <1>3, LengthIs, FS_RemoveElement
  <2>3. Length # 0
    BY <1>3, LengthIs, FS_EmptySet DEF Length
  <2> QED BY <1>2, <2>1, <2>2, <2>3, LengthIs DEF Length
<1>5. head' = After(head, 1) /\ head' \in Slots
  <2>1. head' = (read_index + 1) % Size
    BY <1>1 DEF head, Size
  <2>2. 1 \in 0 .. Size
    BY <1>2
  <2> QED BY <1>2, <2>1, <2>2, ModAfter
<1>6. TypeInv' /\ CountInv'
  BY <1>1, <1>2 DEF TypeInv, CountInv
<1>7. tail' = tail
  BY <1>1 DEF tail
<1>8. SegmentInv'
  <2> DEFINE Offset2(i) == IF i >= head' THEN i - head' ELSE i - head' + Size
  <2>1. ASSUME NEW i \in Slots PROVE first'[i] <=> Offset2(i) < Length - 1
    <3>1. first'[i] <=> first[i] /\ i # read_index
      BY <1>1, <1>2 DEF TypeInv
    <3>2. first[i] <=> Offset(i) < Length
      BY DEF SegmentInv
    <3>3. Offset2(i) = IF i = head THEN Size - 1 ELSE Offset(i) - 1
      BY <1>2, <1>5 DEF After, Offset
    <3>4. Offset(i) \in 0 .. Size - 1
      BY <1>2, AfterOffset
    <3>5. Length \in Int /\ Length <= Size
      BY <1>2, <1>4
    <3> HIDE DEF Offset2
    <3> QED BY <1>2, <3>1, <3>2, <3>3, <3>4, <3>5
  <2>2. tail' = IF head' + (Length - 1) < Size THEN head' + (Length - 1) ELSE head' + (Length - 1) - Size
    <3>1. tail' = After(head, Length)
      BY <1>7 DEF SegmentInv
    <3>2. Length \in Int /\ Length >= 1 /\ Length <= Size
      BY <1>2, <1>4
    <3> QED BY <1>2, <1>5, <3>1, <3>2 DEF After
  <2> QED BY <1>4, <2>1, <2>2 DEF SegmentInv, Offset, After, Size, Slots
<1>9. WriterInv'
  <2>1. pcW \in {"low", "high", "flag"} => ~first'[write_index]
    <3> SUFFICES ASSUME pcW \in {"low", "high", "flag"} PROVE ~first'[write_index]
      OBVIOUS
    <3>1. write_index \in Slots /\ ~first[write_index]
      BY FullTest DEF WriterInv
    <3> QED BY <1>1, <1>2, <3>1 DEF TypeInv
  <2> QED BY <1>1, <2>1 DEF WriterInv
<1>10. ReaderInv'
  BY <1>1 DEF ReaderInv
<1>11. /\ Backlog \in Seq(Int) /\ Len(Backlog) = Length
       /\ \A n \in 1 .. Length : Backlog[n] = Number(second[After(head, n - 1)])
  BY BacklogType
<1>12. /\ Backlog' \in Seq(Int) /\ Len(Backlog') = Length'
       /\ \A n \in 1 .. Length' : Backlog'[n] = Number(second'[After(head, n - 1)'])
  <2>1. \A n \in 1 .. Length' : (head' + n - 1) % RING_BUFFER_SIZE = After(head, n - 1)'
    <3> SUFFICES ASSUME NEW n \in 1 .. Length'
                 PROVE  (head' + n - 1) % RING_BUFFER_SIZE = After(head, n - 1)'
      OBVIOUS
    <3> DEFINE m == n - 1
               h == head'
    <3>1. m \in 0 .. Size /\ h + n - 1 = h + m /\ h \in Slots
      BY <1>2, <1>4, <1>5
    <3>2. After(head, m)' = IF h + m < Size THEN h + m ELSE h + m - Size
      BY DEF After, Size
    <3> HIDE DEF h, m
    <3>3. (h + m) % Size = After(h, m)
      BY <3>1, ModAfter
    <3>4. (h + n - 1) % RING_BUFFER_SIZE = (h + m) % Size
      BY <3>1 DEF Size
    <3>5. After(h, m) = IF h + m < Size THEN h + m ELSE h + m - Size
      BY DEF After
    <3> QED BY <3>2, <3>3, <3>4, <3>5 DEF h, m
  <2>2. Backlog' = [n \in 1 .. Length' |-> Number(second'[(head' + n - 1) % RING_BUFFER_SIZE])]
    BY DEF Backlog, Length
  <2>3. ASSUME NEW n \in 1 .. Length'
        PROVE  Number(second'[(head' + n - 1) % RING_BUFFER_SIZE]) \in Int
    <3>1. (head' + n - 1) % RING_BUFFER_SIZE \in Slots
      <4> DEFINE x == head' + n - 1
      <4>1. x \in Int
        BY <1>2, <1>4, <1>5
      <4> HIDE DEF x
      <4>2. x % Size \in 0 .. Size - 1
        BY <1>2, <4>1
      <4> QED BY <1>2, <4>2 DEF x, Size
    <3>2. second'[(head' + n - 1) % RING_BUFFER_SIZE] \in Halves
      BY <1>1, <3>1 DEF TypeInv
    <3> QED BY <3>2, BufferAssumption DEF Number, Halves, Messages, BufferAssumption
  <2>4. Length' \in Nat
    BY <1>2, <1>4
  <2> QED BY <2>1, <2>2, <2>3, <2>4
<1>13. Backlog' = Tail(Backlog)
  <2>1. ASSUME NEW n \in 1 .. Length - 1 PROVE Backlog'[n] = Backlog[n + 1]
    <3>1. After(head, n - 1)' = After(head, n + 1 - 1)
      <4>1. After(head, n - 1)' = IF head' + (n - 1) < Size THEN head' + (n - 1) ELSE head' + (n - 1) - Size
        BY DEF After, Size
      <4>2. n + 1 - 1 = n /\ n < Size /\ n \in Int
        BY <1>2, <1>4
      <4> QED BY <1>2, <1>5, <4>1, <4>2 DEF After
    <3>2. n \in 1 .. Length' /\ n + 1 \in 1 .. Length
      BY <1>4
    <3>3. Backlog'[n] = Number(second'[After(head, n - 1)'])
      BY <1>12, <3>2
    <3>4. Backlog[n + 1] = Number(second[After(head, n + 1 - 1)])
      BY <1>11, <3>2
    <3> QED BY <1>1, <3>1, <3>3, <3>4
  <2>2. Len(Backlog) > 0 /\ Len(Backlog') = Len(Backlog) - 1
    BY <1>4, <1>11, <1>12
  <2>3. \A n \in 1 .. Len(Backlog') : Backlog'[n] = Backlog[n + 1]
    BY <1>4, <1>12, <2>1
  <2> DEFINE b == Backlog
  <2> HIDE DEF b
  <2>4. b' = Tail(b)
    BY <1>11, <1>12, <2>2, <2>3, TailIs DEF b
  <2> QED BY <2>4 DEF b
<1>14. Fifo!Take
  <2>1. Number(taken)' = Number(second[After(head, 0)])
    <3>1. After(head, 0) = read_index
      BY <1>2 DEF After
    <3> QED BY <1>1, <1>3, <3>1 DEF Number
  <2>2. Backlog # <<>> /\ Head(Backlog) = Backlog[1]
    BY <1>4, <1>11
  <2>3. Backlog[1] = Number(second[After(head, 0)])
    <3>1. 1 \in 1 .. Length /\ 1 - 1 = 0
      BY <1>4
    <3> QED BY <1>11, <3>1
  <2>4. Loss' = Loss /\ Aggr' = Aggr
    BY <1>1 DEF Loss, Aggr
  <2> QED BY <1>13, <2>1, <2>2, <2>3, <2>4 DEF Fifo!Take, Loss, Aggr
<1> QED BY <1>6, <1>8, <1>9, <1>10, <1>14 DEF Fifo!Next

(* The reader's index moves on, in two steps.                              *)
LEMMA PopIncrementStep == BufferInv /\ PopIncrement => BufferInv' /\ [Fifo!Next]_(Fifo!vars)
<1> SUFFICES ASSUME BufferInv, PopIncrement PROVE BufferInv' /\ [Fifo!Next]_(Fifo!vars)
  OBVIOUS
<1> USE DEF BufferInv
<1>1. /\ pcR = "increment" /\ pcR' = "modulo" /\ read_index' = read_index + 1
      /\ first' = first /\ second' = second /\ write_index' = write_index /\ pcW' = pcW
      /\ aggr_cnt' = aggr_cnt /\ loss_cnt' = loss_cnt /\ pushes' = pushes
      /\ held' = held /\ taken' = taken
  BY DEF PopIncrement, slots, writer
<1>2. TypeInv' /\ CountInv'
  BY <1>1, Ends DEF TypeInv, CountInv
<1>3. tail' = tail
  BY <1>1 DEF tail
<1>4. head' = head
  <2>1. read_index \in Int /\ read_index + 1 + 0 = read_index + 1
    BY <1>1 DEF TypeInv
  <2> QED BY <1>1, <2>1 DEF head
<1>5. SegmentInv'
  BY <1>1, <1>3, <1>4, SegmentFrame
<1>6. WriterInv' /\ ReaderInv'
  BY <1>1 DEF WriterInv, ReaderInv
<1>7. Backlog' = Backlog
  BY <1>1, <1>4, BacklogFrame
<1>8. Loss' = Loss /\ Aggr' = Aggr
  BY <1>1 DEF Loss, Aggr
<1>9. UNCHANGED Fifo!vars
  BY <1>1, <1>7, <1>8, Unseen
<1> QED BY <1>2, <1>5, <1>6, <1>9

(* ... and comes back to the first slot after the last.                    *)
LEMMA PopModuloStep == BufferInv /\ PopModulo => BufferInv' /\ [Fifo!Next]_(Fifo!vars)
<1> SUFFICES ASSUME BufferInv, PopModulo PROVE BufferInv' /\ [Fifo!Next]_(Fifo!vars)
  OBVIOUS
<1> USE DEF BufferInv
<1>1. /\ pcR = "modulo" /\ pcR' = "front" /\ read_index' = read_index % RING_BUFFER_SIZE
      /\ first' = first /\ second' = second /\ write_index' = write_index /\ pcW' = pcW
      /\ aggr_cnt' = aggr_cnt /\ loss_cnt' = loss_cnt /\ pushes' = pushes
      /\ held' = held /\ taken' = taken
  BY DEF PopModulo, slots, writer
<1>2. head \in Slots /\ read_index' = head /\ Slots = 0 .. Size - 1 /\ Size \in Nat
  <2>1. read_index \in Int
    BY DEF TypeInv
  <2>2. read_index + 0 = read_index
    BY <2>1
  <2> QED BY <1>1, <2>2, Ends DEF head, Size
<1>3. TypeInv' /\ CountInv'
  BY <1>1, <1>2 DEF TypeInv, CountInv
<1>4. tail' = tail
  BY <1>1 DEF tail
<1>5. head' = head
  <2>1. head' = (read_index' + 0) % Size
    BY <1>1 DEF head, Size
  <2>2. read_index' \in 0 .. 2 * Size - 1 /\ read_index' < Size /\ read_index' + 0 = read_index'
    BY <1>2
  <2> DEFINE r == read_index'
  <2> HIDE DEF r
  <2>3. r % Size = r
    BY <2>2, ModTwice DEF r
  <2> QED BY <1>2, <2>1, <2>2, <2>3 DEF r
<1>6. SegmentInv'
  BY <1>1, <1>4, <1>5, SegmentFrame
<1>7. WriterInv' /\ ReaderInv'
  BY <1>1 DEF WriterInv, ReaderInv
<1>8. Backlog' = Backlog
  BY <1>1, <1>5, BacklogFrame
<1>9. Loss' = Loss /\ Aggr' = Aggr
  BY <1>1 DEF Loss, Aggr
<1>10. UNCHANGED Fifo!vars
  BY <1>1, <1>8, <1>9, Unseen
<1> QED BY <1>3, <1>6, <1>7, <1>10

-----------------------------------------------------------------------------
(* A step of the buffer is a step of LossyFifo, or one it does not see.    *)
LEMMA BufferStep == BufferInv /\ [Next]_vars => BufferInv' /\ [Fifo!Next]_(Fifo!vars)
<1> SUFFICES ASSUME BufferInv, [Next]_vars PROVE BufferInv' /\ [Fifo!Next]_(Fifo!vars)
  OBVIOUS
<1>1. CASE push
  BY <1>1, PushTestStep, PushLossStep, PushLowStep, PushHighStep, PushFlagStep,
     PushIncrementStep, PushModuloStep, PushCountStep DEF push
<1>2. CASE Reader
  BY <1>2, FrontStep, CopyLowStep, CopyHighStep, PopFlagStep, PopIncrementStep,
     PopModuloStep DEF Reader, pop
<1>3. CASE UNCHANGED vars
  <2>1. /\ UNCHANGED <<slots, writer, read_index, taken>> /\ pcR' = pcR /\ held' = held
        /\ first' = first /\ second' = second
    BY <1>3 DEF vars, reader, slots
  <2>2. head' = head
    BY <2>1 DEF head
  <2>3. ReaderInv'
    BY <2>1 DEF ReaderInv, BufferInv
  <2> QED BY <2>1, <2>2, <2>3, ReadStep DEF BufferInv, TypeInv
<1> QED BY <1>1, <1>2, <1>3 DEF Next

(* Between two steps of either thread the readable slots are one stretch of *)
(* the ring from the reader's index to the writer's, push writes outside it *)
(* and the reader reads inside it (RingBuffer.hpp:51-98).                  *)
THEOREM BufferInvariant == Spec => []BufferInv
<1>1. Init => BufferInv
  BY InitBuffer
<1>2. BufferInv /\ [Next]_vars => BufferInv'
  BY BufferStep
<1> QED BY <1>1, <1>2, PTL DEF Spec

(* The buffer is the lossy queue its header describes (RingBuffer.hpp:6-8): *)
(* with nothing but the flags between the threads, every message accepted   *)
(* is taken once, in order and as it was pushed, and every call is counted  *)
(* as accepted or as lost.                                                 *)
THEOREM BufferImplements == Spec => Implements
<1>1. Init => Fifo!Init
  <2> SUFFICES ASSUME Init PROVE Fifo!Init
    OBVIOUS
  <2>1. Backlog = <<>>
    <3>1. Length = 0
      BY InitBuffer
    <3> QED BY <3>1 DEF Backlog, Length
  <2> QED BY <2>1 DEF Init, Fifo!Init, Number, Whole
<1>2. BufferInv /\ [Next]_vars => [Fifo!Next]_(Fifo!vars)
  BY BufferStep
<1> QED BY <1>1, <1>2, BufferInvariant, PTL DEF Spec, Implements, Fifo!Spec
=============================================================================
