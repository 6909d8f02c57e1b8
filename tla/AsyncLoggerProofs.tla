------------------------- MODULE AsyncLoggerProofs --------------------------
(***************************************************************************)
(* The log of the program loses no call, overruns nothing and implements   *)
(* LogFifo, for every number of threads, loggers, messages and faults.     *)
(***************************************************************************)
EXTENDS AsyncLogger, FiniteSetTheorems, TLAPS

(* main has queued its message to the worker.                              *)
Stopped == pcP["main"] \in {"notify", "join", "over"}

(* What was queued so far, and how much of it the worker has taken.        *)
Total    == Len(accepted) + (IF Stopped THEN 1 ELSE 0)
Entry(n) == IF n <= Len(accepted) THEN accepted[n] ELSE Terminate
Taken    == settled + (IF pcW \in {"notify", "sink", "write", "gone"} THEN 1 ELSE 0)

(* The slot k slots after slot i.                                          *)
After(i, k) == IF i + k <= MaxItems THEN i + k ELSE i + k - (MaxItems + 1)

(* main goes last, and the worker after all messages.                      *)
PhaseInv ==
  /\ pcP["main"] # "done"
  /\ \A t \in Threads : pcP[t] \notin {"join", "over"}
  /\ pcP["main"] # "work" => \A t \in Threads : pcP[t] = "done"
  /\ pcP["main"] = "over" => pcW = "gone"
  /\ pcW = "gone" => Stopped /\ settled = Len(accepted)

(* What a poster is about to queue.                                        *)
ItemInv ==
  /\ \A t \in Threads : pcP[t] \in {"lock", "asleep"} =>
       item[t] \in Message /\ item[t].by = t /\ item[t].n = posts[t]
  /\ pcP["main"] \in {"lock", "asleep"} => item["main"] = Terminate

(* Nothing of what was queued is missing between the files and the queue,   *)
(* and the slots hold the rest in order.                                   *)
QueueInv ==
  /\ Taken + size = Total
  /\ \A k \in 1 .. size : v_[After(head_, k - 1)] = Entry(Taken + k)

(* What the worker holds.                                                  *)
WorkerInv ==
  /\ pcW = "notify" => incoming = Entry(Taken)
  /\ pcW \in {"sink", "write"} => settled < Len(accepted) /\ incoming = accepted[settled + 1]
  /\ pcW = "flush" => settled > 0 /\ incoming = accepted[settled]

(* Only a fault closes a file, and the next message that is due opens it.  *)
FileInv ==
  /\ \A l \in Loggers : ~isOpen[l] => ~rotated[l] /\ faults > 0
  /\ pcW = "write" => isOpen[file]

(* Without a fault a file has all its messages the worker is through with,  *)
(* and the disk those that were flushed.                                   *)
Of(l, n) == Cardinality({i \in 1 .. n : accepted[i].to = l})
KeptInv ==
  /\ faults = 0 => \A l \in Loggers : Len(kept[l]) = Of(l, settled)
  /\ OnlyQueueIsLost

LogInv ==
  /\ LTypeOK /\ PhaseInv /\ ItemInv /\ QueueInv /\ WorkerInv
  /\ FileInv /\ SilentOnlyOverMidnight /\ KeptInv /\ NoLostCall

-----------------------------------------------------------------------------
(* Arithmetic of the slots of circular_q.                                  *)

(* The constants, and the two kinds of posters.                            *)
LEMMA Constants ==
  /\ MaxItems \in Nat \ {0} /\ MaxPosts \in Nat /\ MaxFaults \in Nat
  /\ Slots = 0 .. MaxItems /\ max_items_ = MaxItems + 1
  /\ IsFiniteSet(Posters) /\ "main" \in Posters /\ Threads \subseteq Posters
  /\ "main" \notin Threads /\ \A p \in Posters : p \in Threads \/ p = "main"
<1>1. IsFiniteSet(Threads \union {"main"})
  BY LoggerAssumption, FS_AddElement DEF LoggerAssumption
<1> QED BY <1>1, LoggerAssumption DEF LoggerAssumption, Slots, max_items_, Posters

(* A slot is its own remainder, and the number of slots has none.          *)
LEMMA ModSmall ==
  ASSUME NEW n \in Nat \ {0}, NEW x \in 0 .. n - 1
  PROVE  x % n = x /\ n % n = 0
OBVIOUS

(* The `%` of circular_q is a test for the last slot.                      *)
LEMMA SuccIs ==
  ASSUME NEW i \in Slots
  PROVE  Succ(i) = (IF i = MaxItems THEN 0 ELSE i + 1) /\ Succ(i) \in Slots
<1> DEFINE n == max_items_
           x == i + 1
<1>1. n \in Nat \ {0} /\ n = MaxItems + 1 /\ Slots = 0 .. MaxItems /\ MaxItems \in Nat
  BY Constants
<1>2. Succ(i) = x % n
  BY DEF Succ
<1> HIDE DEF n
<1>3. CASE i = MaxItems
  <2>1. x = n
    BY <1>1, <1>3
  <2> HIDE DEF x
  <2> QED BY <1>1, <1>2, <1>3, <2>1, ModSmall
<1>4. CASE i # MaxItems
  <2>1. x \in 0 .. n - 1
    BY <1>1, <1>4
  <2>2. x % n = x
    <3> HIDE DEF x
    <3> QED BY <1>1, <2>1, ModSmall
  <2> QED BY <1>1, <1>2, <1>4, <2>2
<1> QED BY <1>3, <1>4

(* The mark of a full queue keeps one slot free.                           *)
LEMMA SizeIs ==
  ASSUME head_ \in Slots, tail_ \in Slots
  PROVE  /\ size \in 0 .. MaxItems
         /\ full <=> size = MaxItems
         /\ empty <=> size = 0
         /\ tail_ = After(head_, size)
<1>1. Succ(tail_) = (IF tail_ = MaxItems THEN 0 ELSE tail_ + 1)
  BY SuccIs
<1> QED BY <1>1, Constants DEF size, full, empty, After

-----------------------------------------------------------------------------
(* How many posters are at a place.                                        *)

At(pcs, x) == {p \in Posters : pcs[p] = x}

(* NoLostCall speaks of three of them.                                     *)
LEMMA CallsAre ==
  NoLostCall <=>
    /\ At(pcP, "asleep") # {} =>
         MaxItems - size <= Cardinality(At(pcP, "lock")) + (IF pcW = "notify" THEN 1 ELSE 0)
    /\ pcW = "asleep" => size <= Cardinality(At(pcP, "notify"))
BY DEF NoLostCall, At, Asleep

(* They are numbers.                                                       *)
LEMMA AtType ==
  ASSUME NEW pcs, NEW x
  PROVE  IsFiniteSet(At(pcs, x)) /\ Cardinality(At(pcs, x)) \in Nat
<1>1. At(pcs, x) \subseteq Posters
  BY DEF At
<1>2. IsFiniteSet(At(pcs, x))
  BY <1>1, Constants, FS_Subset
<1> QED BY <1>2, FS_CardinalityType

(* One poster goes somewhere.                                              *)
LEMMA AtEnter ==
  ASSUME NEW T, NEW pcs \in [Posters -> T], NEW p \in Posters, NEW x, pcs[p] # x
  PROVE  Cardinality(At([pcs EXCEPT ![p] = x], x)) = Cardinality(At(pcs, x)) + 1
<1>1. At([pcs EXCEPT ![p] = x], x) = At(pcs, x) \union {p} /\ p \notin At(pcs, x)
  BY DEF At
<1>2. Cardinality(At(pcs, x) \union {p}) = Cardinality(At(pcs, x)) + 1
  BY <1>1, AtType, FS_AddElement
<1> QED BY <1>1, <1>2

(* One poster goes elsewhere.                                              *)
LEMMA AtLeave ==
  ASSUME NEW T, NEW pcs \in [Posters -> T], NEW p \in Posters, NEW x, NEW y,
         pcs[p] = x, y # x
  PROVE  Cardinality(At([pcs EXCEPT ![p] = y], x)) = Cardinality(At(pcs, x)) - 1
<1>1. At([pcs EXCEPT ![p] = y], x) = At(pcs, x) \ {p} /\ p \in At(pcs, x)
  BY DEF At
<1>2. Cardinality(At(pcs, x) \ {p}) = Cardinality(At(pcs, x)) - 1
  BY <1>1, AtType, FS_RemoveElement
<1> QED BY <1>1, <1>2

(* One poster goes from a third place to a fourth.                         *)
LEMMA AtOther ==
  ASSUME NEW T, NEW pcs \in [Posters -> T], NEW p \in Posters, NEW x, NEW y,
         pcs[p] # x, y # x
  PROVE  At([pcs EXCEPT ![p] = y], x) = At(pcs, x)
BY DEF At

(* A step that wakes and sends to sleep nobody takes no call away either.   *)
LEMMA CallsFrame ==
  ASSUME NoLostCall, size \in Int, size' = size, pcW' = pcW,
         At(pcP', "asleep") \subseteq At(pcP, "asleep"),
         Cardinality(At(pcP', "lock")) >= Cardinality(At(pcP, "lock")),
         Cardinality(At(pcP', "notify")) >= Cardinality(At(pcP, "notify"))
  PROVE  NoLostCall'
<1>1. NoLostCall' <=>
        /\ At(pcP', "asleep") # {} =>
             MaxItems - size <= Cardinality(At(pcP', "lock")) + (IF pcW = "notify" THEN 1 ELSE 0)
        /\ pcW = "asleep" => size <= Cardinality(At(pcP', "notify"))
  BY DEF NoLostCall, At, Asleep
<1> DEFINE l1 == Cardinality(At(pcP, "lock"))
           l2 == Cardinality(At(pcP', "lock"))
           n1 == Cardinality(At(pcP, "notify"))
           n2 == Cardinality(At(pcP', "notify"))
<1>2. l1 \in Nat /\ l2 \in Nat /\ n1 \in Nat /\ n2 \in Nat
  BY AtType
<1>3. l2 >= l1 /\ n2 >= n1
  OBVIOUS
<1>4. /\ At(pcP, "asleep") # {} => MaxItems - size <= l1 + (IF pcW = "notify" THEN 1 ELSE 0)
      /\ pcW = "asleep" => size <= n1
  BY CallsAre
<1> HIDE DEF l1, l2, n1, n2
<1>5. /\ At(pcP', "asleep") # {} => MaxItems - size <= l2 + (IF pcW = "notify" THEN 1 ELSE 0)
      /\ pcW = "asleep" => size <= n2
  BY <1>2, <1>3, <1>4, Constants
<1> QED BY <1>1, <1>5 DEF l2, n2

-----------------------------------------------------------------------------
(* What LogFifo sees of a step.                                            *)

(* What LogFifo calls posted.                                              *)
Posted == [t \in Threads |-> posts[t] - (IF pcP[t] \in {"lock", "asleep"} THEN 1 ELSE 0)]

(* LogFifo does not see a step that leaves alone what was queued and what   *)
(* is in the files.                                                        *)
LEMMA Unseen ==
  ASSUME accepted' = accepted, settled' = settled, kept' = kept, Posted' = Posted,
         (pcP["main"] = "over")' <=> (pcP["main"] = "over")
  PROVE  UNCHANGED Fifo!vars
BY DEF Fifo!vars, Posted

(* A step that changes neither the queue nor a file.                       *)
LEMMA Frame ==
  ASSUME LogInv,
         v_' = v_, head_' = head_, tail_' = tail_, incoming' = incoming,
         isOpen' = isOpen, rotated' = rotated, kept' = kept, saved' = saved,
         faults' = faults, accepted' = accepted, settled' = settled, silent' = silent,
         Stopped' = Stopped,
         pcW' = pcW \/ (pcW \in {"lock", "asleep"} /\ pcW' \in {"lock", "asleep"})
  PROVE  /\ QueueInv' /\ WorkerInv' /\ FileInv' /\ SilentOnlyOverMidnight' /\ KeptInv'
         /\ size' = size /\ size \in 0 .. MaxItems
<1> USE DEF LogInv
<1>1. size' = size
  BY DEF size
<1>2. Total' = Total /\ Taken' = Taken
  BY DEF Total, Taken
<1>3. QueueInv'
  BY <1>1, <1>2 DEF QueueInv, Entry, After
<1>4. WorkerInv'
  BY <1>2 DEF WorkerInv, Entry
<1>5. FileInv' /\ SilentOnlyOverMidnight'
  BY DEF FileInv, SilentOnlyOverMidnight, file
<1>6. KeptInv'
  BY DEF KeptInv, OnlyQueueIsLost, Of
<1>7. size \in 0 .. MaxItems
  BY SizeIs DEF LTypeOK
<1> QED BY <1>1, <1>3, <1>4, <1>5, <1>6, <1>7

(* A poster that neither gives up the mutex nor owes a call goes on.       *)
LEMMA MoveCalls ==
  ASSUME LogInv, NEW p \in Posters, NEW y, pcP' = [pcP EXCEPT ![p] = y],
         pcP[p] \notin {"lock", "notify"}, y # "asleep",
         size \in 0 .. MaxItems, size' = size, pcW' = pcW
  PROVE  NoLostCall'
<1> DEFINE T == {"work", "lock", "asleep", "notify", "done", "join", "over"}
<1>1. pcP \in [Posters -> T]
  BY DEF LogInv, LTypeOK
<1> HIDE DEF T
<1>2. At(pcP', "asleep") \subseteq At(pcP, "asleep")
  BY <1>1 DEF At
<1>3. Cardinality(At(pcP', "lock")) >= Cardinality(At(pcP, "lock"))
  <2>1. CASE y = "lock"
    <3>1. Cardinality(At(pcP', "lock")) = Cardinality(At(pcP, "lock")) + 1
      BY <1>1, <2>1, AtEnter
    <3> QED BY <3>1, AtType
  <2>2. CASE y # "lock"
    <3>1. At(pcP', "lock") = At(pcP, "lock")
      BY <1>1, <2>2, AtOther
    <3>2. Cardinality(At(pcP, "lock")) \in Nat
      BY AtType
    <3> QED BY <3>1, <3>2
  <2> QED BY <2>1, <2>2
<1>4. Cardinality(At(pcP', "notify")) >= Cardinality(At(pcP, "notify"))
  <2>1. CASE y = "notify"
    <3>1. Cardinality(At(pcP', "notify")) = Cardinality(At(pcP, "notify")) + 1
      BY <1>1, <2>1, AtEnter
    <3> QED BY <3>1, AtType
  <2>2. CASE y # "notify"
    <3>1. At(pcP', "notify") = At(pcP, "notify")
      BY <1>1, <2>2, AtOther
    <3>2. Cardinality(At(pcP, "notify")) \in Nat
      BY AtType
    <3> QED BY <3>1, <3>2
  <2> QED BY <2>1, <2>2
<1>5. size \in Int /\ NoLostCall
  BY DEF LogInv
<1> QED BY <1>2, <1>3, <1>4, <1>5, CallsFrame

-----------------------------------------------------------------------------
(* The steps of the posters.                                               *)

(* A thread has a message.                                                 *)
LEMMA LogStep ==
  ASSUME LogInv, NEW t \in Threads, NEW l \in Uses[t], Log(t, l)
  PROVE  LogInv' /\ [Fifo!Next]_(Fifo!vars)
<1> USE DEF LogInv
<1>1. /\ pcP[t] = "work" /\ posts[t] < MaxPosts
      /\ posts' = [posts EXCEPT ![t] = @ + 1]
      /\ item' = [item EXCEPT ![t] = [by |-> t, n |-> posts[t] + 1, to |-> l, late |-> midnight]]
      /\ pcP' = [pcP EXCEPT ![t] = "lock"]
      /\ v_' = v_ /\ head_' = head_ /\ tail_' = tail_ /\ overrun_counter_' = overrun_counter_
      /\ pcW' = pcW /\ incoming' = incoming /\ isOpen' = isOpen /\ rotated' = rotated
      /\ kept' = kept /\ saved' = saved /\ midnight' = midnight /\ died' = died
      /\ faults' = faults /\ accepted' = accepted /\ settled' = settled /\ silent' = silent
  BY DEF Log, queue, worker, files, world
<1>2. t \in Posters /\ t # "main" /\ "main" \in Posters /\ l \in Loggers
  BY Constants, LoggerAssumption DEF LoggerAssumption
<1>3. /\ item'[t] = [by |-> t, n |-> posts[t] + 1, to |-> l, late |-> midnight]
      /\ item'[t] \in Message /\ posts[t] + 1 \in 0 .. MaxPosts
      /\ pcP'["main"] = pcP["main"]
  BY <1>1, <1>2, Constants DEF LTypeOK, Message
<1>4. LTypeOK'
  BY <1>1, <1>2, <1>3 DEF LTypeOK
<1>5. PhaseInv'
  BY <1>1, <1>2, <1>3 DEF PhaseInv, Stopped, LTypeOK
<1>6. ItemInv'
  BY <1>1, <1>2, <1>3 DEF ItemInv, LTypeOK
<1>7. Stopped' = Stopped
  BY <1>3 DEF Stopped
<1>8. /\ QueueInv' /\ WorkerInv' /\ FileInv' /\ SilentOnlyOverMidnight' /\ KeptInv'
      /\ size' = size /\ size \in 0 .. MaxItems
  BY <1>1, <1>7, Frame
<1>9. NoLostCall'
  BY <1>1, <1>2, <1>8, MoveCalls
<1>10. Posted' = Posted
  <2>1. posts'[t] - 1 = posts[t] /\ posts[t] - 0 = posts[t]
    BY <1>1, Constants DEF LTypeOK
  <2>2. ASSUME NEW u \in Threads
        PROVE  posts'[u] - (IF pcP'[u] \in {"lock", "asleep"} THEN 1 ELSE 0)
                 = posts[u] - (IF pcP[u] \in {"lock", "asleep"} THEN 1 ELSE 0)
    <3>1. CASE u = t
      BY <1>1, <1>2, <2>1, <3>1 DEF LTypeOK
    <3>2. CASE u # t
      BY <1>1, <1>2, <3>2, Constants DEF LTypeOK
    <3> QED BY <3>1, <3>2
  <2> QED BY <2>2 DEF Posted
<1>11. UNCHANGED Fifo!vars
  BY <1>1, <1>3, <1>10, Unseen
<1> QED BY <1>4, <1>5, <1>6, <1>8, <1>9, <1>11

(* A poster moves, with or without the message it is to queue.             *)
LEMMA MoveStep ==
  ASSUME LogInv, NEW p \in Posters, NEW y, pcP' = [pcP EXCEPT ![p] = y],
         UNCHANGED <<queue, item, posts, incoming, files, world, accepted, settled, silent>>,
         y \in {"work", "lock", "asleep", "notify", "done", "join", "over"},
         pcP[p] \in {"lock", "asleep"} <=> y \in {"lock", "asleep"},
         p = "main" => (pcP[p] \in {"notify", "join", "over"} <=> y \in {"notify", "join", "over"}),
         pcW' = pcW \/ (pcW = "asleep" /\ pcW' = "lock")
  PROVE  /\ LTypeOK' /\ ItemInv'
         /\ QueueInv' /\ WorkerInv' /\ FileInv' /\ SilentOnlyOverMidnight' /\ KeptInv'
         /\ size' = size /\ size \in 0 .. MaxItems
         /\ Posted' = Posted /\ Stopped' = Stopped
         /\ kept' = kept /\ accepted' = accepted /\ settled' = settled
<1> USE DEF LogInv
<1>1. /\ v_' = v_ /\ head_' = head_ /\ tail_' = tail_ /\ overrun_counter_' = overrun_counter_
      /\ item' = item /\ posts' = posts /\ incoming' = incoming
      /\ isOpen' = isOpen /\ rotated' = rotated /\ kept' = kept /\ saved' = saved
      /\ midnight' = midnight /\ died' = died /\ faults' = faults
      /\ accepted' = accepted /\ settled' = settled /\ silent' = silent
  BY DEF queue, files, world
<1>2. \A q \in Posters : pcP'[q] = IF q = p THEN y ELSE pcP[q]
  BY DEF LTypeOK
<1>3. LTypeOK'
  BY <1>1 DEF LTypeOK
<1>4. ItemInv'
  BY <1>1, <1>2, Constants DEF ItemInv
<1>5. Stopped' = Stopped
  BY <1>2, Constants DEF Stopped
<1>6. /\ QueueInv' /\ WorkerInv' /\ FileInv' /\ SilentOnlyOverMidnight' /\ KeptInv'
      /\ size' = size /\ size \in 0 .. MaxItems
  BY <1>1, <1>5, Frame
<1>7. Posted' = Posted
  <2>1. ASSUME NEW t \in Threads
        PROVE  pcP'[t] \in {"lock", "asleep"} <=> pcP[t] \in {"lock", "asleep"}
    BY <1>2, Constants
  <2> QED BY <1>1, <2>1 DEF Posted
<1> QED BY <1>1, <1>3, <1>4, <1>5, <1>6, <1>7

(* A thread ends.                                                          *)
LEMMA ThreadEndsStep ==
  ASSUME LogInv, NEW t \in Threads, ThreadEnds(t)
  PROVE  LogInv' /\ [Fifo!Next]_(Fifo!vars)
<1>1. /\ pcP[t] = "work" /\ pcP' = [pcP EXCEPT ![t] = "done"] /\ pcW' = pcW
      /\ UNCHANGED <<queue, item, posts, incoming, files, world, accepted, settled, silent>>
  BY DEF ThreadEnds, worker
<1>2. t \in Posters /\ t # "main" /\ "main" \in Posters
  BY Constants
<1>3. /\ LTypeOK' /\ ItemInv'
      /\ QueueInv' /\ WorkerInv' /\ FileInv' /\ SilentOnlyOverMidnight' /\ KeptInv'
      /\ size' = size /\ size \in 0 .. MaxItems
      /\ Posted' = Posted /\ Stopped' = Stopped
      /\ kept' = kept /\ accepted' = accepted /\ settled' = settled
  BY <1>1, <1>2, MoveStep
<1>4. pcP'["main"] = pcP["main"]
  BY <1>1, <1>2 DEF LogInv, LTypeOK
<1>5. PhaseInv'
  BY <1>1, <1>2, <1>3, <1>4 DEF PhaseInv, LogInv, LTypeOK
<1>6. NoLostCall'
  BY <1>1, <1>2, <1>3, MoveCalls
<1>7. UNCHANGED Fifo!vars
  BY <1>3, <1>4, Unseen
<1> QED BY <1>3, <1>5, <1>6, <1>7 DEF LogInv

(* main has a message to the worker.                                       *)
LEMMA ShutdownStep ==
  ASSUME LogInv, Shutdown
  PROVE  LogInv' /\ [Fifo!Next]_(Fifo!vars)
<1> USE DEF LogInv
<1>1. /\ pcP["main"] = "work" /\ \A t \in Threads : pcP[t] = "done"
      /\ item' = [item EXCEPT !["main"] = Terminate]
      /\ pcP' = [pcP EXCEPT !["main"] = "lock"]
      /\ v_' = v_ /\ head_' = head_ /\ tail_' = tail_ /\ overrun_counter_' = overrun_counter_
      /\ posts' = posts /\ pcW' = pcW /\ incoming' = incoming
      /\ isOpen' = isOpen /\ rotated' = rotated /\ kept' = kept /\ saved' = saved
      /\ midnight' = midnight /\ died' = died /\ faults' = faults
      /\ accepted' = accepted /\ settled' = settled /\ silent' = silent
  BY DEF Shutdown, queue, worker, files, world
<1>2. "main" \in Posters
  BY Constants
<1>3. /\ pcP'["main"] = "lock" /\ item'["main"] = Terminate
      /\ \A t \in Threads : pcP'[t] = pcP[t] /\ item'[t] = item[t]
  BY <1>1, Constants DEF LTypeOK
<1>4. LTypeOK'
  BY <1>1, <1>2 DEF LTypeOK
<1>5. PhaseInv'
  BY <1>1, <1>3 DEF PhaseInv, Stopped
<1>6. ItemInv'
  BY <1>1, <1>3 DEF ItemInv
<1>7. Stopped' = Stopped
  BY <1>1, <1>3 DEF Stopped
<1>8. /\ QueueInv' /\ WorkerInv' /\ FileInv' /\ SilentOnlyOverMidnight' /\ KeptInv'
      /\ size' = size /\ size \in 0 .. MaxItems
  BY <1>1, <1>7, Frame
<1>9. NoLostCall'
  BY <1>1, <1>2, <1>8, MoveCalls
<1>10. Posted' = Posted
  BY <1>1, <1>3 DEF Posted
<1>11. UNCHANGED Fifo!vars
  BY <1>1, <1>3, <1>10, Unseen
<1> QED BY <1>4, <1>5, <1>6, <1>8, <1>9, <1>11

(* The queue is full: the poster sleeps over no room.                      *)
LEMMA WaitStep ==
  ASSUME LogInv, NEW p \in Posters, Wait(p)
  PROVE  LogInv' /\ [Fifo!Next]_(Fifo!vars)
<1>1. /\ pcP[p] = "lock" /\ full /\ pcP' = [pcP EXCEPT ![p] = "asleep"] /\ pcW' = pcW
      /\ UNCHANGED <<queue, item, posts, incoming, files, world, accepted, settled, silent>>
  BY DEF Wait, worker
<1>2. /\ LTypeOK' /\ ItemInv'
      /\ QueueInv' /\ WorkerInv' /\ FileInv' /\ SilentOnlyOverMidnight' /\ KeptInv'
      /\ size' = size /\ size \in 0 .. MaxItems
      /\ Posted' = Posted /\ Stopped' = Stopped
      /\ kept' = kept /\ accepted' = accepted /\ settled' = settled
  BY <1>1, MoveStep
<1>3. /\ pcP'["main"] # "over" /\ pcP["main"] # "over"
      /\ (pcP'["main"] \in {"lock", "asleep"} <=> pcP["main"] \in {"lock", "asleep"})
      /\ \A q \in Posters : q # p => pcP'[q] = pcP[q]
      /\ pcP'[p] = "asleep"
  BY <1>1, Constants DEF LogInv, LTypeOK, PhaseInv
<1>4. PhaseInv'
  <2>1. pcP'["main"] # "done" /\ \A t \in Threads : pcP'[t] \notin {"join", "over"}
    BY <1>1, <1>3, Constants DEF LogInv, PhaseInv
  <2>2. pcP'["main"] # "work" => \A t \in Threads : pcP'[t] = "done"
    BY <1>1, <1>3, Constants DEF LogInv, PhaseInv
  <2> QED BY <1>1, <1>2, <1>3, <2>1, <2>2 DEF LogInv, PhaseInv
<1>5. NoLostCall'
  <2>1. size = MaxItems
    BY <1>1, SizeIs DEF LogInv, LTypeOK
  <2>2. At(pcP', "notify") = At(pcP, "notify")
    BY <1>1, <1>3 DEF At
  <2>3. Cardinality(At(pcP', "lock")) \in Nat
    BY AtType
  <2>4. pcW = "asleep" => size <= Cardinality(At(pcP, "notify"))
    BY CallsAre DEF LogInv
  <2>5. NoLostCall' <=>
          /\ At(pcP', "asleep") # {} =>
               MaxItems - size' <= Cardinality(At(pcP', "lock")) + (IF pcW' = "notify" THEN 1 ELSE 0)
          /\ pcW' = "asleep" => size' <= Cardinality(At(pcP', "notify"))
    BY DEF NoLostCall, At, Asleep
  <2>6. MaxItems - size' = 0
    BY <1>2, <2>1, Constants
  <2> DEFINE l == Cardinality(At(pcP', "lock"))
  <2> HIDE DEF l
  <2>7. 0 <= l + (IF pcW' = "notify" THEN 1 ELSE 0)
    BY <2>3 DEF l
  <2> QED BY <1>1, <1>2, <2>2, <2>4, <2>5, <2>6, <2>7 DEF l
<1>6. UNCHANGED Fifo!vars
  BY <1>2, <1>3, Unseen
<1> QED BY <1>2, <1>4, <1>5, <1>6 DEF LogInv

(* A wait returns with no call.                                            *)
LEMMA WakePosterStep ==
  ASSUME LogInv, NEW p \in Posters, WakePoster(p)
  PROVE  LogInv' /\ [Fifo!Next]_(Fifo!vars)
<1>1. /\ pcP[p] = "asleep" /\ pcP' = [pcP EXCEPT ![p] = "lock"] /\ pcW' = pcW
      /\ UNCHANGED <<queue, item, posts, incoming, files, world, accepted, settled, silent>>
  BY DEF WakePoster, worker
<1>2. /\ LTypeOK' /\ ItemInv'
      /\ QueueInv' /\ WorkerInv' /\ FileInv' /\ SilentOnlyOverMidnight' /\ KeptInv'
      /\ size' = size /\ size \in 0 .. MaxItems
      /\ Posted' = Posted /\ Stopped' = Stopped
      /\ kept' = kept /\ accepted' = accepted /\ settled' = settled
  BY <1>1, MoveStep
<1>3. /\ \A q \in Posters : q # p => pcP'[q] = pcP[q]
      /\ pcP'[p] = "lock"
  BY <1>1 DEF LogInv, LTypeOK
<1>4. PhaseInv'
  <2>1. pcP'["main"] # "done" /\ \A t \in Threads : pcP'[t] \notin {"join", "over"}
    BY <1>1, <1>3, Constants DEF LogInv, PhaseInv
  <2>2. pcP'["main"] # "work" => \A t \in Threads : pcP'[t] = "done"
    BY <1>1, <1>3, Constants DEF LogInv, PhaseInv
  <2>3. pcP'["main"] = "over" => pcW' = "gone"
    BY <1>1, <1>3, Constants DEF LogInv, PhaseInv
  <2> QED BY <1>1, <1>2, <2>1, <2>2, <2>3 DEF LogInv, PhaseInv
<1>5. NoLostCall'
  BY <1>1, <1>2, MoveCalls
<1>6. UNCHANGED Fifo!vars
  BY <1>1, <1>2, <1>3, Unseen
<1> QED BY <1>2, <1>4, <1>5, <1>6 DEF LogInv

(* The call for the worker, when the message is in the queue.              *)
LEMMA NotifyPushStep ==
  ASSUME LogInv, NEW p \in Posters, NotifyPush(p)
  PROVE  LogInv' /\ [Fifo!Next]_(Fifo!vars)
<1> DEFINE y == IF p = "main" THEN "join" ELSE "work"
<1>1. /\ pcP[p] = "notify" /\ pcP' = [pcP EXCEPT ![p] = y]
      /\ pcW' = IF pcW = "asleep" THEN "lock" ELSE pcW
      /\ UNCHANGED <<queue, item, posts, incoming, files, world, accepted, settled, silent>>
  BY DEF NotifyPush
<1>2. /\ LTypeOK' /\ ItemInv'
      /\ QueueInv' /\ WorkerInv' /\ FileInv' /\ SilentOnlyOverMidnight' /\ KeptInv'
      /\ size' = size /\ size \in 0 .. MaxItems
      /\ Posted' = Posted /\ Stopped' = Stopped
      /\ kept' = kept /\ accepted' = accepted /\ settled' = settled
  BY <1>1, MoveStep
<1>3. /\ \A q \in Posters : q # p => pcP'[q] = pcP[q]
      /\ pcP'[p] = y
  BY <1>1 DEF LogInv, LTypeOK
<1>4. PhaseInv'
  <2>1. pcP'["main"] # "done" /\ \A t \in Threads : pcP'[t] \notin {"join", "over"}
    BY <1>1, <1>3, Constants DEF LogInv, PhaseInv
  <2>2. pcP'["main"] # "work" => \A t \in Threads : pcP'[t] = "done"
    BY <1>1, <1>3, Constants DEF LogInv, PhaseInv
  <2>3. pcP'["main"] = "over" => pcW' = "gone"
    BY <1>1, <1>3, Constants DEF LogInv, PhaseInv
  <2> QED BY <1>1, <1>2, <2>1, <2>2, <2>3 DEF LogInv, PhaseInv
<1>5. NoLostCall'
  <2>1. At(pcP', "lock") = At(pcP, "lock") /\ At(pcP', "asleep") = At(pcP, "asleep")
    BY <1>1, <1>3 DEF At
  <2>2. /\ At(pcP, "asleep") # {} =>
             MaxItems - size <= Cardinality(At(pcP, "lock")) + (IF pcW = "notify" THEN 1 ELSE 0)
        /\ pcW' # "asleep" /\ (pcW' = "notify" <=> pcW = "notify")
    BY <1>1, CallsAre DEF LogInv
  <2>3. NoLostCall' <=>
          /\ At(pcP', "asleep") # {} =>
               MaxItems - size' <= Cardinality(At(pcP', "lock")) + (IF pcW' = "notify" THEN 1 ELSE 0)
          /\ pcW' = "asleep" => size' <= Cardinality(At(pcP', "notify"))
    BY DEF NoLostCall, At, Asleep
  <2> QED BY <1>2, <2>1, <2>2, <2>3
<1>6. (pcP["main"] = "over")' <=> (pcP["main"] = "over")
  BY <1>1, <1>3, Constants
<1>7. UNCHANGED Fifo!vars
  BY <1>2, <1>6, Unseen
<1> QED BY <1>2, <1>4, <1>5, <1>7 DEF LogInv

(* The worker is gone, and with it every message.                          *)
LEMMA JoinStep ==
  ASSUME LogInv, Join
  PROVE  LogInv' /\ [Fifo!Next]_(Fifo!vars)
<1>1. /\ pcP["main"] = "join" /\ pcW = "gone"
      /\ pcP' = [pcP EXCEPT !["main"] = "over"] /\ pcW' = pcW
      /\ UNCHANGED <<queue, item, posts, incoming, files, world, accepted, settled, silent>>
  BY DEF Join, worker
<1>2. "main" \in Posters
  BY Constants
<1>3. /\ LTypeOK' /\ ItemInv'
      /\ QueueInv' /\ WorkerInv' /\ FileInv' /\ SilentOnlyOverMidnight' /\ KeptInv'
      /\ size' = size /\ size \in 0 .. MaxItems
      /\ Posted' = Posted /\ Stopped' = Stopped
      /\ kept' = kept /\ accepted' = accepted /\ settled' = settled
  BY <1>1, <1>2, MoveStep
<1>4. pcP'["main"] = "over" /\ \A t \in Threads : pcP'[t] = pcP[t]
  BY <1>1, Constants DEF LogInv, LTypeOK
<1>5. PhaseInv'
  BY <1>1, <1>3, <1>4 DEF PhaseInv, LogInv
<1>6. NoLostCall'
  BY <1>1, <1>2, <1>3, MoveCalls
<1>7. Fifo!Close
  BY <1>1, <1>3, <1>4 DEF Fifo!Close, LogInv, PhaseInv, Posted
<1> QED BY <1>3, <1>5, <1>6, <1>7 DEF LogInv, Fifo!Next

(* What was queued before stays where it was.                              *)
LEMMA AppendKeeps ==
  ASSUME NEW s \in Seq(Message), NEW m \in Message
  PROVE  /\ Append(s, m) \in Seq(Message) /\ Len(Append(s, m)) = Len(s) + 1
         /\ \A n \in 1 .. Len(s) : Append(s, m)[n] = s[n]
         /\ Append(s, m)[Len(s) + 1] = m
OBVIOUS

(* There is room: the message enters the queue.                            *)
LEMMA EnqueueStep ==
  ASSUME LogInv, NEW p \in Posters, Enqueue(p)
  PROVE  LogInv' /\ [Fifo!Next]_(Fifo!vars)
<1> USE DEF LogInv
<1>1. /\ head_ \in Slots /\ tail_ \in Slots /\ Slots = 0 .. MaxItems /\ MaxItems \in Nat \ {0}
      /\ Succ(tail_) = (IF tail_ = MaxItems THEN 0 ELSE tail_ + 1)
      /\ Succ(tail_) \in Slots
  BY SuccIs, Constants DEF LTypeOK
<1>2. /\ pcP[p] = "lock" /\ Succ(tail_) # head_
      /\ v_' = [v_ EXCEPT ![tail_] = item[p]] /\ tail_' = Succ(tail_) /\ head_' = head_
      /\ overrun_counter_' = overrun_counter_
      /\ accepted' = IF item[p] = Terminate THEN accepted ELSE Append(accepted, item[p])
      /\ pcP' = [pcP EXCEPT ![p] = "notify"]
      /\ item' = item /\ posts' = posts /\ pcW' = pcW /\ incoming' = incoming
      /\ isOpen' = isOpen /\ rotated' = rotated /\ kept' = kept /\ saved' = saved
      /\ midnight' = midnight /\ died' = died /\ faults' = faults
      /\ settled' = settled /\ silent' = silent
  BY DEF Enqueue, Push, push_back, full, worker, files, world
<1>3. /\ size \in 0 .. MaxItems /\ size < MaxItems /\ size' = size + 1
      /\ tail_ = After(head_, size)
  <2>1. size \in 0 .. MaxItems /\ size # MaxItems /\ tail_ = After(head_, size)
    BY <1>1, <1>2, SizeIs DEF full
  <2>2. size' = size + 1
    BY <1>1, <1>2 DEF size, max_items_
  <2> QED BY <1>1, <2>1, <2>2
<1>4. /\ \A q \in Posters : q # p => pcP'[q] = pcP[q]
      /\ pcP'[p] = "notify"
  BY <1>2 DEF LTypeOK
<1>5. ~Stopped /\ pcW # "gone" /\ pcP["main"] \in {"work", "lock"}
  <2>1. pcP["main"] = "work" \/ p = "main"
    BY <1>2, Constants DEF PhaseInv
  <2> QED BY <1>2, <2>1 DEF Stopped, PhaseInv
<1>6. /\ accepted \in Seq(Message) /\ Len(accepted) \in Nat /\ settled \in 0 .. Len(accepted)
      /\ Total = Len(accepted) /\ Taken \in Nat /\ Taken + size = Len(accepted)
  <2>1. accepted \in Seq(Message) /\ Len(accepted) \in Nat /\ settled \in 0 .. Len(accepted)
    BY DEF LTypeOK
  <2>2. Total = Len(accepted) /\ Taken \in Nat
    BY <1>5, <2>1 DEF Total, Taken
  <2> QED BY <2>1, <2>2 DEF QueueInv
<1>7. /\ accepted' \in Seq(Message)
      /\ \A n \in 1 .. Len(accepted) : accepted'[n] = accepted[n]
      /\ Len(accepted') >= Len(accepted) /\ Len(accepted') \in Nat
      /\ Total' = Len(accepted) + 1
      /\ p = "main" => item[p] = Terminate /\ accepted' = accepted
      /\ p # "main" => /\ item[p] \in Message /\ item[p].by = p /\ item[p].n = posts[p]
                       /\ p \in Threads
                       /\ accepted' = Append(accepted, item[p])
                       /\ Len(accepted') = Len(accepted) + 1
                       /\ accepted'[Len(accepted) + 1] = item[p]
  <2>1. CASE p = "main"
    <3>1. accepted' = accepted /\ item[p] = Terminate
      BY <1>2, <2>1 DEF ItemInv
    <3>2. Stopped'
      BY <1>4, <2>1 DEF Stopped
    <3>3. Total' = Len(accepted) + 1
      BY <3>1, <3>2 DEF Total
    <3> QED BY <1>6, <2>1, <3>1, <3>3
  <2>2. CASE p # "main"
    <3>1. p \in Threads /\ item[p] \in Message /\ item[p].by = p /\ item[p].n = posts[p]
      BY <1>2, <2>2, Constants DEF ItemInv
    <3>2. item[p] # Terminate
      BY <2>2, <3>1 DEF Terminate
    <3>3. accepted' = Append(accepted, item[p])
      BY <1>2, <3>2
    <3>4. ~Stopped'
      BY <1>4, <1>5, <2>2, Constants DEF Stopped
    <3>5. /\ accepted' \in Seq(Message) /\ Len(accepted') = Len(accepted) + 1
          /\ \A n \in 1 .. Len(accepted) : accepted'[n] = accepted[n]
          /\ accepted'[Len(accepted) + 1] = item[p]
      BY <1>6, <3>1, <3>3, AppendKeeps
    <3>6. Total' = Len(accepted) + 1
      BY <1>6, <3>4, <3>5 DEF Total
    <3> QED BY <1>6, <2>2, <3>1, <3>3, <3>5, <3>6
  <2> QED BY <2>1, <2>2
<1>8. Taken' = Taken /\ \A n \in 1 .. Len(accepted) : Entry(n)' = Entry(n)
  <2>1. Taken' = Taken
    BY <1>2 DEF Taken
  <2>2. ASSUME NEW n \in 1 .. Len(accepted) PROVE Entry(n)' = Entry(n)
    BY <1>6, <1>7 DEF Entry
  <2> QED BY <2>1, <2>2
<1>9. LTypeOK'
  <2>1. v_' \in [Slots -> Message \union {None, Terminate}]
    BY <1>1, <1>2 DEF LTypeOK
  <2>2. pcP' \in [Posters -> {"work", "lock", "asleep", "notify", "done", "join", "over"}]
    BY <1>2 DEF LTypeOK
  <2>3. settled' \in 0 .. Len(accepted')
    BY <1>2, <1>6, <1>7
  <2> QED BY <1>1, <1>2, <1>7, <2>1, <2>2, <2>3 DEF LTypeOK
<1>10. PhaseInv'
  <2>1. pcP'["main"] # "done" /\ \A t \in Threads : pcP'[t] \notin {"join", "over"}
    BY <1>4, <1>5, Constants DEF PhaseInv
  <2>2. pcP'["main"] # "work" => \A t \in Threads : pcP'[t] = "done"
    BY <1>2, <1>4, Constants DEF PhaseInv
  <2>3. pcP'["main"] # "over" /\ pcW' # "gone"
    BY <1>2, <1>4, <1>5, Constants
  <2> QED BY <2>1, <2>2, <2>3 DEF PhaseInv
<1>11. ItemInv'
  BY <1>2, <1>4, Constants DEF ItemInv
<1>12. QueueInv'
  <2>1. Taken' + size' = Total'
    BY <1>3, <1>6, <1>7, <1>8
  <2>2. ASSUME NEW k \in 1 .. size PROVE v_'[After(head_, k - 1)] = Entry(Taken + k)'
    <3>1. After(head_, k - 1) \in Slots /\ After(head_, k - 1) # tail_
      BY <1>1, <1>3 DEF After
    <3>2. v_'[After(head_, k - 1)] = v_[After(head_, k - 1)]
      BY <1>2, <3>1 DEF LTypeOK
    <3>3. Taken + k \in 1 .. Len(accepted)
      BY <1>3, <1>6
    <3>4. Entry(Taken + k)' = Entry(Taken + k)
      BY <1>6, <1>7, <1>8, <3>3 DEF Entry
    <3> QED BY <3>2, <3>4 DEF QueueInv
  <2>3. ASSUME NEW k, k = size + 1 PROVE v_'[After(head_, k - 1)] = Entry(Taken + k)'
    <3>1. k - 1 = size /\ Taken + k = Len(accepted) + 1
      BY <1>3, <1>6, <2>3
    <3>2. v_'[After(head_, k - 1)] = item[p]
      BY <1>1, <1>2, <1>3, <3>1 DEF LTypeOK
    <3>3. Entry(Taken + k)' = IF Taken + k <= Len(accepted') THEN accepted'[Taken + k] ELSE Terminate
      BY <1>8, <2>3, <1>3 DEF Entry
    <3> QED BY <1>6, <1>7, <3>1, <3>2, <3>3
  <2>4. ASSUME NEW k \in 1 .. size + 1 PROVE v_'[After(head_, k - 1)] = Entry(Taken + k)'
    <3>1. k \in 1 .. size \/ k = size + 1
      BY <1>3
    <3> QED BY <2>2, <2>3, <3>1
  <2> QED BY <1>2, <1>3, <1>8, <2>1, <2>4 DEF QueueInv, After, Entry
<1>13. WorkerInv'
  <2>1. pcW = "notify" => Taken \in 1 .. Len(accepted)
    BY <1>3, <1>6 DEF Taken
  <2>2. pcW = "notify" => incoming' = Entry(Taken)'
    <3> SUFFICES ASSUME pcW = "notify" PROVE incoming' = Entry(Taken)'
      OBVIOUS
    <3>1. Entry(Taken)' = accepted'[Taken] /\ Entry(Taken) = accepted[Taken]
      BY <1>6, <1>7, <1>8, <2>1 DEF Entry
    <3> QED BY <1>2, <1>7, <2>1, <3>1 DEF WorkerInv
  <2>3. pcW \in {"sink", "write"} => settled < Len(accepted') /\ incoming = accepted'[settled + 1]
    BY <1>6, <1>7 DEF WorkerInv
  <2>4. pcW = "flush" => settled > 0 /\ incoming = accepted'[settled]
    BY <1>6, <1>7 DEF WorkerInv
  <2> QED BY <1>2, <2>2, <2>3, <2>4 DEF WorkerInv
<1>14. FileInv' /\ SilentOnlyOverMidnight'
  BY <1>2 DEF FileInv, SilentOnlyOverMidnight, file
<1>15. KeptInv'
  <2>1. ASSUME NEW l \in Loggers, NEW n \in 0 .. settled PROVE Of(l, n)' = Of(l, n)
    <3>1. \A i \in 1 .. n : accepted'[i] = accepted[i]
      BY <1>6, <1>7
    <3>2. {i \in 1 .. n : accepted'[i].to = l} = {i \in 1 .. n : accepted[i].to = l}
      BY <3>1
    <3> QED BY <3>2 DEF Of
  <2> DEFINE flushed == IF pcW = "flush" THEN settled - 1 ELSE settled
  <2>2. flushed \in 0 .. settled /\ settled \in 0 .. settled
    BY <1>6 DEF WorkerInv
  <2>3. OnlyQueueIsLost <=> (faults = 0 => \A l \in Loggers : Of(l, flushed) <= saved[l])
    BY DEF OnlyQueueIsLost, Of
  <2>4. OnlyQueueIsLost' <=> (faults = 0 => \A l \in Loggers : Of(l, flushed)' <= saved[l])
    BY <1>2 DEF OnlyQueueIsLost, Of
  <2>5. flushed' = flushed
    BY <1>2
  <2> HIDE DEF flushed
  <2>6. \A l \in Loggers : Of(l, settled)' = Of(l, settled) /\ Of(l, flushed)' = Of(l, flushed)
    BY <1>2, <2>1, <2>2, <2>5 DEF Of
  <2> QED BY <1>2, <2>3, <2>4, <2>6 DEF KeptInv
<1>16. NoLostCall'
  <2> DEFINE T == {"work", "lock", "asleep", "notify", "done", "join", "over"}
  <2>1. pcP \in [Posters -> T]
    BY DEF LTypeOK
  <2> HIDE DEF T
  <2>2. /\ Cardinality(At(pcP', "lock")) = Cardinality(At(pcP, "lock")) - 1
        /\ Cardinality(At(pcP', "notify")) = Cardinality(At(pcP, "notify")) + 1
        /\ At(pcP', "asleep") = At(pcP, "asleep")
    <3>1. Cardinality(At(pcP', "lock")) = Cardinality(At(pcP, "lock")) - 1
      BY <1>2, <2>1, AtLeave
    <3>2. Cardinality(At(pcP', "notify")) = Cardinality(At(pcP, "notify")) + 1
      BY <1>2, <2>1, AtEnter
    <3>3. At(pcP', "asleep") = At(pcP, "asleep")
      BY <1>2, <2>1, AtOther
    <3> QED BY <3>1, <3>2, <3>3
  <2> DEFINE l1 == Cardinality(At(pcP, "lock"))
             n1 == Cardinality(At(pcP, "notify"))
             w  == IF pcW = "notify" THEN 1 ELSE 0
  <2>3. l1 \in Nat /\ n1 \in Nat /\ w \in Nat
    BY AtType
  <2>4. /\ At(pcP, "asleep") # {} => MaxItems - size <= l1 + w
        /\ pcW = "asleep" => size <= n1
    BY CallsAre
  <2>5. NoLostCall' <=>
          /\ At(pcP', "asleep") # {} =>
               MaxItems - size' <= Cardinality(At(pcP', "lock")) + (IF pcW' = "notify" THEN 1 ELSE 0)
          /\ pcW' = "asleep" => size' <= Cardinality(At(pcP', "notify"))
    BY DEF NoLostCall, At, Asleep
  <2>6. NoLostCall' <=>
          /\ At(pcP, "asleep") # {} => MaxItems - (size + 1) <= l1 - 1 + w
          /\ pcW = "asleep" => size + 1 <= n1 + 1
    BY <1>2, <1>3, <2>2, <2>5
  <2> HIDE DEF l1, n1, w
  <2> QED BY <1>1, <1>3, <2>3, <2>4, <2>6
<1>17. [Fifo!Next]_(Fifo!vars)
  <2>1. CASE p = "main"
    <3>1. Posted' = Posted
      <4>1. \A t \in Threads : pcP'[t] = pcP[t]
        BY <1>4, <2>1, Constants
      <4> QED BY <1>2, <4>1 DEF Posted
    <3>2. pcP'["main"] # "over" /\ pcP["main"] # "over"
      BY <1>2, <1>4, <2>1
    <3> QED BY <1>2, <1>7, <2>1, <3>1, <3>2, Unseen
  <2>2. CASE p # "main"
    <3> DEFINE m == item[p]
    <3>1. /\ p \in Threads /\ m \in Message /\ m.by = p /\ m.n = posts[p]
          /\ accepted' = Append(accepted, m)
      BY <1>7, <2>2
    <3>2. Posted[p] = posts[p] - 1 /\ posts[p] \in Nat
      BY <1>2, <3>1, Constants DEF Posted, LTypeOK
    <3>3. m.n = Posted[p] + 1
      BY <3>1, <3>2
    <3>4. Posted' = [Posted EXCEPT ![p] = m.n]
      <4>1. ASSUME NEW t \in Threads
            PROVE  posts'[t] - (IF pcP'[t] \in {"lock", "asleep"} THEN 1 ELSE 0)
                     = [Posted EXCEPT ![p] = m.n][t]
        <5>1. CASE t = p
          <6>1. posts[p] - 0 = posts[p]
            BY <3>2
          <6> QED BY <1>2, <1>4, <3>1, <5>1, <6>1 DEF Posted
        <5>2. CASE t # p
          BY <1>2, <1>4, <5>2, Constants DEF Posted
        <5> QED BY <5>1, <5>2
      <4> QED BY <4>1 DEF Posted
    <3>5. pcP["main"] # "over" /\ pcP'["main"] # "over"
      BY <1>4, <1>5, <2>2, Constants
    <3>6. Len(accepted) - settled < MaxItems + 1
      BY <1>1, <1>3, <1>6 DEF Taken
    <3> QED BY <1>2, <3>1, <3>3, <3>4, <3>5, <3>6 DEF Fifo!Next, Fifo!Accept, Posted
  <2> QED BY <2>1, <2>2
<1> QED BY <1>9, <1>10, <1>11, <1>12, <1>13, <1>14, <1>15, <1>16, <1>17

-----------------------------------------------------------------------------
(* The steps of the worker, and of the world.                              *)

(* The worker falls asleep over an empty queue, or wakes; the world goes    *)
(* on.                                                                     *)
LEMMA IdleStep ==
  ASSUME LogInv,
         UNCHANGED <<queue, posters, incoming, files, faults, accepted, settled, silent>>,
         midnight' \in BOOLEAN, died' \in BOOLEAN,
         \/ pcW' = pcW
         \/ pcW = "asleep" /\ pcW' = "lock"
         \/ pcW = "lock" /\ pcW' = "asleep" /\ empty
  PROVE  LogInv' /\ [Fifo!Next]_(Fifo!vars)
<1>1. /\ v_' = v_ /\ head_' = head_ /\ tail_' = tail_ /\ overrun_counter_' = overrun_counter_
      /\ pcP' = pcP /\ item' = item /\ posts' = posts /\ incoming' = incoming
      /\ isOpen' = isOpen /\ rotated' = rotated /\ kept' = kept /\ saved' = saved
      /\ faults' = faults /\ accepted' = accepted /\ settled' = settled /\ silent' = silent
  BY DEF queue, posters, files
<1>2. Stopped' = Stopped /\ Posted' = Posted
  BY <1>1 DEF Stopped, Posted
<1>3. /\ QueueInv' /\ WorkerInv' /\ FileInv' /\ SilentOnlyOverMidnight' /\ KeptInv'
      /\ size' = size /\ size \in 0 .. MaxItems
  BY <1>1, <1>2, Frame
<1>4. LTypeOK' /\ PhaseInv' /\ ItemInv'
  BY <1>1, <1>2 DEF LogInv, LTypeOK, PhaseInv, ItemInv
<1>5. NoLostCall'
  <2>1. NoLostCall' <=>
          /\ At(pcP, "asleep") # {} =>
               MaxItems - size <= Cardinality(At(pcP, "lock")) + (IF pcW' = "notify" THEN 1 ELSE 0)
          /\ pcW' = "asleep" => size <= Cardinality(At(pcP, "notify"))
    BY <1>1, <1>3 DEF NoLostCall, At, Asleep
  <2>2. pcW' = "asleep" => size <= Cardinality(At(pcP, "notify"))
    <3>1. CASE pcW = "asleep"
      BY <3>1, CallsAre DEF LogInv
    <3>2. CASE pcW = "lock" /\ empty
      <4>1. size = 0
        BY <3>2, SizeIs DEF LogInv, LTypeOK
      <4>2. Cardinality(At(pcP, "notify")) \in Nat
        BY AtType
      <4> QED BY <4>1, <4>2
    <3> QED BY <3>1, <3>2
  <2> QED BY <2>1, <2>2, CallsAre DEF LogInv
<1>6. UNCHANGED Fifo!vars
  BY <1>1, <1>2, Unseen
<1> QED BY <1>3, <1>4, <1>5, <1>6 DEF LogInv

(* The worker takes the oldest message.                                    *)
LEMMA DequeueStep ==
  ASSUME LogInv, Dequeue
  PROVE  LogInv' /\ [Fifo!Next]_(Fifo!vars)
<1> USE DEF LogInv
<1>1. /\ head_ \in Slots /\ tail_ \in Slots /\ Slots = 0 .. MaxItems /\ MaxItems \in Nat \ {0}
      /\ Succ(head_) = (IF head_ = MaxItems THEN 0 ELSE head_ + 1)
      /\ Succ(head_) \in Slots
  BY SuccIs, Constants DEF LTypeOK
<1>2. /\ pcW = "lock" /\ tail_ # head_ /\ incoming' = v_[head_]
      /\ v_' = [v_ EXCEPT ![head_] = None] /\ head_' = Succ(head_) /\ pcW' = "notify"
      /\ tail_' = tail_ /\ overrun_counter_' = overrun_counter_
      /\ pcP' = pcP /\ item' = item /\ posts' = posts
      /\ isOpen' = isOpen /\ rotated' = rotated /\ kept' = kept /\ saved' = saved
      /\ midnight' = midnight /\ died' = died /\ faults' = faults
      /\ accepted' = accepted /\ settled' = settled /\ silent' = silent
  BY DEF Dequeue, empty, posters, files, world
<1>3. /\ size \in 1 .. MaxItems /\ size' = size - 1
  <2>1. size \in 0 .. MaxItems /\ size # 0
    BY <1>1, <1>2, SizeIs DEF empty
  <2>2. size' = size - 1
    BY <1>1, <1>2 DEF size, max_items_
  <2> QED BY <1>1, <2>1, <2>2
<1>4. Stopped' = Stopped /\ Posted' = Posted /\ Total' = Total
  BY <1>2 DEF Stopped, Posted, Total
<1>5. Taken \in Nat /\ Taken = settled /\ Taken' = Taken + 1 /\ Total \in Nat
  BY <1>2 DEF Taken, Total, LTypeOK
<1>6. LTypeOK'
  BY <1>1, <1>2 DEF LTypeOK
<1>7. PhaseInv' /\ ItemInv'
  BY <1>2, <1>4 DEF PhaseInv, ItemInv
<1>8. QueueInv'
  <2>1. Taken' + size' = Total'
    BY <1>3, <1>4, <1>5 DEF QueueInv
  <2>2. ASSUME NEW k \in 1 .. size'
        PROVE  v_'[After(head_, k - 1)'] = Entry(Taken + k)'
    <3>1. k + 1 \in 1 .. size /\ k + 1 - 1 = k /\ k \in 1 .. MaxItems - 1
      BY <1>1, <1>3
    <3>2. After(head_, k - 1)' = After(head_, k) /\ After(head_, k) \in Slots
          /\ After(head_, k) # head_
      BY <1>1, <1>2, <3>1 DEF After
    <3>3. v_'[After(head_, k)] = v_[After(head_, k)]
      BY <1>2, <3>2 DEF LTypeOK
    <3>4. v_[After(head_, k)] = Entry(Taken + (k + 1))
      BY <3>1 DEF QueueInv
    <3>5. Taken' + k = Taken + (k + 1)
      BY <1>5, <3>1
    <3> QED BY <1>2, <3>2, <3>3, <3>4, <3>5 DEF Entry
  <2> QED BY <2>1, <2>2 DEF QueueInv
<1>9. WorkerInv'
  <2>1. 1 \in 1 .. size /\ 1 - 1 = 0 /\ After(head_, 0) = head_
    BY <1>1, <1>3 DEF After
  <2>2. v_[head_] = Entry(Taken + 1)
    BY <2>1 DEF QueueInv
  <2>3. incoming' = Entry(Taken)'
    BY <1>2, <1>5, <2>2 DEF Entry
  <2> QED BY <1>2, <2>3 DEF WorkerInv
<1>10. FileInv' /\ SilentOnlyOverMidnight'
  BY <1>2 DEF FileInv, SilentOnlyOverMidnight
<1>11. KeptInv'
  BY <1>2 DEF KeptInv, OnlyQueueIsLost, Of
<1>12. NoLostCall'
  <2> DEFINE l == Cardinality(At(pcP, "lock"))
  <2>1. NoLostCall' <=> (At(pcP, "asleep") # {} => MaxItems - (size - 1) <= l + 1)
    BY <1>2, <1>3 DEF NoLostCall, At, Asleep
  <2>2. At(pcP, "asleep") # {} => MaxItems - size <= l + 0
    BY <1>2, CallsAre
  <2>3. l \in Nat
    BY AtType
  <2> HIDE DEF l
  <2> QED BY <1>1, <1>3, <2>1, <2>2, <2>3
<1>13. UNCHANGED Fifo!vars
  BY <1>2, <1>4, Unseen
<1> QED BY <1>6, <1>7, <1>8, <1>9, <1>10, <1>11, <1>12, <1>13

(* The call for a poster, when the message is out of the queue.            *)
LEMMA NotifyPopStep ==
  ASSUME LogInv, NotifyPop
  PROVE  LogInv' /\ [Fifo!Next]_(Fifo!vars)
<1> USE DEF LogInv
<1>1. /\ pcW = "notify" /\ pcW' = IF incoming = Terminate THEN "gone" ELSE "sink"
      /\ \/ Asleep = {} /\ pcP' = pcP
         \/ \E p \in Asleep : pcP' = [pcP EXCEPT ![p] = "lock"]
      /\ v_' = v_ /\ head_' = head_ /\ tail_' = tail_ /\ overrun_counter_' = overrun_counter_
      /\ item' = item /\ posts' = posts /\ incoming' = incoming
      /\ isOpen' = isOpen /\ rotated' = rotated /\ kept' = kept /\ saved' = saved
      /\ midnight' = midnight /\ died' = died /\ faults' = faults
      /\ accepted' = accepted /\ settled' = settled /\ silent' = silent
  BY DEF NotifyPop, queue, files, world
<1>2. /\ pcP' \in [Posters -> {"work", "lock", "asleep", "notify", "done", "join", "over"}]
      /\ \A q \in Posters : pcP'[q] = pcP[q] \/ (pcP[q] = "asleep" /\ pcP'[q] = "lock")
  BY <1>1 DEF Asleep, LTypeOK
<1>3. size' = size /\ size \in 0 .. MaxItems
  BY <1>1, SizeIs DEF size, LTypeOK
<1>4. Stopped' = Stopped /\ Posted' = Posted /\ Total' = Total /\ Taken' = Taken
  <2>1. Stopped' = Stopped
    BY <1>2, Constants DEF Stopped
  <2>2. \A t \in Threads : pcP'[t] \in {"lock", "asleep"} <=> pcP[t] \in {"lock", "asleep"}
    BY <1>2, Constants
  <2> QED BY <1>1, <2>1, <2>2 DEF Posted, Total, Taken
<1>5. /\ accepted \in Seq(Message) /\ Len(accepted) \in Nat /\ settled \in 0 .. Len(accepted)
      /\ Taken = settled + 1 /\ incoming = Entry(settled + 1)
      /\ settled + 1 + size = Len(accepted) + (IF Stopped THEN 1 ELSE 0)
  BY <1>1 DEF LTypeOK, Taken, WorkerInv, QueueInv, Total
<1>6. /\ incoming # Terminate => settled < Len(accepted) /\ incoming = accepted[settled + 1]
      /\ incoming = Terminate => Stopped /\ settled = Len(accepted)
  <2>1. CASE settled < Len(accepted)
    <3>1. incoming = accepted[settled + 1] /\ incoming \in Message
      BY <1>5, <2>1 DEF Entry
    <3>2. incoming # Terminate
      BY <3>1, LoggerAssumption DEF Message, Terminate, LoggerAssumption
    <3> QED BY <2>1, <3>1, <3>2
  <2>2. CASE settled = Len(accepted)
    <3>1. incoming = Terminate
      BY <1>5, <2>2 DEF Entry
    <3>2. Stopped
      BY <1>3, <1>5, <2>2
    <3> QED BY <2>2, <3>1, <3>2
  <2> QED BY <1>5, <2>1, <2>2
<1>7. LTypeOK'
  BY <1>1, <1>2 DEF LTypeOK
<1>8. PhaseInv'
  <2>1. pcP'["main"] # "done" /\ pcP'["main"] # "over"
        /\ \A t \in Threads : pcP'[t] \notin {"join", "over"}
    BY <1>1, <1>2, Constants DEF PhaseInv
  <2>2. pcP'["main"] # "work" => \A t \in Threads : pcP'[t] = "done"
    BY <1>2, Constants DEF PhaseInv
  <2> QED BY <1>1, <1>4, <1>6, <2>1, <2>2 DEF PhaseInv
<1>9. ItemInv'
  BY <1>1, <1>2, Constants DEF ItemInv
<1>10. QueueInv'
  BY <1>1, <1>3, <1>4 DEF QueueInv, Entry, After
<1>11. WorkerInv'
  BY <1>1, <1>6 DEF WorkerInv
<1>12. FileInv' /\ SilentOnlyOverMidnight'
  BY <1>1 DEF FileInv, SilentOnlyOverMidnight
<1>13. KeptInv'
  BY <1>1 DEF KeptInv, OnlyQueueIsLost, Of
<1>14. NoLostCall'
  <2>1. NoLostCall' <=>
          (At(pcP', "asleep") # {} => MaxItems - size <= Cardinality(At(pcP', "lock")) + 0)
    BY <1>1, <1>3 DEF NoLostCall, At, Asleep
  <2>2. CASE Asleep = {} /\ pcP' = pcP
    <3>1. At(pcP', "asleep") = {}
      BY <2>2 DEF At, Asleep
    <3> QED BY <2>1, <3>1
  <2>3. ASSUME NEW p \in Asleep, pcP' = [pcP EXCEPT ![p] = "lock"] PROVE NoLostCall'
    <3> DEFINE T == {"work", "lock", "asleep", "notify", "done", "join", "over"}
               l == Cardinality(At(pcP, "lock"))
    <3>1. pcP \in [Posters -> T] /\ p \in Posters /\ pcP[p] = "asleep"
      BY DEF LTypeOK, Asleep
    <3> HIDE DEF T
    <3>2. Cardinality(At(pcP', "lock")) = l + 1
      BY <2>3, <3>1, AtEnter
    <3>3. MaxItems - size <= l + 1
      <4>1. At(pcP, "asleep") # {}
        BY <3>1 DEF At
      <4> QED BY <1>1, <4>1, CallsAre
    <3>4. l \in Nat
      BY AtType
    <3> HIDE DEF l
    <3> QED BY <2>1, <3>2, <3>3, <3>4
  <2> QED BY <1>1, <2>2, <2>3
<1>15. (pcP["main"] = "over")' <=> (pcP["main"] = "over")
  BY <1>2, Constants
<1>16. UNCHANGED Fifo!vars
  BY <1>1, <1>4, <1>15, Unseen
<1> QED BY <1>7, <1>8, <1>9, <1>10, <1>11, <1>12, <1>13, <1>14, <1>16

-----------------------------------------------------------------------------
(* The steps of the worker with the files.                                 *)

(* They touch neither the queue nor a poster.                              *)
LEMMA FilesFrame ==
  ASSUME LogInv, UNCHANGED <<queue, posters, accepted, incoming>>,
         pcW \in {"sink", "write", "flush"}, pcW' \in {"write", "flush", "lock"},
         Taken' = Taken
  PROVE  /\ PhaseInv' /\ ItemInv' /\ QueueInv' /\ NoLostCall'
         /\ Posted' = Posted /\ pcP' = pcP /\ accepted' = accepted
<1> USE DEF LogInv
<1>1. /\ v_' = v_ /\ head_' = head_ /\ tail_' = tail_ /\ overrun_counter_' = overrun_counter_
      /\ pcP' = pcP /\ item' = item /\ posts' = posts /\ accepted' = accepted
  BY DEF queue, posters
<1>2. size' = size /\ Stopped' = Stopped /\ Posted' = Posted /\ Total' = Total
  BY <1>1 DEF size, Stopped, Posted, Total
<1>3. PhaseInv' /\ ItemInv'
  BY <1>1, <1>2 DEF PhaseInv, ItemInv
<1>4. QueueInv'
  BY <1>1, <1>2 DEF QueueInv, Entry, After
<1>5. NoLostCall'
  BY <1>1, <1>2 DEF NoLostCall, Asleep
<1> QED BY <1>1, <1>2, <1>3, <1>4, <1>5

(* The worker holds the oldest message that is not through.                *)
LEMMA Holding ==
  ASSUME LogInv, pcW \in {"sink", "write", "flush"}
  PROVE  /\ incoming \in Message /\ file \in Loggers
         /\ pcW \in {"sink", "write"} =>
              settled \in Nat /\ settled < Len(accepted) /\ incoming = accepted[settled + 1]
         /\ pcW = "flush" => settled \in Nat \ {0} /\ incoming = accepted[settled]
<1>1. accepted \in Seq(Message) /\ settled \in 0 .. Len(accepted) /\ Len(accepted) \in Nat
  BY DEF LogInv, LTypeOK
<1>2. CASE pcW \in {"sink", "write"}
  <2>1. settled < Len(accepted) /\ incoming = accepted[settled + 1]
    BY <1>2 DEF LogInv, WorkerInv
  <2>2. incoming \in Message
    BY <1>1, <2>1
  <2> QED BY <1>1, <1>2, <2>1, <2>2 DEF file, Message
<1>3. CASE pcW = "flush"
  <2>1. settled > 0 /\ incoming = accepted[settled]
    BY <1>3 DEF LogInv, WorkerInv
  <2>2. incoming \in Message
    BY <1>1, <2>1
  <2> QED BY <1>1, <1>3, <2>1, <2>2 DEF file, Message
<1> QED BY <1>2, <1>3

(* One more message of a logger, or of another.                            *)
LEMMA OfNext ==
  ASSUME NEW l, NEW n \in Nat
  PROVE  /\ Of(l, n) \in Nat
         /\ Of(l, n + 1) = Of(l, n) + (IF accepted[n + 1].to = l THEN 1 ELSE 0)
<1> DEFINE S(k) == {i \in 1 .. k : accepted[i].to = l}
<1>1. IsFiniteSet(1 .. n)
  <2>1. 1 \in Int /\ n \in Int
    OBVIOUS
  <2> QED BY <2>1, FS_Interval
<1>2. IsFiniteSet(S(n)) /\ Cardinality(S(n)) \in Nat
  <2>1. S(n) \subseteq 1 .. n
    OBVIOUS
  <2>2. IsFiniteSet(S(n))
    <3> HIDE DEF S
    <3> QED BY <1>1, <2>1, FS_Subset
  <2> HIDE DEF S
  <2> QED BY <2>2, FS_CardinalityType
<1>3. CASE accepted[n + 1].to = l
  <2>1. S(n + 1) = S(n) \union {n + 1} /\ n + 1 \notin S(n)
    BY <1>3
  <2>2. Cardinality(S(n) \union {n + 1}) = Cardinality(S(n)) + 1
    <3> HIDE DEF S
    <3> QED BY <1>2, <2>1, FS_AddElement
  <2> QED BY <1>2, <1>3, <2>1, <2>2 DEF Of
<1>4. CASE accepted[n + 1].to # l
  <2>1. S(n + 1) = S(n)
    <3>1. ASSUME NEW i \in S(n + 1) PROVE i \in S(n)
      <4>1. i \in 1 .. n + 1 /\ i # n + 1
        BY <1>4
      <4>2. i \in 1 .. n
        BY <4>1
      <4> QED BY <4>2
    <3>2. ASSUME NEW i \in S(n) PROVE i \in S(n + 1)
      OBVIOUS
    <3> HIDE DEF S
    <3> QED BY <3>1, <3>2
  <2>2. Of(l, n) = Cardinality(S(n)) /\ Of(l, n + 1) = Cardinality(S(n + 1))
    BY DEF Of
  <2> HIDE DEF S
  <2> QED BY <1>2, <1>4, <2>1, <2>2
<1> QED BY <1>3, <1>4

(* The files are through with the message.                                 *)
LEMMA SettleStep ==
  ASSUME LogInv, UNCHANGED <<queue, posters, accepted, incoming>>,
         pcW \in {"sink", "write"}, Settled,
         kept' \in {kept, [kept EXCEPT ![file] = Append(@, incoming)]}
  PROVE  /\ PhaseInv' /\ ItemInv' /\ QueueInv' /\ WorkerInv' /\ NoLostCall'
         /\ Fifo!Settle
<1>1. settled' = settled + 1 /\ pcW' = "flush" /\ incoming' = incoming
  BY DEF Settled
<1>2. settled \in Nat /\ settled < Len(accepted) /\ incoming = accepted[settled + 1]
  BY Holding
<1>3. Taken' = Taken
  BY <1>1, <1>2 DEF Taken
<1>4. /\ PhaseInv' /\ ItemInv' /\ QueueInv' /\ NoLostCall'
      /\ Posted' = Posted /\ pcP' = pcP /\ accepted' = accepted
  BY <1>1, <1>3, FilesFrame
<1>5. WorkerInv'
  BY <1>1, <1>2, <1>4 DEF WorkerInv
<1>6. Fifo!Settle
  BY <1>1, <1>2, <1>4 DEF Fifo!Settle, Posted, file
<1> QED BY <1>4, <1>5, <1>6

(* The new file cannot be opened: the message is lost with a throw.        *)
LEMMA OpenFailsStep ==
  ASSUME LogInv, OpenFails
  PROVE  LogInv' /\ [Fifo!Next]_(Fifo!vars)
<1>1. /\ pcW = "sink" /\ ShouldRotate /\ Settled
      /\ faults < MaxFaults /\ faults' = faults + 1 /\ midnight' = midnight /\ died' = died
      /\ isOpen' = [isOpen EXCEPT ![file] = FALSE]
      /\ saved' = [saved EXCEPT ![file] = Len(kept[file])]
      /\ UNCHANGED <<queue, posters, accepted, incoming>>
      /\ rotated' = rotated /\ kept' = kept /\ silent' = silent /\ incoming' = incoming
      /\ settled' = settled + 1 /\ pcW' = "flush" /\ accepted' = accepted
  BY DEF OpenFails, Fault, Settled
<1>2. PhaseInv' /\ ItemInv' /\ QueueInv' /\ WorkerInv' /\ NoLostCall' /\ Fifo!Settle
  BY <1>1, SettleStep
<1>3. /\ incoming \in Message /\ file \in Loggers
      /\ settled \in Nat /\ settled < Len(accepted) /\ Len(accepted) \in Nat
  BY <1>1, Holding DEF LogInv, LTypeOK
<1>4. faults' > 0 /\ faults' \in 0 .. MaxFaults /\ faults' # 0
  BY <1>1, Constants DEF LogInv, LTypeOK
<1>5. LTypeOK'
  <2>1. Len(kept[file]) \in Nat
    BY <1>3 DEF LogInv, LTypeOK
  <2> QED BY <1>1, <1>3, <1>4, <2>1 DEF LogInv, LTypeOK, queue, posters
<1>6. FileInv'
  BY <1>1, <1>3, <1>4 DEF LogInv, LTypeOK, FileInv, ShouldRotate
<1>7. SilentOnlyOverMidnight' /\ KeptInv'
  BY <1>1, <1>4 DEF LogInv, SilentOnlyOverMidnight, KeptInv, OnlyQueueIsLost
<1> QED BY <1>2, <1>5, <1>6, <1>7 DEF LogInv, Fifo!Next

(* The new file is open.                                                   *)
LEMMA OpenStep ==
  ASSUME LogInv, Open
  PROVE  LogInv' /\ [Fifo!Next]_(Fifo!vars)
<1>1. /\ pcW = "sink" /\ pcW' = "write"
      /\ isOpen' = [isOpen EXCEPT ![file] = TRUE]
      /\ rotated' = [rotated EXCEPT ![file] = TRUE]
      /\ saved' = [saved EXCEPT ![file] = Len(kept[file])]
      /\ UNCHANGED <<queue, posters, accepted, incoming>>
      /\ midnight' = midnight /\ died' = died /\ faults' = faults
      /\ kept' = kept /\ silent' = silent /\ incoming' = incoming
      /\ settled' = settled /\ accepted' = accepted
  BY DEF Open, world
<1>2. Taken' = Taken
  BY <1>1 DEF Taken
<1>3. /\ PhaseInv' /\ ItemInv' /\ QueueInv' /\ NoLostCall'
      /\ Posted' = Posted /\ pcP' = pcP
  BY <1>1, <1>2, FilesFrame
<1>4. incoming \in Message /\ file \in Loggers /\ file' = file
  BY <1>1, Holding DEF file
<1>5. LTypeOK'
  <2>1. Len(kept[file]) \in Nat
    BY <1>4 DEF LogInv, LTypeOK
  <2> QED BY <1>1, <1>4, <2>1 DEF LogInv, LTypeOK, queue, posters
<1>6. WorkerInv'
  BY <1>1 DEF LogInv, WorkerInv
<1>7. FileInv'
  BY <1>1, <1>4 DEF LogInv, LTypeOK, FileInv
<1>8. SilentOnlyOverMidnight'
  BY <1>1 DEF LogInv, SilentOnlyOverMidnight
<1>9. KeptInv'
  <2>1. \A l \in Loggers, n \in {settled} : Of(l, n)' = Of(l, n)
    BY <1>1 DEF Of
  <2>2. faults = 0 => \A l \in Loggers : Len(kept[l]) = Of(l, settled) /\ Of(l, settled) <= saved[l]
    BY <1>1 DEF LogInv, KeptInv, OnlyQueueIsLost, Of
  <2>3. faults = 0 => \A l \in Loggers : Of(l, settled) <= saved'[l]
    <3> SUFFICES ASSUME faults = 0, NEW l \in Loggers PROVE Of(l, settled) <= saved'[l]
      OBVIOUS
    <3>1. CASE l = file
      <4>1. saved'[l] = Len(kept[l]) /\ Len(kept[l]) \in Nat
        BY <1>1, <3>1 DEF LogInv, LTypeOK
      <4> QED BY <2>2, <4>1
    <3>2. CASE l # file
      BY <1>1, <2>2, <3>2 DEF LogInv, LTypeOK
    <3> QED BY <3>1, <3>2
  <2> QED BY <1>1, <2>2, <2>3 DEF KeptInv, OnlyQueueIsLost, Of
<1>10. UNCHANGED Fifo!vars
  BY <1>1, <1>3, Unseen
<1> QED BY <1>3, <1>5, <1>6, <1>7, <1>8, <1>9, <1>10 DEF LogInv

(* The message is in its file, or that one is closed and nothing says so.  *)
LEMMA WriteStep ==
  ASSUME LogInv, Write
  PROVE  LogInv' /\ [Fifo!Next]_(Fifo!vars)
<1>1. /\ pcW \in {"sink", "write"} /\ AtWrite /\ Settled
      /\ \/ isOpen[file] /\ kept' = [kept EXCEPT ![file] = Append(@, incoming)] /\ silent' = silent
         \/ ~isOpen[file] /\ silent' = silent \union {incoming} /\ kept' = kept
      /\ UNCHANGED <<queue, posters, accepted, incoming>>
      /\ isOpen' = isOpen /\ rotated' = rotated /\ saved' = saved
      /\ midnight' = midnight /\ died' = died /\ faults' = faults
      /\ incoming' = incoming /\ settled' = settled + 1 /\ pcW' = "flush" /\ accepted' = accepted
  BY DEF Write, AtWrite, Settled, world
<1>2. PhaseInv' /\ ItemInv' /\ QueueInv' /\ WorkerInv' /\ NoLostCall' /\ Fifo!Settle
  BY <1>1, SettleStep
<1>3. /\ incoming \in Message /\ file \in Loggers
      /\ settled \in Nat /\ settled < Len(accepted) /\ incoming = accepted[settled + 1]
      /\ Len(accepted) \in Nat
  BY <1>1, Holding DEF LogInv, LTypeOK
<1>4. LTypeOK'
  <2>1. kept' \in [Loggers -> Seq(Message)]
    <3>1. kept \in [Loggers -> Seq(Message)] /\ kept[file] \in Seq(Message)
      BY <1>3 DEF LogInv, LTypeOK
    <3>2. Append(kept[file], incoming) \in Seq(Message)
      BY <1>3, <3>1, AppendKeeps
    <3> QED BY <1>1, <3>1, <3>2
  <2> QED BY <1>1, <1>3, <2>1 DEF LogInv, LTypeOK, queue, posters
<1>5. FileInv'
  BY <1>1 DEF LogInv, FileInv
<1>6. SilentOnlyOverMidnight'
  <2>1. ~isOpen[file] => faults > 0 /\ ~incoming.late
    <3> SUFFICES ASSUME ~isOpen[file] PROVE faults > 0 /\ ~incoming.late
      OBVIOUS
    <3>1. faults > 0 /\ ~rotated[file] /\ pcW # "write"
      BY <1>3 DEF LogInv, FileInv
    <3>2. ~ShouldRotate
      BY <1>1, <3>1 DEF AtWrite
    <3> QED BY <3>1, <3>2 DEF ShouldRotate
  <2> QED BY <1>1, <2>1 DEF LogInv, SilentOnlyOverMidnight
<1>7. KeptInv'
  <2> SUFFICES ASSUME faults = 0 PROVE KeptInv'
    BY <1>1 DEF KeptInv, OnlyQueueIsLost
  <2>1. /\ isOpen[file] /\ kept' = [kept EXCEPT ![file] = Append(@, incoming)]
    BY <1>1, <1>3 DEF LogInv, FileInv, LTypeOK
  <2>2. \A l \in Loggers : Len(kept[l]) = Of(l, settled) /\ Of(l, settled) <= saved[l]
    BY <1>1 DEF LogInv, KeptInv, OnlyQueueIsLost, Of
  <2>3. ASSUME NEW l \in Loggers PROVE Len(kept'[l]) = Of(l, settled + 1)
    <3>1. kept[l] \in Seq(Message) /\ Len(kept[l]) \in Nat
      BY DEF LogInv, LTypeOK
    <3>2. Len(kept'[l]) = Len(kept[l]) + (IF l = file THEN 1 ELSE 0)
      <4>1. CASE l = file
        <5>1. kept'[l] = Append(kept[l], incoming)
          BY <2>1, <4>1 DEF LogInv, LTypeOK
        <5> QED BY <1>3, <3>1, <4>1, <5>1, AppendKeeps
      <4>2. CASE l # file
        <5>1. kept'[l] = kept[l]
          BY <2>1, <4>2 DEF LogInv, LTypeOK
        <5> QED BY <3>1, <4>2, <5>1
      <4> QED BY <4>1, <4>2
    <3>3. Of(l, settled + 1) = Of(l, settled) + (IF accepted[settled + 1].to = l THEN 1 ELSE 0)
      BY <1>3, OfNext
    <3> QED BY <1>3, <2>2, <3>2, <3>3 DEF file
  <2>4. (settled + 1) - 1 = settled
    BY <1>3
  <2>5. KeptInv' <=>
          /\ faults = 0 => \A l \in Loggers : Len(kept'[l]) = Of(l, settled + 1)
          /\ faults = 0 => \A l \in Loggers : Of(l, (settled + 1) - 1) <= saved[l]
    BY <1>1 DEF KeptInv, OnlyQueueIsLost, Of
  <2> QED BY <2>2, <2>3, <2>4, <2>5
<1> QED BY <1>2, <1>4, <1>5, <1>6, <1>7 DEF LogInv, Fifo!Next

(* A write fails: the message is lost with a throw.                        *)
LEMMA WriteFailsStep ==
  ASSUME LogInv, WriteFails
  PROVE  LogInv' /\ [Fifo!Next]_(Fifo!vars)
<1>1. /\ pcW \in {"sink", "write"} /\ Settled
      /\ faults < MaxFaults /\ faults' = faults + 1 /\ midnight' = midnight /\ died' = died
      /\ UNCHANGED <<queue, posters, accepted, incoming>>
      /\ isOpen' = isOpen /\ rotated' = rotated /\ saved' = saved
      /\ kept' = kept /\ silent' = silent /\ incoming' = incoming
      /\ settled' = settled + 1 /\ pcW' = "flush" /\ accepted' = accepted
  BY DEF WriteFails, AtWrite, Fault, Settled, files
<1>2. PhaseInv' /\ ItemInv' /\ QueueInv' /\ WorkerInv' /\ NoLostCall' /\ Fifo!Settle
  BY <1>1, SettleStep
<1>3. settled \in Nat /\ settled < Len(accepted) /\ Len(accepted) \in Nat
  BY <1>1, Holding DEF LogInv, LTypeOK
<1>4. faults' > 0 /\ faults' \in 0 .. MaxFaults /\ faults' # 0
  BY <1>1, Constants DEF LogInv, LTypeOK
<1>5. LTypeOK'
  BY <1>1, <1>3, <1>4 DEF LogInv, LTypeOK, queue, posters
<1>6. FileInv'
  BY <1>1, <1>4 DEF LogInv, FileInv
<1>7. SilentOnlyOverMidnight' /\ KeptInv'
  BY <1>1, <1>4 DEF LogInv, SilentOnlyOverMidnight, KeptInv, OnlyQueueIsLost
<1> QED BY <1>2, <1>5, <1>6, <1>7 DEF LogInv, Fifo!Next

(* The flush, of one file or of all.                                       *)
LEMMA FlushStep ==
  ASSUME LogInv, Flush
  PROVE  LogInv' /\ [Fifo!Next]_(Fifo!vars)
<1>1. /\ pcW = "flush" /\ pcW' = "lock"
      /\ saved' = [l \in Loggers |-> IF l = file \/ ~isOpen[file] THEN Len(kept[l]) ELSE saved[l]]
      /\ UNCHANGED <<queue, posters, accepted, incoming>>
      /\ isOpen' = isOpen /\ rotated' = rotated /\ kept' = kept /\ silent' = silent
      /\ midnight' = midnight /\ died' = died /\ faults' = faults
      /\ incoming' = incoming /\ settled' = settled /\ accepted' = accepted
  BY DEF Flush, world
<1>2. Taken' = Taken
  BY <1>1 DEF Taken
<1>3. /\ PhaseInv' /\ ItemInv' /\ QueueInv' /\ NoLostCall'
      /\ Posted' = Posted /\ pcP' = pcP
  BY <1>1, <1>2, FilesFrame
<1>4. file \in Loggers /\ settled \in Nat \ {0} /\ incoming = accepted[settled]
  BY <1>1, Holding
<1>5. LTypeOK'
  <2>1. \A l \in Loggers : Len(kept[l]) \in Nat /\ saved[l] \in Nat
    BY DEF LogInv, LTypeOK
  <2>2. saved' \in [Loggers -> Nat]
    BY <1>1, <2>1
  <2> QED BY <1>1, <2>2 DEF LogInv, LTypeOK, queue, posters
<1>6. WorkerInv' /\ FileInv' /\ SilentOnlyOverMidnight'
  BY <1>1 DEF LogInv, WorkerInv, FileInv, SilentOnlyOverMidnight
<1>7. KeptInv'
  <2>1. faults = 0 => \A l \in Loggers : Len(kept[l]) = Of(l, settled) /\ Of(l, settled - 1) <= saved[l]
    BY <1>1 DEF LogInv, KeptInv, OnlyQueueIsLost, Of
  <2>2. faults = 0 => \A l \in Loggers : Of(l, settled) <= saved'[l]
    <3> SUFFICES ASSUME faults = 0, NEW l \in Loggers PROVE Of(l, settled) <= saved'[l]
      OBVIOUS
    <3> DEFINE n == settled - 1
    <3>1. n \in Nat /\ n + 1 = settled
      BY <1>4
    <3> HIDE DEF n
    <3>2. /\ Of(l, n) \in Nat
          /\ Of(l, n + 1) = Of(l, n) + (IF accepted[n + 1].to = l THEN 1 ELSE 0)
      BY <3>1, OfNext
    <3>3. CASE l = file \/ ~isOpen[file]
      <4>1. saved'[l] = Of(l, settled)
        BY <1>1, <2>1, <3>3
      <4> QED BY <3>1, <3>2, <4>1
    <3>4. CASE ~(l = file \/ ~isOpen[file])
      <4>1. saved'[l] = saved[l] /\ Of(l, n) <= saved[l]
        BY <1>1, <2>1, <3>4 DEF n
      <4>2. Of(l, settled) = Of(l, n)
        BY <1>4, <3>1, <3>2, <3>4 DEF file
      <4> QED BY <4>1, <4>2
    <3> QED BY <3>3, <3>4
  <2>3. KeptInv' <=>
          /\ faults = 0 => \A l \in Loggers : Len(kept[l]) = Of(l, settled)
          /\ faults = 0 => \A l \in Loggers : Of(l, settled) <= saved'[l]
    BY <1>1 DEF KeptInv, OnlyQueueIsLost, Of
  <2> QED BY <2>1, <2>2, <2>3
<1>8. UNCHANGED Fifo!vars
  BY <1>1, <1>3, Unseen
<1> QED BY <1>3, <1>5, <1>6, <1>7, <1>8 DEF LogInv

(* A flush fails.                                                          *)
LEMMA FlushFailsStep ==
  ASSUME LogInv, FlushFails
  PROVE  LogInv' /\ [Fifo!Next]_(Fifo!vars)
<1>1. /\ pcW = "flush" /\ pcW' = "lock"
      /\ faults < MaxFaults /\ faults' = faults + 1 /\ midnight' = midnight /\ died' = died
      /\ UNCHANGED <<queue, posters, accepted, incoming>>
      /\ isOpen' = isOpen /\ rotated' = rotated /\ saved' = saved
      /\ kept' = kept /\ silent' = silent /\ incoming' = incoming
      /\ settled' = settled /\ accepted' = accepted
  BY DEF FlushFails, Fault, files
<1>2. Taken' = Taken
  BY <1>1 DEF Taken
<1>3. /\ PhaseInv' /\ ItemInv' /\ QueueInv' /\ NoLostCall'
      /\ Posted' = Posted /\ pcP' = pcP
  BY <1>1, <1>2, FilesFrame
<1>4. faults' > 0 /\ faults' \in 0 .. MaxFaults /\ faults' # 0
  BY <1>1, Constants DEF LogInv, LTypeOK
<1>5. LTypeOK'
  BY <1>1, <1>4 DEF LogInv, LTypeOK, queue, posters
<1>6. WorkerInv' /\ FileInv' /\ SilentOnlyOverMidnight' /\ KeptInv'
  BY <1>1, <1>4 DEF LogInv, WorkerInv, FileInv, SilentOnlyOverMidnight, KeptInv, OnlyQueueIsLost
<1>7. UNCHANGED Fifo!vars
  BY <1>1, <1>3, Unseen
<1> QED BY <1>3, <1>5, <1>6, <1>7 DEF LogInv

-----------------------------------------------------------------------------
(* The first state: an empty queue, and all files open.                    *)
LEMMA InitLog == LInit => LogInv /\ Fifo!Init
<1> SUFFICES ASSUME LInit PROVE LogInv /\ Fifo!Init
  OBVIOUS
<1>1. /\ pcP = [p \in Posters |-> "work"] /\ pcW = "lock" /\ head_ = 0 /\ tail_ = 0
      /\ posts = [t \in Threads |-> 0] /\ settled = 0 /\ accepted = <<>> /\ faults = 0
      /\ kept = [l \in Loggers |-> <<>>] /\ saved = [l \in Loggers |-> 0] /\ silent = {}
  BY DEF LInit
<1>2. "main" \in Posters /\ \A t \in Threads : pcP[t] = "work"
  BY <1>1, Constants
<1>3. LTypeOK
  <2>1. <<>> \in Seq(Message) /\ Len(<<>>) = 0
    OBVIOUS
  <2>2. kept \in [Loggers -> Seq(Message)] /\ accepted \in Seq(Message) /\ settled \in 0 .. Len(accepted)
    BY <1>1, <2>1
  <2>3. /\ v_ \in [Slots -> Message \union {None, Terminate}] /\ incoming \in Message \union {None, Terminate}
        /\ item \in [Posters -> Message \union {None, Terminate}]
    BY DEF LInit
  <2>4. /\ head_ \in Slots /\ tail_ \in Slots /\ overrun_counter_ \in Nat
        /\ faults \in 0 .. MaxFaults /\ posts \in [Threads -> 0 .. MaxPosts]
    BY <1>1, Constants DEF LInit
  <2>5. /\ pcP \in [Posters -> {"work", "lock", "asleep", "notify", "done", "join", "over"}]
        /\ pcW \in {"lock", "asleep", "notify", "sink", "write", "flush", "gone"}
        /\ isOpen \in [Loggers -> BOOLEAN] /\ rotated \in [Loggers -> BOOLEAN]
        /\ saved \in [Loggers -> Nat] /\ midnight \in BOOLEAN /\ died \in BOOLEAN
        /\ silent \subseteq Message
    BY DEF LInit
  <2> QED BY <2>2, <2>3, <2>4, <2>5 DEF LTypeOK
<1>4. PhaseInv /\ ItemInv /\ WorkerInv
  BY <1>1, <1>2 DEF PhaseInv, ItemInv, WorkerInv
<1>5. size = 0
  BY <1>1 DEF size
<1>6. QueueInv
  <2>1. Taken = 0 /\ Total = 0
    BY <1>1, <1>2 DEF Taken, Total, Stopped
  <2> QED BY <1>5, <2>1 DEF QueueInv
<1>7. FileInv /\ SilentOnlyOverMidnight
  BY <1>1 DEF LInit, FileInv, SilentOnlyOverMidnight
<1>8. KeptInv
  <2>1. \A l : Of(l, 0) = 0
    <3> TAKE l
    <3>1. {i \in 1 .. 0 : accepted[i].to = l} = {}
      OBVIOUS
    <3> QED BY <3>1, FS_EmptySet DEF Of
  <2>2. OnlyQueueIsLost <=> (faults = 0 => \A l \in Loggers : Of(l, settled) <= saved[l])
    BY <1>1 DEF OnlyQueueIsLost, Of
  <2> QED BY <1>1, <2>1, <2>2 DEF KeptInv
<1>9. NoLostCall
  <2>1. At(pcP, "asleep") = {}
    BY <1>1 DEF At
  <2> QED BY <1>1, <2>1, CallsAre
<1>10. Fifo!Init
  <2>1. \A t \in Threads : posts[t] - (IF pcP[t] \in {"lock", "asleep"} THEN 1 ELSE 0) = 0
    BY <1>1, <1>2
  <2> QED BY <1>1, <1>2, <2>1 DEF Fifo!Init
<1> QED BY <1>3, <1>4, <1>6, <1>7, <1>8, <1>9, <1>10 DEF LogInv

(* A step of the log is a step of LogFifo, or one it does not see.         *)
LEMMA LogNext == LogInv /\ [LNext]_lVars => LogInv' /\ [Fifo!Next]_(Fifo!vars)
<1> SUFFICES ASSUME LogInv, [LNext]_lVars PROVE LogInv' /\ [Fifo!Next]_(Fifo!vars)
  OBVIOUS
<1>1. midnight \in BOOLEAN /\ died \in BOOLEAN
  BY DEF LogInv, LTypeOK
<1>2. CASE \E t \in Threads : ThreadEnds(t) \/ \E l \in Uses[t] : Log(t, l)
  BY <1>2, ThreadEndsStep, LogStep
<1>3. CASE \E p \in Posters : Post(p) \/ WakePoster(p)
  BY <1>3, WaitStep, EnqueueStep, NotifyPushStep, WakePosterStep DEF Post
<1>4. CASE Shutdown \/ Join
  BY <1>4, ShutdownStep, JoinStep
<1>5. CASE WaitForMessage \/ WakeWorker
  BY <1>1, <1>5, IdleStep DEF WaitForMessage, WakeWorker, world
<1>6. CASE Dequeue \/ NotifyPop
  BY <1>6, DequeueStep, NotifyPopStep
<1>7. CASE OpenFails \/ Open \/ Write \/ WriteFails \/ Flush \/ FlushFails
  BY <1>7, OpenFailsStep, OpenStep, WriteStep, WriteFailsStep, FlushStep, FlushFailsStep
<1>8. CASE Midnight \/ Die \/ UNCHANGED lVars
  <2>1. /\ UNCHANGED <<queue, posters, incoming, files, faults, accepted, settled, silent>>
        /\ midnight' \in BOOLEAN /\ died' \in BOOLEAN /\ pcW' = pcW
    BY <1>1, <1>8 DEF Midnight, Die, lVars, worker, world
  <2> QED BY <2>1, IdleStep
<1> QED BY <1>2, <1>3, <1>4, <1>5, <1>6, <1>7, <1>8 DEF LNext, WorkerRun

-----------------------------------------------------------------------------
(* What was queued is in the files' past, in the worker's hands or in the   *)
(* queue, once and in order; the other theorems follow from this invariant. *)
THEOREM LoggerInvariant == LSpec => []LogInv
<1>1. LInit => LogInv
  BY InitLog
<1>2. LogInv /\ [LNext]_lVars => LogInv'
  BY LogNext
<1> QED BY <1>1, <1>2, PTL DEF LSpec

(* Types: the indices of circular_q stay in it, and no more is settled than *)
(* was queued.                                                             *)
THEOREM LTypeCorrect == LSpec => []LTypeOK
<1>1. LogInv => LTypeOK
  BY DEF LogInv
<1> QED BY <1>1, LoggerInvariant, PTL

(* notify_one calls one sleeper and comes after the unlock: still nobody    *)
(* sleeps over room or a message that no call is under way for, however     *)
(* many threads log (mpmc_blocking_q.h:31-38, 82-90).                      *)
THEOREM NoCallIsLost == LSpec => []NoLostCall
<1>1. LogInv => NoLostCall
  BY DEF LogInv
<1> QED BY <1>1, LoggerInvariant, PTL

(* Without a fault a process that dies takes along only what the queue and  *)
(* the worker's hands hold (BiQTP.cpp:120-122).                            *)
THEOREM DeathCostsTheQueue == LSpec => []OnlyQueueIsLost
<1>1. LogInv => OnlyQueueIsLost
  BY DEF LogInv, KeptInv
<1> QED BY <1>1, LoggerInvariant, PTL

(* A message is lost without a throw only when it is of before a midnight   *)
(* whose new file could not be opened (daily_file_sink.h:104-120).          *)
THEOREM SilenceIsRare == LSpec => []SilentOnlyOverMidnight
<1>1. LogInv => SilentOnlyOverMidnight
  BY DEF LogInv
<1> QED BY <1>1, LoggerInvariant, PTL

(* The log is the bounded queue BiQTP.cpp:96-122 and 255 speak of: nothing  *)
(* is overrun, a file takes its messages in the order they were queued, and *)
(* the shutdown waits for all of them.                                     *)
THEOREM LoggerImplements == LSpec => Implements
<1>1. LInit => Fifo!Init
  BY InitLog
<1>2. LogInv /\ [LNext]_lVars => [Fifo!Next]_(Fifo!vars)
  BY LogNext
<1> QED BY <1>1, <1>2, LoggerInvariant, PTL DEF LSpec, Implements, Fifo!Spec
=============================================================================
