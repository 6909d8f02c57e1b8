---------------------------- MODULE AsyncLogger -----------------------------
(***************************************************************************)
(* The log of the program: the threads post to a queue, one worker writes  *)
(* the files (src/lib/spdlog: async_logger, thread_pool,                   *)
(* mpmc_blocking_queue, circular_q, daily_file_sink, file_helper), set up  *)
(* and shut down by main (src/src/BiQTP.cpp:96-122, 237-256): both loggers *)
(* share the queue, wait when it is full, and flush after each message.    *)
(*                                                                         *)
(* What is done under queue_mutex_ is one step, and each notify_one, which *)
(* is called after the unlock, another. Of the days only one midnight      *)
(* counts: a message is stamped before it or after it.                     *)
(***************************************************************************)
EXTENDS Integers, Sequences, FiniteSets

CONSTANTS
  Threads,     \* those that log
  Loggers,
  Uses,        \* the loggers each thread logs to
  MaxItems,    \* the size of the queue: init_thread_pool(1024*128, 1)
  MaxPosts,    \* bound: how often a thread logs
  MaxFaults    \* bound: how often a call for a file fails

ASSUME LoggerAssumption ==
  /\ IsFiniteSet(Threads) /\ "main" \notin Threads
  /\ Uses \in [Threads -> SUBSET Loggers]
  /\ MaxItems \in Nat \ {0} /\ MaxPosts \in Nat /\ MaxFaults \in Nat

VARIABLES
  v_, head_, tail_, overrun_counter_,   \* q_, a circular_q
  pcP,        \* where each poster is, main among them
  item,       \* the message it is posting
  posts,      \* how often each thread has logged
  pcW,        \* where the worker of the pool is
  incoming,   \* the message it has taken
  isOpen,     \* whether each file is open: fd_
  rotated,    \* whether rotation_tp_ is behind the midnight
  kept,       \* what was written to each file
  saved,      \* how much of that the flushes have brought to the disk
  midnight, died, faults,
  accepted, settled, silent   \* history: queued, through, lost without a throw

queue   == <<v_, head_, tail_, overrun_counter_>>
posters == <<pcP, item, posts>>
worker  == <<pcW, incoming>>
files   == <<isOpen, rotated, kept, saved>>
world   == <<midnight, died, faults>>
lVars   == <<queue, posters, worker, files, world, accepted, settled, silent>>

Posters == Threads \union {"main"}
Message == [by : Threads, n : 1 .. MaxPosts, to : Loggers, late : BOOLEAN]
None      == [by |-> "none"]   \* in a slot whose message was moved out
Terminate == [by |-> "main"]

(* One slot more than max_items, the mark of a full queue.                 *)
max_items_ == MaxItems + 1
Slots      == 0 .. MaxItems
Succ_NoWrap(i) == i + 1
Succ(i)    == (i + 1) % max_items_
size  == IF tail_ >= head_ THEN tail_ - head_ ELSE max_items_ - (head_ - tail_)
empty == tail_ = head_
full  == Succ(tail_) = head_

LInit ==
  /\ v_ = [i \in Slots |-> None] /\ head_ = 0 /\ tail_ = 0 /\ overrun_counter_ = 0
  /\ pcP = [p \in Posters |-> "work"]
  /\ item = [p \in Posters |-> None]
  /\ posts = [t \in Threads |-> 0]
  /\ pcW = "lock" /\ incoming = None
  /\ isOpen = [l \in Loggers |-> TRUE] /\ rotated = [l \in Loggers |-> FALSE]
  /\ kept = [l \in Loggers |-> <<>>] /\ saved = [l \in Loggers |-> 0]
  /\ midnight = FALSE /\ died = FALSE /\ faults = 0
  /\ accepted = <<>> /\ settled = 0 /\ silent = {}

-----------------------------------------------------------------------------
(* A thread logs: log_msg takes the time, sink_it_ posts it to the pool.   *)
Log(t, l) ==
  /\ pcP[t] = "work" /\ posts[t] < MaxPosts
  /\ posts' = [posts EXCEPT ![t] = @ + 1]
  /\ item' = [item EXCEPT ![t] = [by |-> t, n |-> posts[t] + 1, to |-> l, late |-> midnight]]
  /\ pcP' = [pcP EXCEPT ![t] = "lock"]
  /\ UNCHANGED <<queue, worker, files, world, accepted, settled, silent>>

ThreadEnds(t) ==
  /\ pcP[t] = "work"
  /\ pcP' = [pcP EXCEPT ![t] = "done"]
  /\ UNCHANGED <<queue, item, posts, worker, files, world, accepted, settled, silent>>

(* main has joined them all; registry::shutdown destroys the pool, which   *)
(* has one worker to tell.                                                 *)
Shutdown ==
  /\ pcP["main"] = "work" /\ \A t \in Threads : pcP[t] = "done"
  /\ item' = [item EXCEPT !["main"] = Terminate]
  /\ pcP' = [pcP EXCEPT !["main"] = "lock"]
  /\ UNCHANGED <<queue, posts, worker, files, world, accepted, settled, silent>>

(* enqueue: pop_cv_.wait, then circular_q::push_back, which overruns the   *)
(* oldest message when there is no room.                                   *)
Wait(p) ==
  /\ pcP[p] = "lock" /\ full
  /\ pcP' = [pcP EXCEPT ![p] = "asleep"]
  /\ UNCHANGED <<queue, item, posts, worker, files, world, accepted, settled, silent>>

push_back(x) ==
  /\ v_' = [v_ EXCEPT ![tail_] = x]
  /\ tail_' = Succ(tail_)
  /\ IF tail_' = head_
     THEN head_' = Succ(head_) /\ overrun_counter_' = overrun_counter_ + 1
     ELSE UNCHANGED <<head_, overrun_counter_>>

Push(p) ==
  /\ push_back(item[p])
  /\ accepted' = IF item[p] = Terminate THEN accepted ELSE Append(accepted, item[p])
  /\ pcP' = [pcP EXCEPT ![p] = "notify"]
  /\ UNCHANGED <<item, posts, worker, files, world, settled, silent>>

Enqueue_Nowait(p) ==
  /\ pcP[p] = "lock"
  /\ Push(p)

Enqueue(p) ==
  /\ pcP[p] = "lock" /\ ~full
  /\ Push(p)

(* push_cv_.notify_one; main goes on to join the worker.                   *)
NotifyPush_OtherCv(p) ==
  /\ pcP[p] = "notify"
  /\ UNCHANGED pcW
  /\ LET called == {q \in Posters : pcP[q] = "asleep"} IN
     \E q \in called \union {p} :
       pcP' = [pcP EXCEPT ![q] = "lock", ![p] = IF p = "main" THEN "join" ELSE "work"]
  /\ UNCHANGED <<queue, item, posts, incoming, files, world, accepted, settled, silent>>

NotifyPush(p) ==
  /\ pcP[p] = "notify"
  /\ pcW' = IF pcW = "asleep" THEN "lock" ELSE pcW
  /\ pcP' = [pcP EXCEPT ![p] = IF p = "main" THEN "join" ELSE "work"]
  /\ UNCHANGED <<queue, item, posts, incoming, files, world, accepted, settled, silent>>

Join ==
  /\ pcP["main"] = "join" /\ pcW = "gone"
  /\ pcP' = [pcP EXCEPT !["main"] = "over"]
  /\ UNCHANGED <<queue, item, posts, worker, files, world, accepted, settled, silent>>

(* A wait may return with no call: it tests its condition again.           *)
WakePoster(p) ==
  /\ pcP[p] = "asleep"
  /\ pcP' = [pcP EXCEPT ![p] = "lock"]
  /\ UNCHANGED <<queue, item, posts, worker, files, world, accepted, settled, silent>>

-----------------------------------------------------------------------------
(* The worker: dequeue, and what process_next_msg_ does with the message.  *)

WaitForMessage ==
  /\ pcW = "lock" /\ empty
  /\ pcW' = "asleep"
  /\ UNCHANGED <<queue, posters, incoming, files, world, accepted, settled, silent>>

WakeWorker ==
  /\ pcW = "asleep"
  /\ pcW' = "lock"
  /\ UNCHANGED <<queue, posters, incoming, files, world, accepted, settled, silent>>

Dequeue ==
  /\ pcW = "lock" /\ ~empty
  /\ incoming' = v_[head_]
  /\ v_' = [v_ EXCEPT ![head_] = None]
  /\ head_' = Succ(head_)
  /\ pcW' = "notify"
  /\ UNCHANGED <<tail_, overrun_counter_, posters, files, world, accepted, settled, silent>>

Asleep == {p \in Posters : pcP[p] = "asleep"}

NotifyPop_Forgotten ==
  /\ pcW = "notify"
  /\ UNCHANGED pcP
  /\ pcW' = IF incoming = Terminate THEN "gone" ELSE "sink"
  /\ UNCHANGED <<queue, item, posts, incoming, files, world, accepted, settled, silent>>

NotifyPop ==
  /\ pcW = "notify"
  /\ IF Asleep = {} THEN UNCHANGED pcP
     ELSE \E p \in Asleep : pcP' = [pcP EXCEPT ![p] = "lock"]
  /\ pcW' = IF incoming = Terminate THEN "gone" ELSE "sink"
  /\ UNCHANGED <<queue, item, posts, incoming, files, world, accepted, settled, silent>>

file == incoming.to
ShouldRotate == incoming.late /\ ~rotated[file]

(* A call that fails throws: the message is lost, and the flush follows.   *)
Fault ==
  /\ faults < MaxFaults
  /\ faults' = faults + 1 /\ UNCHANGED <<midnight, died>>

Settled ==
  /\ settled' = settled + 1
  /\ pcW' = "flush"

(* daily_file_sink::sink_it_: the first message after midnight closes the  *)
(* file and opens that of its day; rotation_tp_ is set when it is open.    *)
OpenFails_RotatedFirst ==
  /\ pcW = "sink" /\ ShouldRotate
  /\ Fault
  /\ isOpen' = [isOpen EXCEPT ![file] = FALSE]
  /\ rotated' = [rotated EXCEPT ![file] = TRUE]
  /\ saved' = [saved EXCEPT ![file] = Len(kept[file])]
  /\ Settled
  /\ UNCHANGED <<queue, posters, incoming, kept, accepted, silent>>

OpenFails ==
  /\ pcW = "sink" /\ ShouldRotate
  /\ Fault
  /\ isOpen' = [isOpen EXCEPT ![file] = FALSE]
  /\ saved' = [saved EXCEPT ![file] = Len(kept[file])]
  /\ Settled
  /\ UNCHANGED <<queue, posters, incoming, rotated, kept, accepted, silent>>

Open ==
  /\ pcW = "sink" /\ ShouldRotate
  /\ isOpen' = [isOpen EXCEPT ![file] = TRUE]
  /\ rotated' = [rotated EXCEPT ![file] = TRUE]
  /\ saved' = [saved EXCEPT ![file] = Len(kept[file])]
  /\ pcW' = "write"
  /\ UNCHANGED <<queue, posters, incoming, world, kept, accepted, settled, silent>>

(* file_helper::write; it does nothing when there is no open file.         *)
AtWrite == pcW = "write" \/ (pcW = "sink" /\ ~ShouldRotate)

Write ==
  /\ AtWrite
  /\ IF isOpen[file]
     THEN kept' = [kept EXCEPT ![file] = Append(@, incoming)] /\ UNCHANGED silent
     ELSE silent' = silent \union {incoming} /\ UNCHANGED kept
  /\ Settled
  /\ UNCHANGED <<queue, posters, incoming, isOpen, rotated, saved, world, accepted>>

WriteFails ==
  /\ AtWrite /\ isOpen[file]
  /\ Fault
  /\ Settled
  /\ UNCHANGED <<queue, posters, incoming, files, accepted, silent>>

(* backend_flush_, since flush_on(trace): fflush of the file, or, when it  *)
(* is not open, of all files.                                              *)
Flush_Never ==
  /\ pcW = "flush"
  /\ pcW' = "lock"
  /\ UNCHANGED <<queue, posters, incoming, files, world, accepted, settled, silent>>

Flush ==
  /\ pcW = "flush"
  /\ saved' = [l \in Loggers |-> IF l = file \/ ~isOpen[file] THEN Len(kept[l]) ELSE saved[l]]
  /\ pcW' = "lock"
  /\ UNCHANGED <<queue, posters, incoming, isOpen, rotated, kept, world, accepted, settled, silent>>

FlushFails ==
  /\ pcW = "flush"
  /\ Fault
  /\ pcW' = "lock"
  /\ UNCHANGED <<queue, posters, incoming, files, accepted, settled, silent>>

-----------------------------------------------------------------------------
Midnight ==
  /\ ~midnight
  /\ midnight' = TRUE
  /\ UNCHANGED <<queue, posters, worker, files, died, faults, accepted, settled, silent>>

(* A signal, or a failed assertion of some thread, ends the process; what  *)
(* is not flushed is lost.                                                 *)
Die ==
  /\ died' = TRUE
  /\ UNCHANGED <<queue, posters, worker, files, midnight, faults, accepted, settled, silent>>

Post(p)  == Wait(p) \/ Enqueue(p) \/ NotifyPush(p)
WorkerRun ==
  \/ WaitForMessage \/ Dequeue \/ NotifyPop
  \/ OpenFails \/ Open \/ Write \/ WriteFails \/ Flush \/ FlushFails

LNext ==
  /\ ~died
  /\ \/ \E t \in Threads : ThreadEnds(t) \/ \E l \in Uses[t] : Log(t, l)
     \/ \E p \in Posters : Post(p) \/ WakePoster(p)
     \/ Shutdown \/ Join
     \/ WorkerRun \/ WakeWorker
     \/ Midnight \/ Die

LSpec == LInit /\ [][LNext]_lVars
(* Who holds the mutex lets it go, and who was called gets it; a thread    *)
(* need not log, and no wait returns of itself.                            *)
LFairSpec ==
  /\ LSpec
  /\ WF_lVars(~died /\ WorkerRun) /\ WF_lVars(~died /\ Join)
  /\ \A p \in Posters : WF_lVars(~died /\ Post(p))
-----------------------------------------------------------------------------
(* Types; a ring slot outside the queue holds a message that was moved out. *)
LTypeOK ==
  /\ v_ \in [Slots -> Message \union {None, Terminate}]
  /\ head_ \in Slots /\ tail_ \in Slots /\ overrun_counter_ \in Nat
  /\ pcP \in [Posters -> {"work", "lock", "asleep", "notify", "done", "join", "over"}]
  /\ item \in [Posters -> Message \union {None, Terminate}]
  /\ posts \in [Threads -> 0 .. MaxPosts]
  /\ pcW \in {"lock", "asleep", "notify", "sink", "write", "flush", "gone"}
  /\ incoming \in Message \union {None, Terminate}
  /\ isOpen \in [Loggers -> BOOLEAN] /\ rotated \in [Loggers -> BOOLEAN]
  /\ kept \in [Loggers -> Seq(Message)] /\ saved \in [Loggers -> Nat]
  /\ midnight \in BOOLEAN /\ died \in BOOLEAN /\ faults \in 0 .. MaxFaults
  /\ accepted \in Seq(Message) /\ settled \in 0 .. Len(accepted)
  /\ silent \subseteq Message

Fifo == INSTANCE LogFifo WITH
  Capacity <- MaxItems + 1,
  posted   <- [t \in Threads |-> posts[t] - (IF pcP[t] \in {"lock", "asleep"} THEN 1 ELSE 0)],
  closed   <- pcP["main"] = "over"

(* The block policy keeps what BiQTP.cpp:98 and 108 say of it: whichever    *)
(* thread comes first, nothing is overrun in circular_q, each file takes    *)
(* its messages in the order they were queued, and spdlog::shutdown, which  *)
(* BiQTP.cpp:255 says waits for all of them, does.                          *)
Implements == Fifo!Spec

(* notify_one calls one sleeper and comes after the unlock: still nobody    *)
(* sleeps over room or a message that no call is under way for              *)
(* (mpmc_blocking_q.h:31-38, 82-90).                                        *)
NoLostCall ==
  /\ Asleep # {} =>
       MaxItems - size <= Cardinality({p \in Posters : pcP[p] = "lock"})
                          + (IF pcW = "notify" THEN 1 ELSE 0)
  /\ pcW = "asleep" => size <= Cardinality({p \in Posters : pcP[p] = "notify"})

(* When the process dies, a file lacks only what is in the queue or in the  *)
(* worker's hands, if no call for a file has failed (BiQTP.cpp:120-122).    *)
OnlyQueueIsLost ==
  faults = 0 =>
    LET flushed == IF pcW = "flush" THEN settled - 1 ELSE settled IN
    \A l \in Loggers :
      Cardinality({i \in 1 .. flushed : accepted[i].to = l}) <= saved[l]

(* file_helper::write says nothing when its file is not open: this costs    *)
(* only messages of before midnight that come after one whose new file      *)
(* could not be opened, for each later one tries again                      *)
(* (daily_file_sink.h:104-120, file_helper-inl.h:100-107).                  *)
SilentOnlyOverMidnight == \A m \in silent : ~m.late /\ faults > 0

(* A thread that logs goes on, be the queue full or not, and main ends:     *)
(* with what the others have to log no longer arriving                      *)
(* (mpmc_blocking_q.h:31-38, thread_pool-inl.h:45-56).                      *)
PostReturns ==
  \A p \in Posters : pcP[p] = "lock" ~> pcP[p] \in {"work", "done", "over"} \/ died
=============================================================================
