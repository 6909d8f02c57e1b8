----------------------------- MODULE ThreadBase -----------------------------
(***************************************************************************)
(* The threads of the program (src/include/ThreadBase.cpp) and main, which *)
(* starts and names them one after the other and then joins them in the    *)
(* same order (src/src/BiQTP.cpp). Each thread sets and clears its own     *)
(* m_ThreadID while main reads it, without a lock.                         *)
(*                                                                         *)
(* An m_ThreadID is 0 or 1, for the thread's own pthread_t. glibc stores   *)
(* it before the thread is made: when that fails at once, for want of a    *)
(* stack, it stays 0; when it fails later, an id is left of no thread, or  *)
(* of a thread created afterwards in the same place. What such an id does  *)
(* in a call is undefined, and every outcome is a choice of the model.     *)
(***************************************************************************)
EXTENDS Integers, Sequences, SequencesExt

CONSTANTS
  StartOrder,   \* the threads, in the order main starts and joins them
  Ending        \* those whose Run may return; in all others it loops for ever

Threads == ToSet(StartOrder)

ASSUME ThreadAssumption ==
  /\ StartOrder \in Seq(Threads) /\ StartOrder # <<>>
  /\ \A i, j \in DOMAIN StartOrder : StartOrder[i] = StartOrder[j] => i = j
  /\ Ending \subseteq Threads

VARIABLES
  m_ThreadID, m_ThreadStatus,
  pcT,      \* where each thread is; "none" before it is created
  pcMain,   \* where main is
  at        \* the thread main is starting or joining, by its place

object == <<m_ThreadID, m_ThreadStatus>>
tVars  == <<object, pcT, pcMain, at>>

THREAD_STATUS_NEW == 0
THREAD_STATUS_RUNNING == 1
THREAD_STATUS_EXIT == -1

TInit ==
  /\ m_ThreadID = [t \in Threads |-> 0]
  /\ m_ThreadStatus = [t \in Threads |-> THREAD_STATUS_NEW]
  /\ pcT = [t \in Threads |-> "none"]
  /\ pcMain = "init" /\ at = 1

-----------------------------------------------------------------------------
(* ThreadBase::run, in the thread.                                         *)

SetRunning(t) ==
  /\ pcT[t] = "created"
  /\ m_ThreadStatus' = [m_ThreadStatus EXCEPT ![t] = THREAD_STATUS_RUNNING]
  /\ pcT' = [pcT EXCEPT ![t] = "self"]
  /\ UNCHANGED <<m_ThreadID, pcMain, at>>

SetSelf(t) ==
  /\ pcT[t] = "self"
  /\ m_ThreadID' = [m_ThreadID EXCEPT ![t] = 1]
  /\ pcT' = [pcT EXCEPT ![t] = "Run"]
  /\ UNCHANGED <<m_ThreadStatus, pcMain, at>>

(* Run returns.                                                            *)
RunReturns(t) ==
  /\ pcT[t] = "Run" /\ t \in Ending
  /\ pcT' = [pcT EXCEPT ![t] = "returned"]
  /\ UNCHANGED <<object, pcMain, at>>

SetExit(t) ==
  /\ pcT[t] = "returned"
  /\ m_ThreadStatus' = [m_ThreadStatus EXCEPT ![t] = THREAD_STATUS_EXIT]
  /\ pcT' = [pcT EXCEPT ![t] = "clear"]
  /\ UNCHANGED <<m_ThreadID, pcMain, at>>

ClearID(t) ==
  /\ pcT[t] = "clear"
  /\ m_ThreadID' = [m_ThreadID EXCEPT ![t] = 0]
  /\ pcT' = [pcT EXCEPT ![t] = "exit"]
  /\ UNCHANGED <<m_ThreadStatus, pcMain, at>>

Exit(t) ==
  /\ pcT[t] = "exit"
  /\ pcT' = [pcT EXCEPT ![t] = "gone"]
  /\ UNCHANGED <<object, pcMain, at>>

run(t) ==
  \/ SetRunning(t) \/ SetSelf(t)
  \/ RunReturns(t)
  \/ SetExit(t) \/ ClearID(t) \/ Exit(t)

-----------------------------------------------------------------------------
(* main. A call with an m_ThreadID of 0 dereferences a null pointer in     *)
(* glibc: the program is gone, and every thread with it. A call with the   *)
(* id left by a failed pthread_create may do the same, or not.             *)

thread == StartOrder[at]

Dangling(t) == pcT[t] = "none" /\ m_ThreadID[t] = 1

Crash ==
  /\ m_ThreadID[thread] = 0 \/ Dangling(thread)
  /\ pcMain' = "crashed" /\ UNCHANGED at

(* On to the next thread, or to what follows when this was the last one.   *)
NextThread(same, after) ==
  /\ at' = IF at = Len(StartOrder) THEN 1 ELSE at + 1
  /\ pcMain' = IF at = Len(StartOrder) THEN after ELSE same

(* Start, which is pthread_create: it may fail, and main does not look.    *)
Start_KeepsNoID ==
  /\ pcMain = "start"
  /\ pcT' = [pcT EXCEPT ![thread] = "created"]
  /\ pcMain' = "name_test"
  /\ UNCHANGED <<object, at>>

Start ==
  /\ pcMain = "start"
  /\ \/ /\ pcT' = [pcT EXCEPT ![thread] = "created"]
        /\ m_ThreadID' = [m_ThreadID EXCEPT ![thread] = 1]
     \/ /\ UNCHANGED pcT
        /\ \E id \in {0, 1} : m_ThreadID' = [m_ThreadID EXCEPT ![thread] = id]
  /\ pcMain' = "name_test"
  /\ UNCHANGED <<m_ThreadStatus, at>>

(* SetSelfTName: the test, and the call with m_ThreadID read again.        *)
NameTest_Missing ==
  /\ pcMain = "name_test"
  /\ pcMain' = "name" /\ UNCHANGED at
  /\ UNCHANGED <<object, pcT>>

NameTest ==
  /\ pcMain = "name_test"
  /\ IF m_ThreadID[thread] > 0
     THEN pcMain' = "name" /\ UNCHANGED at
     ELSE NextThread("start", "join_test")
  /\ UNCHANGED <<object, pcT>>

Name ==
  /\ pcMain = "name"
  /\ \/ m_ThreadID[thread] = 1 /\ NextThread("start", "join_test")
     \/ Crash
  /\ UNCHANGED <<object, pcT>>

(* Join: the test, the call with m_ThreadID read again, and the waiting. An *)
(* id of no thread lets it return at once, crash, or wait: for ever, or for *)
(* the thread that was created in its place.                                *)
JoinTest ==
  /\ pcMain = "join_test"
  /\ IF m_ThreadID[thread] > 0
     THEN pcMain' = "join" /\ UNCHANGED at
     ELSE NextThread("join_test", "cleanup")
  /\ UNCHANGED <<object, pcT>>

Join ==
  /\ pcMain = "join"
  /\ \/ m_ThreadID[thread] = 1 /\ pcMain' = "wait" /\ UNCHANGED at
     \/ Dangling(thread) /\ NextThread("join_test", "cleanup")
     \/ Crash
  /\ UNCHANGED <<object, pcT>>

Joined ==
  /\ pcMain = "wait"
  /\ \E t \in Threads : pcT[t] = "gone" /\ (t = thread \/ Dangling(thread))
  /\ NextThread("join_test", "cleanup")
  /\ UNCHANGED <<object, pcT>>

(* curl_global_cleanup and spdlog::shutdown, and the end of main.          *)
Cleanup ==
  /\ pcMain = "cleanup"
  /\ pcMain' = "over"
  /\ UNCHANGED <<object, pcT, at>>

Over == pcMain \in {"over", "crashed"}

Main == Start \/ NameTest \/ Name \/ JoinTest \/ Join \/ Joined \/ Cleanup

ThreadsNext == ~Over /\ (Main \/ \E t \in Threads : run(t))

-----------------------------------------------------------------------------
MainSteps ==
  {"init", "start", "name_test", "name", "join_test", "join", "wait",
   "cleanup", "over", "crashed"}
ThreadSteps == {"none", "created", "self", "Run", "returned", "clear", "exit", "gone"}

(* Types.                                                                   *)
TTypeOK ==
  /\ m_ThreadID \in [Threads -> {0, 1}]
  /\ m_ThreadStatus \in [Threads -> {THREAD_STATUS_NEW, THREAD_STATUS_RUNNING, THREAD_STATUS_EXIT}]
  /\ pcT \in [Threads -> ThreadSteps]
  /\ pcMain \in MainSteps
  /\ at \in DOMAIN StartOrder

(* Join returns early for a thread without an id, and a thread takes and    *)
(* gives up its id itself: still libcurl and the loggers, which all threads *)
(* use, are shut down only when every Run is over, or never began           *)
(* (ThreadBase.cpp:37-43, 121-132; BiQTP.cpp:237-256).                      *)
CleanupIsLast ==
  pcMain \in {"cleanup", "over"} =>
    \A t \in Threads : pcT[t] \in {"none", "exit", "gone"}

(* m_ThreadID is tested and then read again (ThreadBase.cpp:39-41, 82-85),  *)
(* and a failed pthread_create goes unnoticed (line 31): the program only   *)
(* breaks off over an id left by such a failure, or over the id of a thread *)
(* whose Run may return and just did; never because a thread is slow, nor   *)
(* because one was not created and has no id.                               *)
CrashOnlyOnNoThread ==
  pcMain = "crashed" =>
    \/ Dangling(thread)
    \/ thread \in Ending /\ pcT[thread] \in {"exit", "gone"}
=============================================================================
