---------------------------- MODULE BiQTPProofs -----------------------------
(***************************************************************************)
(* Proofs about main and its threads, for any list of threads, any of      *)
(* which may end, and whatever BiHelper finds.                             *)
(***************************************************************************)
EXTENDS BiQTP, WellFoundedInduction, TLAPS

Alive    == {"created", "self", "Run", "returned", "clear"}
Finished == {"none", "exit", "gone"}
Joining  == {"join_test", "join", "wait"}

(* A thread has an id from its creation until it clears it, one that was    *)
(* not created may or may not, and only one whose Run may return gets       *)
(* beyond Run.                                                              *)
IdInv ==
  \A t \in Threads :
    /\ pcT[t] # "none" => m_ThreadID[t] = IF pcT[t] \in Alive THEN 1 ELSE 0
    /\ pcT[t] \in {"returned", "clear", "exit", "gone"} => t \in Ending

(* main passes a thread when it starts it, and again when its Run is over;  *)
(* it names and joins only what was created, or left an id.                *)
MainInv ==
  /\ pcMain = "init" => at = 1 /\ \A t \in Threads : pcT[t] = "none"
  /\ pcMain = "init" \/ pcH = "done"
  /\ pcMain \in {"name", "join", "wait"} => pcT[thread] # "none" \/ Dangling(thread)
  /\ pcMain \in Joining =>
       \A i \in 1 .. at - 1 : pcT[StartOrder[i]] \in Finished
  /\ pcMain \in {"cleanup", "over"} => \A t \in Threads : pcT[t] \in Finished
  /\ CrashOnlyOnNoThread

(* The threads main has not come to are not created.                       *)
StartInv ==
  \A i \in DOMAIN StartOrder :
    \/ pcMain \in {"init", "start"} /\ i >= at
    \/ pcMain \in {"name_test", "name"} /\ i > at
    => pcT[StartOrder[i]] = "none"

TInv == TTypeOK /\ IdInv /\ MainInv /\ StartInv

-----------------------------------------------------------------------------
(* A thread is at some place of the order, and places are threads.         *)
LEMMA Places ==
  /\ Len(StartOrder) \in Nat \ {0} /\ DOMAIN StartOrder = 1 .. Len(StartOrder)
  /\ \A i \in 1 .. Len(StartOrder) : StartOrder[i] \in Threads
  /\ \A t \in Threads : \E i \in 1 .. Len(StartOrder) : StartOrder[i] = t
  /\ \A i, j \in 1 .. Len(StartOrder) : StartOrder[i] = StartOrder[j] => i = j
  /\ Ending \subseteq Threads
BY ThreadAssumption DEF ThreadAssumption, Threads, ToSet

(* The first state.                                                        *)
LEMMA InitTInv == QInit => TInv
<1> SUFFICES ASSUME QInit PROVE TInv
  OBVIOUS
<1>1. TTypeOK
  BY Places DEF QInit, TInit, TTypeOK, MainSteps, ThreadSteps,
     THREAD_STATUS_NEW, THREAD_STATUS_RUNNING, THREAD_STATUS_EXIT
<1>2. IdInv
  BY DEF QInit, TInit, IdInv, Alive
<1>3. MainInv
  BY DEF QInit, TInit, MainInv, Joining, CrashOnlyOnNoThread
<1>4. StartInv
  BY Places DEF QInit, TInit, StartInv
<1> QED BY <1>1, <1>2, <1>3, <1>4 DEF TInv

(* BiHelper works while there is no thread, and touches nothing of them.   *)
LEMMA HelperTInv == TInv /\ Helper /\ UNCHANGED tVars => TInv'
<1> SUFFICES ASSUME TInv, Helper, UNCHANGED tVars PROVE TInv'
  OBVIOUS
<1>1. UNCHANGED <<m_ThreadID, m_ThreadStatus, pcT, pcMain, at>>
  BY DEF tVars, object
<1>2. pcH # "done"
  BY DEF Helper, InitSymbolIdxMap, RequestFails, RequestSucceeds,
     InitSymbolFilter, ReadFilter, Abort, FiltersRead
<1>3. TTypeOK' /\ IdInv'
  BY <1>1 DEF TInv, TTypeOK, IdInv
<1>4. MainInv'
  BY <1>1, <1>2 DEF TInv, MainInv, thread, CrashOnlyOnNoThread
<1>5. StartInv'
  BY <1>1 DEF TInv, StartInv
<1> QED BY <1>3, <1>4, <1>5 DEF TInv

(* The first thread is about to be started when BiHelper is done.          *)
LEMMA BeginTInv == TInv /\ BeginThreads => TInv'
<1> SUFFICES ASSUME TInv, BeginThreads PROVE TInv'
  OBVIOUS
<1>1. /\ UNCHANGED <<m_ThreadID, m_ThreadStatus, pcT, at, pcH>> /\ pcH = "done"
      /\ pcMain = "init" /\ pcMain' = "start"
  BY DEF BeginThreads, object, hVars
<1>2. TTypeOK' /\ IdInv'
  BY <1>1 DEF TInv, TTypeOK, IdInv, MainSteps
<1>3. MainInv'
  BY <1>1 DEF TInv, MainInv, Joining, CrashOnlyOnNoThread
<1>4. StartInv'
  BY <1>1 DEF TInv, StartInv
<1> QED BY <1>2, <1>3, <1>4 DEF TInv

(* A step of a thread.                                                     *)
LEMMA RunTInv ==
  ASSUME TInv, ~Over, NEW t \in Threads, run(t), UNCHANGED hVars
  PROVE  TInv'
<1>1. /\ UNCHANGED <<pcMain, at, pcH>>
      /\ pcT[t] # "none" /\ pcT'[t] # "none"
      /\ pcT' = [pcT EXCEPT ![t] = pcT'[t]]
      /\ pcT[t] \in Finished => pcT'[t] \in Finished
  BY DEF run, SetRunning, SetSelf, RunReturns, SetExit, ClearID, Exit, object, hVars,
     TInv, TTypeOK, Finished
<1>2. TTypeOK'
  BY DEF run, SetRunning, SetSelf, RunReturns, SetExit, ClearID, Exit, object,
     TInv, TTypeOK, ThreadSteps, THREAD_STATUS_NEW, THREAD_STATUS_RUNNING, THREAD_STATUS_EXIT
<1>3. IdInv'
  BY DEF run, SetRunning, SetSelf, RunReturns, SetExit, ClearID, Exit, object,
     TInv, TTypeOK, IdInv, Alive
<1>4. MainInv'
  <2>1. \A s \in Threads : pcT'[s] = IF s = t THEN pcT'[t] ELSE pcT[s]
    BY <1>1 DEF TInv, TTypeOK
  <2>2. \A s \in Threads : pcT[s] \in Finished => pcT'[s] \in Finished
    BY <1>1, <2>1
  <2>3. pcMain # "init" /\ pcMain \notin {"over", "crashed"}
    BY <1>1 DEF TInv, MainInv, Over
  <2>4. pcMain \in {"name", "join", "wait"} => pcT'[thread'] # "none" \/ Dangling(thread)'
    <3>1. /\ thread \in Threads /\ thread' = thread
          /\ pcT[thread] = "none" => thread # t
      BY <1>1, Places DEF TInv, TTypeOK, thread
    <3>2. \A s \in Threads : s # t => m_ThreadID'[s] = m_ThreadID[s]
      BY DEF run, SetRunning, SetSelf, RunReturns, SetExit, ClearID, Exit, object, TInv, TTypeOK
    <3>3. ASSUME pcMain \in {"name", "join", "wait"}, pcT[thread] = "none"
          PROVE  Dangling(thread)'
      <4>1. Dangling(thread)
        BY <3>3 DEF TInv, MainInv
      <4>2. pcT'[thread] = "none" /\ m_ThreadID'[thread] = 1
        BY <2>1, <3>1, <3>2, <3>3, <4>1 DEF Dangling
      <4> QED BY <3>1, <4>2 DEF Dangling
    <3>4. pcT[thread] # "none" => pcT'[thread] # "none"
      BY <1>1, <2>1, <3>1
    <3> QED BY <1>1, <3>1, <3>3, <3>4
  <2>5. pcMain \in Joining => \A i \in 1 .. at - 1 : pcT'[StartOrder[i]] \in Finished
    BY <2>2, Places DEF TInv, MainInv, TTypeOK
  <2>6. pcMain = "cleanup" => \A s \in Threads : pcT'[s] \in Finished
    BY <2>2 DEF TInv, MainInv
  <2>7. pcH = "done"
    BY <2>3 DEF TInv, MainInv
  <2> QED BY <1>1, <2>3, <2>4, <2>5, <2>6, <2>7 DEF MainInv, CrashOnlyOnNoThread
<1>5. StartInv'
  <2>1. \A s \in Threads : pcT[s] = "none" => pcT'[s] = "none"
    BY <1>1 DEF TInv, TTypeOK
  <2> QED BY <1>1, <2>1, Places DEF TInv, StartInv
<1> QED BY <1>2, <1>3, <1>4, <1>5 DEF TInv

(* Passing a thread: to the next one, or to what follows the last.         *)
LEMMA NextThreadIs ==
  ASSUME TTypeOK, NEW same, NEW after, NextThread(same, after)
  PROVE  /\ at' \in DOMAIN StartOrder
         /\ \/ at = Len(StartOrder) /\ at' = 1 /\ pcMain' = after
            \/ at' = at + 1 /\ pcMain' = same
BY Places DEF TTypeOK, NextThread

(* Starting and naming a thread.                                           *)
LEMMA StartTInv ==
  ASSUME TInv, Start \/ NameTest \/ Name, UNCHANGED hVars
  PROVE  TInv'
<1>0. /\ TTypeOK /\ at \in 1 .. Len(StartOrder) /\ thread \in Threads
      /\ pcH = "done" /\ pcH' = "done"
  BY Places DEF TInv, TTypeOK, MainInv, thread, hVars, Start, NameTest, Name
<1>1. CASE Start
  <2>1. TTypeOK'
    BY <1>0, <1>1 DEF Start, TTypeOK, MainSteps, ThreadSteps, object
  <2>2. IdInv'
    <3>1. PICK id \in {0, 1} :
            /\ m_ThreadID' = [m_ThreadID EXCEPT ![thread] = id]
            /\ \/ pcT' = [pcT EXCEPT ![thread] = "created"] /\ id = 1
               \/ pcT' = pcT
      BY <1>1 DEF Start
    <3>2. pcT[thread] = "none"
      BY <1>0, <1>1, Places DEF Start, TInv, StartInv, thread
    <3> QED BY <1>0, <3>1, <3>2 DEF TInv, TTypeOK, IdInv, Alive
  <2>3. MainInv'
    BY <1>0, <1>1 DEF Start, MainInv, Joining, CrashOnlyOnNoThread
  <2>4. StartInv'
    <3>1. \A s \in Threads : s # thread => pcT'[s] = pcT[s]
      BY <1>0, <1>1 DEF Start, TTypeOK
    <3> QED BY <1>0, <1>1, <3>1, Places DEF Start, TInv, StartInv, thread
  <2> QED BY <2>1, <2>2, <2>3, <2>4 DEF TInv
<1>2. CASE NameTest \/ Name
  <2>1. UNCHANGED <<m_ThreadID, m_ThreadStatus, pcT>>
    BY <1>2 DEF NameTest, Name, object
  <2>2. /\ at' \in DOMAIN StartOrder
        /\ pcMain' \in {"start", "join_test", "name", "crashed"}
        /\ pcMain' = "join_test" => at' = 1
        /\ pcMain' = "name" => at' = at /\ m_ThreadID[thread] > 0
        /\ pcMain' = "crashed" =>
             /\ at' = at /\ (m_ThreadID[thread] = 0 \/ Dangling(thread))
             /\ pcT[thread] # "none" \/ Dangling(thread)
    BY <1>0, <1>2, NextThreadIs DEF NameTest, Name, Crash, TInv, TTypeOK, MainInv
  <2>3. TTypeOK' /\ IdInv'
    BY <1>0, <2>1, <2>2 DEF TInv, TTypeOK, IdInv, MainSteps
  <2>4. MainInv'
    <3>1. pcMain' = "name" => pcT'[thread'] # "none" \/ Dangling(thread)'
      BY <1>0, <2>1, <2>2 DEF TTypeOK, thread, Dangling
    <3>2. pcMain' = "crashed" =>
            \/ Dangling(thread)'
            \/ thread' \in Ending /\ pcT'[thread'] \in {"exit", "gone"}
      BY <1>0, <2>1, <2>2 DEF TInv, TTypeOK, IdInv, Alive, ThreadSteps, thread, Dangling
    <3> QED BY <1>0, <2>2, <3>1, <3>2 DEF MainInv, Joining, CrashOnlyOnNoThread
  <2>5. StartInv'
    <3>1. \/ pcMain' = "name" /\ at' = at /\ pcMain = "name_test"
          \/ pcMain' = "start" /\ at' = at + 1 /\ pcMain \in {"name_test", "name"}
          \/ pcMain' \in {"join_test", "crashed"}
      BY <1>0, <1>2, <2>2, NextThreadIs DEF NameTest, Name, Crash
    <3> QED BY <1>0, <2>1, <3>1, Places DEF TInv, StartInv
  <2> QED BY <2>3, <2>4, <2>5 DEF TInv
<1> QED BY <1>1, <1>2

(* Joining a thread.                                                       *)
LEMMA JoinTInv ==
  ASSUME TInv, JoinTest \/ Join \/ Joined, UNCHANGED hVars
  PROVE  TInv'
<1>1. /\ TTypeOK /\ at \in 1 .. Len(StartOrder) /\ thread \in Threads
      /\ pcH = "done" /\ pcH' = "done"
      /\ UNCHANGED <<m_ThreadID, m_ThreadStatus, pcT>>
      /\ \A i \in 1 .. at - 1 : pcT[StartOrder[i]] \in Finished
  BY Places DEF TInv, TTypeOK, MainInv, thread, hVars, JoinTest, Join, Joined, object, Joining
<1>2. CASE pcMain' \in {"join", "wait", "crashed"} /\ at' = at
  <2>1. thread' = thread
    BY <1>2 DEF thread
  <2>2. TTypeOK' /\ IdInv'
    BY <1>1, <1>2 DEF TInv, TTypeOK, IdInv, MainSteps
  <2>3. pcT[thread] # "none" \/ Dangling(thread)
    BY <1>1, <1>2, NextThreadIs
    DEF JoinTest, Join, Joined, Crash, Dangling, TInv, TTypeOK, MainInv
  <2>4. pcMain' = "crashed" => m_ThreadID[thread] = 0 \/ Dangling(thread)
    BY <1>1, <1>2, NextThreadIs DEF JoinTest, Join, Joined, Crash
  <2>5. pcMain' = "crashed" =>
          Dangling(thread) \/ (thread \in Ending /\ pcT[thread] \in {"exit", "gone"})
    BY <1>1, <2>3, <2>4 DEF TInv, TTypeOK, IdInv, Alive, ThreadSteps
  <2>6. Dangling(thread)' <=> Dangling(thread)
    BY <1>1, <2>1 DEF Dangling
  <2>7. MainInv'
    BY <1>1, <1>2, <2>1, <2>3, <2>5, <2>6 DEF MainInv, Joining, CrashOnlyOnNoThread
  <2>8. StartInv'
    BY <1>2 DEF StartInv
  <2> QED BY <2>2, <2>7, <2>8 DEF TInv
<1>3. CASE NextThread("join_test", "cleanup") /\ pcT[thread] \in Finished
  <2>1. /\ at' \in DOMAIN StartOrder
        /\ \/ at = Len(StartOrder) /\ at' = 1 /\ pcMain' = "cleanup"
           \/ at' = at + 1 /\ pcMain' = "join_test"
    BY <1>1, <1>3, NextThreadIs
  <2>2. TTypeOK' /\ IdInv'
    BY <1>1, <2>1 DEF TInv, TTypeOK, IdInv, MainSteps
  <2>3. \A i \in 1 .. at : pcT[StartOrder[i]] \in Finished
    BY <1>1, <1>3 DEF thread
  <2>4. pcMain' = "cleanup" => \A t \in Threads : pcT[t] \in Finished
    BY <1>1, <2>1, <2>3, Places
  <2>5. pcMain' = "join_test" => \A i \in 1 .. at' - 1 : pcT[StartOrder[i]] \in Finished
    BY <1>1, <2>1, <2>3
  <2>6. MainInv'
    BY <1>1, <2>1, <2>4, <2>5 DEF MainInv, Joining, CrashOnlyOnNoThread
  <2>7. StartInv'
    BY <2>1 DEF StartInv
  <2> QED BY <2>2, <2>6, <2>7 DEF TInv
<1>4. JoinTest /\ m_ThreadID[thread] > 0 => pcMain' = "join" /\ at' = at
  BY DEF JoinTest
<1>5. JoinTest /\ ~(m_ThreadID[thread] > 0) =>
        NextThread("join_test", "cleanup") /\ pcT[thread] \in Finished
  BY <1>1 DEF JoinTest, TInv, TTypeOK, IdInv, Alive, Finished, ThreadSteps
<1>6. Join => \/ pcMain' \in {"wait", "crashed"} /\ at' = at
              \/ NextThread("join_test", "cleanup") /\ pcT[thread] \in Finished
  BY DEF Join, Crash, Dangling, Finished
<1>7. Joined => NextThread("join_test", "cleanup") /\ pcT[thread] \in Finished
  BY DEF Joined, Dangling, Finished
<1> QED BY <1>2, <1>3, <1>4, <1>5, <1>6, <1>7

(* The end of main.                                                        *)
LEMMA CleanupTInv ==
  ASSUME TInv, Cleanup, UNCHANGED hVars
  PROVE  TInv'
<1>1. UNCHANGED <<m_ThreadID, m_ThreadStatus, pcT, at, pcH>> /\ pcMain = "cleanup" /\ pcMain' = "over"
  BY DEF Cleanup, object, hVars
<1>2. TTypeOK' /\ IdInv'
  BY <1>1 DEF TInv, TTypeOK, IdInv, MainSteps
<1>3. MainInv'
  BY <1>1 DEF TInv, MainInv, Joining, CrashOnlyOnNoThread
<1>4. StartInv'
  BY <1>1 DEF StartInv
<1> QED BY <1>2, <1>3, <1>4 DEF TInv

(* Where main and every thread are, at every step from the first request   *)
(* of BiHelper to the end of the program.                                  *)
THEOREM ThreadsInvariant == QSpec => []TInv
<1>1. TInv /\ [QNext]_qVars => TInv'
  <2> SUFFICES ASSUME TInv, [QNext]_qVars PROVE TInv'
    OBVIOUS
  <2>1. CASE Helper /\ UNCHANGED tVars
    BY <2>1, HelperTInv
  <2>2. CASE BeginThreads
    BY <2>2, BeginTInv
  <2>3. CASE ThreadsNext /\ UNCHANGED hVars
    <3>1. CASE Main
      BY <2>3, <3>1, StartTInv, JoinTInv, CleanupTInv DEF Main
    <3>2. CASE \E t \in Threads : run(t)
      BY <2>3, <3>2, RunTInv DEF ThreadsNext
    <3> QED BY <2>3, <3>1, <3>2 DEF ThreadsNext
  <2>4. CASE UNCHANGED qVars
    <3>1. UNCHANGED <<m_ThreadID, m_ThreadStatus, pcT, pcMain, at, pcH>>
      BY <2>4 DEF qVars, tVars, object, hVars
    <3>2. TTypeOK' /\ IdInv'
      BY <3>1 DEF TInv, TTypeOK, IdInv
    <3>3. MainInv'
      BY <3>1 DEF TInv, MainInv, thread, Dangling, CrashOnlyOnNoThread
    <3>4. StartInv'
      BY <3>1 DEF TInv, StartInv
    <3> QED BY <3>2, <3>3, <3>4 DEF TInv
  <2> QED BY <2>1, <2>2, <2>3, <2>4 DEF QNext
<1> QED BY InitTInv, <1>1, PTL DEF QSpec

(* libcurl and the loggers are shut down when every Run is over, for any    *)
(* number of threads and any of them ending.                               *)
THEOREM CleanupComesLast == QSpec => []CleanupIsLast
<1>1. TInv => CleanupIsLast
  BY DEF TInv, MainInv, CleanupIsLast, Finished
<1> QED BY <1>1, ThreadsInvariant, PTL

(* main breaks off only over the id of no thread: one left by a failed      *)
(* pthread_create, or that of a thread whose Run has just returned.         *)
THEOREM CrashNeedsNoThread == QSpec => []CrashOnlyOnNoThread
<1>1. TInv => CrashOnlyOnNoThread
  BY DEF TInv, MainInv
<1> QED BY <1>1, ThreadsInvariant, PTL

(* No step of any thread or of BiHelper changes the shared symbols and      *)
(* rules once there is a thread.                                           *)
THEOREM SharedIsFixed == QSpec => SharedOnlyWhenFixed
<1>1. TInv /\ [QNext]_qVars
        => [(\E t \in Threads : pcT[t] # "none") => UNCHANGED <<symbols, filter>>]_qVars
  <2> SUFFICES ASSUME TInv, QNext, NEW t \in Threads, pcT[t] # "none"
               PROVE  UNCHANGED <<symbols, filter>>
    OBVIOUS
  <2>1. pcH = "done"
    BY DEF TInv, MainInv
  <2>2. ~Helper
    BY <2>1 DEF Helper, InitSymbolIdxMap, RequestFails, RequestSucceeds,
       InitSymbolFilter, ReadFilter, Abort, FiltersRead
  <2>3. UNCHANGED hVars
    BY <2>2 DEF QNext, BeginThreads
  <2> QED BY <2>3 DEF hVars
<1> QED BY <1>1, ThreadsInvariant, PTL DEF QSpec, SharedOnlyWhenFixed

-----------------------------------------------------------------------------
(* The symbols BiHelper numbers.                                           *)

(* A set of numbers that is not empty has a least one.                     *)
LEMMA LeastNumber ==
  ASSUME NEW T, T \subseteq Nat, T # {}
  PROVE  \E x \in T : \A y \in T : x <= y
<1>1. PICK x \in T : \A y \in T : ~(<<y, x>> \in OpToRel(<, Nat))
  BY NatLessThanWellFounded, WFMin, Zenon
<1>2. ASSUME NEW y \in T PROVE ~(y < x)
  <2>1. <<y, x>> \in Nat \X Nat /\ <<y, x>>[1] = y /\ <<y, x>>[2] = x
    OBVIOUS
  <2> QED BY <1>1, <2>1, Zenon DEF OpToRel
<1> QED BY <1>2

(* The loop of InitSymbolIdxMap as a function with n as its last argument.  *)
Loop(n, g) ==
  g = [m \in 0 .. n |->
         IF m = 0 THEN <<>>
         ELSE IF Traded(Listing[m]) THEN Append(g[m - 1], Listing[m]) ELSE g[m - 1]]

(* There is such a function: the least n without one would have one.       *)
LEMMA LoopExists ==
  ASSUME NEW n \in 0 .. Len(Listing)
  PROVE  \E g : Loop(n, g)
<1> DEFINE Bad == {m \in 0 .. Len(Listing) : ~\E g : Loop(m, g)}
<1>0. Len(Listing) \in Nat
  BY HelperAssumption DEF HelperAssumption
<1> SUFFICES ASSUME Bad # {} PROVE FALSE
  OBVIOUS
<1>1. PICK m \in Bad : \A k \in Bad : m <= k
  <2>1. Bad \subseteq Nat
    BY <1>0
  <2> HIDE DEF Bad
  <2> QED BY <2>1, LeastNumber
<1>2. m # 0
  <2>1. Loop(0, [k \in 0 .. 0 |-> <<>>])
    BY DEF Loop
  <2> QED BY <2>1
<1>3. m - 1 \in 0 .. Len(Listing) /\ m - 1 \notin Bad /\ m \in 1 .. Len(Listing)
  <2>1. m \in 0 .. Len(Listing)
    OBVIOUS
  <2>2. m - 1 \in 0 .. Len(Listing) /\ m \in 1 .. Len(Listing) /\ ~(m <= m - 1)
    BY <1>0, <1>2, <2>1
  <2> HIDE DEF Bad
  <2> QED BY <1>1, <2>2
<1>4. PICK g : Loop(m - 1, g)
  BY <1>3
<1> DEFINE h == [k \in 0 .. m |->
                   IF k # m THEN g[k]
                   ELSE IF Traded(Listing[m]) THEN Append(g[m - 1], Listing[m]) ELSE g[m - 1]]
           Body(f, k) == IF k = 0 THEN <<>>
                         ELSE IF Traded(Listing[k]) THEN Append(f[k - 1], Listing[k]) ELSE f[k - 1]
<1>5. ASSUME NEW k \in 0 .. m PROVE h[k] = Body(h, k)
  <2>1. CASE k = m
    <3>1. h[m - 1] = g[m - 1]
      BY <1>3
    <3> QED BY <1>2, <2>1, <3>1
  <2>2. CASE k # m
    <3>1. k \in 0 .. m - 1 /\ h[k] = g[k]
      BY <1>3, <2>2
    <3>2. g[k] = Body(g, k)
      BY <1>4, <3>1 DEF Loop
    <3>3. k # 0 => h[k - 1] = g[k - 1]
      BY <1>3, <3>1
    <3> QED BY <3>1, <3>2, <3>3
  <2> QED BY <2>1, <2>2
<1>6. h = [k \in 0 .. m |-> Body(h, k)]
  <2>1. \A k \in 0 .. m : h[k] = Body(h, k)
    BY <1>5
  <2>2. h = [k \in 0 .. m |-> h[k]]
    OBVIOUS
  <2> HIDE DEF h, Body
  <2> QED BY <2>1, <2>2
<1>7. Loop(m, h)
  <2> HIDE DEF h
  <2> QED BY <1>6 DEF Loop
<1> QED BY <1>7

(* So PairsUpTo is one.                                                    *)
LEMMA PairsUpToIs ==
  /\ PairsUpTo[0] = <<>>
  /\ \A n \in 1 .. Len(Listing) :
       PairsUpTo[n] = IF Traded(Listing[n]) THEN Append(PairsUpTo[n - 1], Listing[n])
                      ELSE PairsUpTo[n - 1]
<1>1. Len(Listing) \in Nat
  BY HelperAssumption DEF HelperAssumption
<1>2. Loop(Len(Listing), PairsUpTo)
  <2>1. PairsUpTo = CHOOSE g : Loop(Len(Listing), g)
    BY DEF PairsUpTo, Loop
  <2>2. \E g : Loop(Len(Listing), g)
    BY <1>1, LoopExists
  <2> QED BY <2>1, <2>2
<1> DEFINE f == PairsUpTo
<1> HIDE DEF f
<1>3. f = [m \in 0 .. Len(Listing) |->
             IF m = 0 THEN <<>>
             ELSE IF Traded(Listing[m]) THEN Append(f[m - 1], Listing[m]) ELSE f[m - 1]]
  BY <1>2 DEF Loop, f
<1>4. \A m \in 0 .. Len(Listing) :
        f[m] = IF m = 0 THEN <<>>
               ELSE IF Traded(Listing[m]) THEN Append(f[m - 1], Listing[m]) ELSE f[m - 1]
  BY <1>3
<1> QED BY <1>1, <1>4 DEF f

(* What the loop has collected after n tickers: each traded one once.       *)
Collected(n, pairs) ==
  /\ pairs \in Seq(Ticker)
  /\ \A i \in 1 .. Len(pairs) : \E j \in 1 .. n : Traded(Listing[j]) /\ pairs[i] = Listing[j]
  /\ \A j \in 1 .. n : Traded(Listing[j]) => \E i \in 1 .. Len(pairs) : pairs[i] = Listing[j]
  /\ \A i, k \in 1 .. Len(pairs) : pairs[i].symbol = pairs[k].symbol => i = k

LEMMA CollectNext ==
  ASSUME NEW n \in 1 .. Len(Listing), NEW pairs, Collected(n - 1, pairs)
  PROVE  Collected(n, IF Traded(Listing[n]) THEN Append(pairs, Listing[n]) ELSE pairs)
<1>1. /\ Len(Listing) \in Nat /\ n \in Nat /\ n - 1 \in Nat
      /\ Listing[n] \in Ticker /\ pairs \in Seq(Ticker)
      /\ \A j \in 1 .. n : j = n \/ j \in 1 .. n - 1
      /\ \A j \in 1 .. n - 1 : j \in 1 .. n /\ j \in DOMAIN Listing /\ j # n
      /\ n \in DOMAIN Listing
  <2>1. Listing \in Seq(Ticker)
    BY HelperAssumption DEF HelperAssumption
  <2> HIDE DEF Ticker
  <2> QED BY <2>1 DEF Collected
<1>2. CASE ~Traded(Listing[n])
  <2>1. \A i \in 1 .. Len(pairs) : \E j \in 1 .. n : Traded(Listing[j]) /\ pairs[i] = Listing[j]
    BY <1>1 DEF Collected
  <2>2. \A j \in 1 .. n : Traded(Listing[j]) => \E i \in 1 .. Len(pairs) : pairs[i] = Listing[j]
    BY <1>1, <1>2 DEF Collected
  <2> QED BY <1>2, <2>1, <2>2 DEF Collected
<1>3. CASE Traded(Listing[n])
  <2> DEFINE p == Append(pairs, Listing[n])
             l == Len(pairs)
  <2>1. /\ p \in Seq(Ticker) /\ l \in Nat /\ Len(p) = l + 1
        /\ p[l + 1] = Listing[n] /\ \A i \in 1 .. l : p[i] = pairs[i]
    <3> HIDE DEF Ticker
    <3> QED BY <1>1
  <2>2. \A i \in 1 .. Len(p) : i \in 1 .. l \/ i = l + 1
    BY <2>1
  <2>3. \A i \in 1 .. l : i \in 1 .. Len(p) /\ i # l + 1
    BY <2>1
  <2>4. l + 1 \in 1 .. Len(p)
    BY <2>1
  <2> HIDE DEF p, l, Ticker
  <2>5. ASSUME NEW i \in 1 .. Len(p)
        PROVE  \E j \in 1 .. n : Traded(Listing[j]) /\ p[i] = Listing[j]
    <3>1. CASE i = l + 1
      BY <1>1, <1>3, <2>1, <3>1
    <3>2. CASE i \in 1 .. l
      <4>1. PICK j \in 1 .. n - 1 : Traded(Listing[j]) /\ pairs[i] = Listing[j]
        BY <3>2 DEF Collected, l
      <4> QED BY <1>1, <2>1, <3>2, <4>1
    <3> QED BY <2>2, <3>1, <3>2
  <2>6. ASSUME NEW j \in 1 .. n, Traded(Listing[j])
        PROVE  \E i \in 1 .. Len(p) : p[i] = Listing[j]
    <3>1. CASE j = n
      BY <2>1, <2>4, <3>1
    <3>2. CASE j # n
      <4>1. PICK i \in 1 .. l : pairs[i] = Listing[j]
        BY <1>1, <2>6, <3>2 DEF Collected, l
      <4> QED BY <2>1, <2>3, <4>1
    <3> QED BY <3>1, <3>2
  <2>7. ASSUME NEW i \in 1 .. l, p[i].symbol = Listing[n].symbol
        PROVE  FALSE
    <3>1. PICK j \in 1 .. n - 1 : pairs[i] = Listing[j]
      BY DEF Collected, l
    <3>2. Listing[j].symbol = Listing[n].symbol
      BY <2>1, <2>7, <3>1
    <3>3. j = n
      BY <1>1, <3>2, HelperAssumption DEF HelperAssumption
    <3> QED BY <1>1, <3>3
  <2>8. ASSUME NEW i \in 1 .. Len(p), NEW k \in 1 .. Len(p), p[i].symbol = p[k].symbol
        PROVE  i = k
    <3>1. CASE i \in 1 .. l /\ k \in 1 .. l
      BY <2>1, <2>8, <3>1 DEF Collected, l
    <3>2. CASE i \in 1 .. l /\ k = l + 1
      BY <2>1, <2>7, <2>8, <3>2
    <3>3. CASE i = l + 1 /\ k \in 1 .. l
      <4>1. p[k].symbol = Listing[n].symbol
        BY <2>1, <2>8, <3>3
      <4> QED BY <2>7, <3>3, <4>1
    <3> QED BY <2>2, <3>1, <3>2, <3>3
  <2>9. Collected(n, p)
    BY <2>1, <2>5, <2>6, <2>8 DEF Collected
  <2> QED BY <1>3, <2>9 DEF p
<1> QED BY <1>2, <1>3

LEMMA CollectedUpTo ==
  ASSUME NEW n \in 0 .. Len(Listing)
  PROVE  Collected(n, PairsUpTo[n])
<1> DEFINE Bad == {m \in 0 .. Len(Listing) : ~Collected(m, PairsUpTo[m])}
<1>0. Len(Listing) \in Nat
  BY HelperAssumption DEF HelperAssumption
<1> SUFFICES ASSUME Bad # {} PROVE FALSE
  OBVIOUS
<1>1. PICK m \in Bad : \A k \in Bad : m <= k
  <2>1. Bad \subseteq Nat
    BY <1>0
  <2> HIDE DEF Bad
  <2> QED BY <2>1, LeastNumber
<1>2. m # 0
  <2>1. <<>> \in Seq(Ticker) /\ Len(<<>>) = 0
    <3> HIDE DEF Ticker
    <3> QED OBVIOUS
  <2>2. Collected(0, <<>>)
    BY <2>1 DEF Collected
  <2> QED BY <2>2, PairsUpToIs
<1>3. m - 1 \in 0 .. Len(Listing) /\ m - 1 \notin Bad /\ m \in 1 .. Len(Listing)
  <2>1. m \in 0 .. Len(Listing)
    OBVIOUS
  <2>2. m - 1 \in 0 .. Len(Listing) /\ m \in 1 .. Len(Listing) /\ ~(m <= m - 1)
    BY <1>0, <1>2, <2>1
  <2> HIDE DEF Bad
  <2> QED BY <1>1, <2>2
<1>4. Collected(m - 1, PairsUpTo[m - 1])
  BY <1>3
<1>5. Collected(m, PairsUpTo[m])
  BY <1>3, <1>4, CollectNext, PairsUpToIs
<1> QED BY <1>5

(* What is numbered: the traded symbols, each once, and not too many.       *)
LEMMA PairsAre ==
  /\ Pairs \in Seq(Ticker) /\ Len(Pairs) \in 0 .. TOTAL_SYMBOL /\ TOTAL_SYMBOL \in Nat
  /\ \A i \in 1 .. Len(Pairs) : Pairs[i].symbol \in TradedSymbols
  /\ {p.symbol : p \in ToSet(Pairs)} = TradedSymbols
  /\ \A i, k \in 1 .. Len(Pairs) : Pairs[i].symbol = Pairs[k].symbol => i = k
  /\ TradedSymbols \subseteq Symbols
<1>1. Len(Listing) \in Nat /\ DOMAIN Listing = 1 .. Len(Listing)
      /\ TOTAL_SYMBOL \in Nat /\ Len(PairsUpTo[Len(Listing)]) <= TOTAL_SYMBOL
  BY HelperAssumption DEF HelperAssumption
<1>2. Collected(Len(Listing), Pairs)
  BY <1>1, CollectedUpTo DEF Pairs
<1>3. Pairs \in Seq(Ticker) /\ Len(Pairs) \in 0 .. TOTAL_SYMBOL
  <2> HIDE DEF Ticker
  <2> QED BY <1>1, <1>2 DEF Collected, Pairs
<1>4. \A i \in 1 .. Len(Pairs) : Pairs[i].symbol \in TradedSymbols
  BY <1>1, <1>2 DEF Collected, TradedSymbols
<1>5. ASSUME NEW s \in TradedSymbols
      PROVE  \E i \in 1 .. Len(Pairs) : Pairs[i].symbol = s
  <2>1. PICK j \in 1 .. Len(Listing) : Traded(Listing[j]) /\ Listing[j].symbol = s
    BY <1>1 DEF TradedSymbols
  <2> QED BY <1>2, <2>1 DEF Collected
<1>6. DOMAIN Pairs = 1 .. Len(Pairs)
  <2> HIDE DEF Ticker
  <2> QED BY <1>3
<1>7. {p.symbol : p \in ToSet(Pairs)} = TradedSymbols
  BY <1>4, <1>5, <1>6 DEF ToSet
<1> QED BY <1>1, <1>2, <1>3, <1>4, <1>7 DEF Collected, TradedSymbols, Symbols

-----------------------------------------------------------------------------
(* The invariant of BiHelper.                                              *)

(* Nothing is numbered before the list has come, and only a request that    *)
(* failed half-way leaves a part in the buffer.                            *)
RequestInv ==
  pcH = "request" =>
    /\ DOMAIN symbol2idxUMap = {} /\ \A i \in Indices : filter[i] = NoName
    /\ mCurlBuffer # <<>> => "midway" \in ToSet(failures)

(* RulesUnlessBadFile, of the symbols InitSymbolFilter has come to.         *)
RulesInv ==
  /\ pcH = "done" => todo = {}
  /\ \A s \in DOMAIN symbol2idxUMap \ todo :
       \/ filter[symbol2idxUMap[s]] = s
       \/ file[s] # "good"
       \/ \E t \in DOMAIN symbol2idxUMap : file[t] = "bad"

HInv == HTypeOK /\ RequestInv /\ IndicesAgree /\ AllSymbolsOrNone /\ RulesInv

(* The first state.                                                        *)
LEMMA InitHInv == HInit => HInv
<1> SUFFICES ASSUME HInit PROVE HInv
  OBVIOUS
<1>1. DOMAIN symbol2idxUMap = {} /\ mCurlBuffer = <<>> /\ failures = <<>>
  BY DEF HInit
<1>2. HTypeOK
  <2>1. mCurlBuffer \in Seq({"part"}) /\ Len(mCurlBuffer) <= Len(failures)
    BY <1>1
  <2>2. failures \in Seq({"before", "midway"}) /\ Len(failures) <= MaxFailures
    BY <1>1, HelperAssumption DEF HelperAssumption
  <2> QED BY <1>1, <2>1, <2>2 DEF HInit, HTypeOK, Indices
<1>3. RequestInv
  BY <1>1 DEF HInit, RequestInv
<1>4. IndicesAgree
  BY <1>1 DEF HInit, IndicesAgree
<1>5. AllSymbolsOrNone /\ RulesInv
  BY <1>1 DEF HInit, AllSymbolsOrNone, RulesInv
<1> QED BY <1>2, <1>3, <1>4, <1>5 DEF HInv

(* A failed request.                                                       *)
LEMMA FailsHInv ==
  ASSUME HInv, NEW when \in {"before", "midway"}, RequestFails(when)
  PROVE  HInv'
<1>1. /\ pcH = "request" /\ Len(failures) < MaxFailures
      /\ failures' = Append(failures, when)
      /\ mCurlBuffer' = IF when = "midway" THEN Append(mCurlBuffer, "part") ELSE mCurlBuffer
      /\ UNCHANGED <<symbol2idxUMap, symbolName, SymbolMaxIndex, filter, pcH, todo, file, answer>>
  BY DEF RequestFails, symbols
<1>2. failures \in Seq({"before", "midway"}) /\ Len(failures) \in Nat /\ MaxFailures \in Nat
  BY HelperAssumption DEF HInv, HTypeOK, HelperAssumption
<1>3. /\ failures' \in Seq({"before", "midway"}) /\ Len(failures') = Len(failures) + 1
      /\ failures'[Len(failures) + 1] = when
      /\ \A i \in 1 .. Len(failures) : failures'[i] = failures[i]
  BY <1>1, <1>2
<1>4. mCurlBuffer' \in Seq({"part"}) /\ Len(mCurlBuffer') <= Len(failures')
  <2>1. mCurlBuffer \in Seq({"part"}) /\ Len(mCurlBuffer) \in Nat /\ Len(mCurlBuffer) <= Len(failures)
    BY DEF HInv, HTypeOK
  <2>2. /\ Append(mCurlBuffer, "part") \in Seq({"part"})
        /\ Len(Append(mCurlBuffer, "part")) = Len(mCurlBuffer) + 1
    BY <2>1
  <2> QED BY <1>1, <1>2, <1>3, <2>1, <2>2
<1>5. HTypeOK'
  <2>1. Len(failures') <= MaxFailures
    BY <1>1, <1>2, <1>3
  <2> QED BY <1>1, <1>3, <1>4, <2>1 DEF HInv, HTypeOK
<1>6. mCurlBuffer' # <<>> => "midway" \in ToSet(failures')
  <2>1. DOMAIN failures = 1 .. Len(failures) /\ DOMAIN failures' = 1 .. Len(failures) + 1
    BY <1>2, <1>3
  <2>2. when = "midway" => "midway" \in ToSet(failures')
    BY <1>2, <1>3, <2>1 DEF ToSet
  <2>3. "midway" \in ToSet(failures) => "midway" \in ToSet(failures')
    BY <1>2, <1>3, <2>1 DEF ToSet
  <2> QED BY <1>1, <2>2, <2>3 DEF HInv, RequestInv
<1>7. RequestInv' /\ IndicesAgree' /\ AllSymbolsOrNone' /\ RulesInv'
  BY <1>1, <1>6 DEF HInv, RequestInv, IndicesAgree, AllSymbolsOrNone, RulesInv
<1> QED BY <1>5, <1>7 DEF HInv

(* Numbering the pairs.                                                    *)
LEMMA NumbersAgree ==
  ASSUME HInv, pcH = "request", NumberSymbols
  PROVE  /\ DOMAIN symbol2idxUMap' = TradedSymbols
         /\ \A s \in TradedSymbols : symbol2idxUMap'[s] \in Indices
         /\ symbolName' \in [Indices -> Symbols \union {NoName}]
         /\ SymbolMaxIndex' \in Nat
         /\ \A s \in TradedSymbols : symbolName'[symbol2idxUMap'[s]] = s
         /\ TradedSymbols # {} =>
              {symbol2idxUMap'[s] : s \in TradedSymbols} = 0 .. SymbolMaxIndex'
<1> DEFINE l == Len(Pairs)
           idx(s) == CHOOSE i \in 1 .. l : Pairs[i].symbol = s
<1>1. l \in Nat /\ l <= TOTAL_SYMBOL /\ TOTAL_SYMBOL \in Nat /\ DOMAIN Pairs = 1 .. l
      /\ (Pairs = <<>> <=> l = 0)
  <2>1. Pairs \in Seq(Ticker) /\ Len(Pairs) \in 0 .. TOTAL_SYMBOL /\ TOTAL_SYMBOL \in Nat
    BY PairsAre
  <2> HIDE DEF Ticker
  <2> QED BY <2>1
<1>2. \A s \in TradedSymbols : idx(s) \in 1 .. l /\ Pairs[idx(s)].symbol = s
  <2> SUFFICES ASSUME NEW s \in TradedSymbols
               PROVE  \E i \in 1 .. l : Pairs[i].symbol = s
    OBVIOUS
  <2>1. s \in {p.symbol : p \in ToSet(Pairs)}
    BY PairsAre
  <2> QED BY <1>1, <2>1 DEF ToSet
<1>3. \A i \in 1 .. l : Pairs[i].symbol \in TradedSymbols /\ idx(Pairs[i].symbol) = i
  <2>1. \A i \in 1 .. l : Pairs[i].symbol \in TradedSymbols
    BY PairsAre
  <2>2. \A i, k \in 1 .. l : Pairs[i].symbol = Pairs[k].symbol => i = k
    BY PairsAre
  <2> HIDE DEF l, idx
  <2> QED BY <1>2, <2>1, <2>2
<1>4. symbol2idxUMap' = [s \in TradedSymbols |-> idx(s) - 1]
  <2>1. symbol2idxUMap' = [s \in {p.symbol : p \in ToSet(Pairs)} |-> idx(s) - 1]
    BY <1>1 DEF NumberSymbols
  <2> HIDE DEF idx
  <2> QED BY <2>1, PairsAre
<1>5. symbolName' = [i \in Indices |-> IF i < l THEN Pairs[i + 1].symbol ELSE NoName]
  BY DEF NumberSymbols
<1>6. SymbolMaxIndex' = IF l = 0 THEN 0 ELSE l - 1
  BY <1>1 DEF NumberSymbols
<1> HIDE DEF l, idx
<1>7. \A s \in TradedSymbols : idx(s) - 1 \in Indices /\ idx(s) - 1 < l /\ (idx(s) - 1) + 1 = idx(s)
  BY <1>1, <1>2 DEF Indices
<1>8. symbolName' \in [Indices -> Symbols \union {NoName}]
  <2>1. \A i \in Indices : i < l => i + 1 \in 1 .. l
    BY <1>1 DEF Indices
  <2>2. \A i \in Indices : i < l => Pairs[i + 1].symbol \in Symbols
    BY <1>3, <2>1, PairsAre
  <2> QED BY <1>5, <2>2
<1>9. \A s \in TradedSymbols : symbolName'[symbol2idxUMap'[s]] = s
  BY <1>2, <1>4, <1>5, <1>7
<1>10. TradedSymbols # {} => {symbol2idxUMap'[s] : s \in TradedSymbols} = 0 .. SymbolMaxIndex'
  <2> SUFFICES ASSUME TradedSymbols # {}
               PROVE  {symbol2idxUMap'[s] : s \in TradedSymbols} = 0 .. SymbolMaxIndex'
    OBVIOUS
  <2>1. l # 0 /\ SymbolMaxIndex' = l - 1
    BY <1>1, <1>2, <1>6
  <2>2. ASSUME NEW s \in TradedSymbols PROVE symbol2idxUMap'[s] \in 0 .. l - 1
    BY <1>1, <1>2, <1>4
  <2>3. ASSUME NEW k \in 0 .. l - 1 PROVE \E s \in TradedSymbols : symbol2idxUMap'[s] = k
    <3>1. k + 1 \in 1 .. l /\ (k + 1) - 1 = k
      BY <1>1
    <3> QED BY <1>3, <1>4, <3>1
  <2> QED BY <2>1, <2>2, <2>3
<1> QED BY <1>1, <1>4, <1>6, <1>7, <1>8, <1>9, <1>10

(* A request that succeeds.                                                *)
LEMMA SucceedsHInv ==
  ASSUME HInv, NEW a \in Answers, RequestSucceeds(a)
  PROVE  HInv'
<1>1. /\ pcH = "request" /\ pcH' = "filter" /\ answer' = a /\ mCurlBuffer' = <<>>
      /\ todo' = DOMAIN symbol2idxUMap' /\ UNCHANGED <<filter, file, failures>>
  BY DEF RequestSucceeds
<1>2. /\ DOMAIN symbol2idxUMap = {} /\ \A i \in Indices : filter[i] = NoName
      /\ mCurlBuffer # <<>> => "midway" \in ToSet(failures)
  BY <1>1 DEF HInv, RequestInv
<1>3. mCurlBuffer' \in Seq({"part"}) /\ Len(mCurlBuffer') <= Len(failures')
  BY <1>1 DEF HInv, HTypeOK
<1>4. RequestInv' /\ RulesInv'
  BY <1>1 DEF RequestInv, RulesInv
<1>5. CASE mCurlBuffer = <<>> /\ a = "list"
  <2>1. NumberSymbols
    BY <1>5 DEF RequestSucceeds
  <2>2. HTypeOK'
    BY <1>1, <1>3, <2>1, NumbersAgree, PairsAre DEF HInv, HTypeOK
  <2>3. IndicesAgree'
    BY <1>1, <1>2, <2>1, NumbersAgree DEF IndicesAgree
  <2>4. AllSymbolsOrNone'
    BY <1>1, <2>1, NumbersAgree DEF AllSymbolsOrNone
  <2> QED BY <1>4, <2>2, <2>3, <2>4 DEF HInv
<1>6. CASE ~(mCurlBuffer = <<>> /\ a = "list")
  <2>1. UNCHANGED <<symbol2idxUMap, symbolName, SymbolMaxIndex>>
    BY <1>6 DEF RequestSucceeds, symbols
  <2>2. HTypeOK'
    BY <1>1, <1>2, <1>3, <2>1 DEF HInv, HTypeOK
  <2>3. IndicesAgree'
    BY <1>1, <2>1 DEF HInv, IndicesAgree
  <2>4. a = "error" \/ "midway" \in ToSet(failures)
    BY <1>2, <1>6 DEF Answers
  <2>5. AllSymbolsOrNone'
    BY <1>1, <1>2, <2>1, <2>4 DEF AllSymbolsOrNone
  <2> QED BY <1>4, <2>2, <2>3, <2>5 DEF HInv
<1> QED BY <1>5, <1>6

(* A file of rules.                                                        *)
LEMMA ReadFilterHInv ==
  ASSUME HInv, NEW s, ReadFilter(s)
  PROVE  HInv'
<1> DEFINE i == symbol2idxUMap[s]
<1>1. /\ pcH = "filter" /\ s \in todo
      /\ filter' = [filter EXCEPT ![i] = IF file[s] = "good" THEN s ELSE @]
      /\ todo' = IF file[s] = "bad" THEN {} ELSE todo \ {s}
      /\ UNCHANGED <<mCurlBuffer, symbol2idxUMap, symbolName, SymbolMaxIndex, pcH, file, failures, answer>>
  BY DEF ReadFilter, symbols
<1>2. s \in DOMAIN symbol2idxUMap /\ s \in Symbols /\ i \in Indices /\ symbolName[i] = s
  BY <1>1 DEF HInv, HTypeOK, IndicesAgree
<1>3. filter \in [Indices -> Symbols \union {NoName}]
  BY DEF HInv, HTypeOK
<1> HIDE DEF i
<1>4. /\ filter' \in [Indices -> Symbols \union {NoName}]
      /\ filter'[i] = IF file[s] = "good" THEN s ELSE filter[i]
      /\ \A k \in Indices : k # i => filter'[k] = filter[k]
  BY <1>1, <1>2, <1>3
<1>5. HTypeOK'
  <2>1. todo' \subseteq DOMAIN symbol2idxUMap
    BY <1>1 DEF HInv, HTypeOK
  <2> QED BY <1>1, <1>4, <2>1 DEF HInv, HTypeOK
<1>6. RequestInv' /\ AllSymbolsOrNone'
  BY <1>1 DEF HInv, RequestInv, AllSymbolsOrNone
<1>7. IndicesAgree'
  BY <1>1, <1>2, <1>4 DEF HInv, IndicesAgree
<1>8. RulesInv'
  <2> SUFFICES ASSUME NEW r \in DOMAIN symbol2idxUMap \ todo'
               PROVE  \/ filter'[symbol2idxUMap[r]] = r
                      \/ file[r] # "good"
                      \/ \E t \in DOMAIN symbol2idxUMap : file[t] = "bad"
    BY <1>1 DEF RulesInv
  <2>1. CASE r = s
    BY <1>4, <2>1 DEF i
  <2>2. CASE r # s /\ file[s] # "bad"
    <3>1. r \in DOMAIN symbol2idxUMap \ todo
      BY <1>1, <2>2
    <3>2. symbol2idxUMap[r] \in Indices /\ symbolName[symbol2idxUMap[r]] = r
      BY DEF HInv, HTypeOK, IndicesAgree
    <3>3. filter'[symbol2idxUMap[r]] = filter[symbol2idxUMap[r]]
      BY <1>2, <1>4, <2>2, <3>2
    <3> QED BY <3>1, <3>3 DEF HInv, RulesInv
  <2>3. CASE file[s] = "bad"
    BY <1>2, <2>3
  <2> QED BY <2>1, <2>2, <2>3
<1> QED BY <1>5, <1>6, <1>7, <1>8 DEF HInv

(* The end of the program, and of InitSymbolFilter.                        *)
LEMMA EndHInv ==
  ASSUME HInv, (\E s \in Symbols : Abort(s)) \/ FiltersRead
  PROVE  HInv'
<1>1. /\ UNCHANGED <<mCurlBuffer, symbol2idxUMap, symbolName, SymbolMaxIndex, filter, todo, file, failures, answer>>
      /\ pcH = "filter" /\ (pcH' = "aborted" \/ (pcH' = "done" /\ todo = {}))
  BY DEF Abort, FiltersRead, symbols
<1>2. HTypeOK'
  BY <1>1 DEF HInv, HTypeOK
<1>3. RequestInv' /\ IndicesAgree' /\ AllSymbolsOrNone' /\ RulesInv'
  BY <1>1 DEF HInv, RequestInv, IndicesAgree, AllSymbolsOrNone, RulesInv
<1> QED BY <1>2, <1>3 DEF HInv

(* The inductive invariant of BiHelper; what comes after it leaves all of   *)
(* its state alone.                                                        *)
THEOREM HelperInvariant == QSpec => []HInv
<1>1. HInv /\ [QNext]_qVars => HInv'
  <2> SUFFICES ASSUME HInv, [QNext]_qVars PROVE HInv'
    OBVIOUS
  <2>1. CASE Helper
    BY <2>1, FailsHInv, SucceedsHInv, ReadFilterHInv, EndHInv
       DEF Helper, InitSymbolIdxMap, InitSymbolFilter
  <2>2. CASE UNCHANGED hVars
    <3>1. UNCHANGED <<mCurlBuffer, symbol2idxUMap, symbolName, SymbolMaxIndex,
                      filter, pcH, todo, file, failures, answer>>
      BY <2>2 DEF hVars, symbols
    <3> QED BY <3>1 DEF HInv, HTypeOK, RequestInv, IndicesAgree, AllSymbolsOrNone, RulesInv
  <2> QED BY <2>1, <2>2 DEF QNext, BeginThreads, qVars
<1> QED BY InitHInv, <1>1, PTL DEF QSpec, QInit

(* No symbol is numbered beyond the arrays of BiHelper, and main is never   *)
(* beyond its list of threads.                                              *)
THEOREM QTypeCorrect == QSpec => []QTypeOK
<1>1. HInv /\ TInv => QTypeOK
  BY DEF HInv, TInv, QTypeOK
<1> QED BY <1>1, HelperInvariant, ThreadsInvariant, PTL

(* The map, the arrays and SymbolMaxIndex agree for any list, whichever of  *)
(* its pairs are left out.                                                 *)
THEOREM IndicesCorrect == QSpec => []IndicesAgree
<1>1. HInv => IndicesAgree
  BY DEF HInv
<1> QED BY <1>1, HelperInvariant, PTL

(* Start-up ends with all symbols or, for a reason that is known, with      *)
(* none; and with the rules of each unless a file is bad.                  *)
THEOREM SymbolsHaveRules == QSpec => []SymbolsWithRules
<1>1. HInv => SymbolsWithRules
  BY DEF HInv, RulesInv, SymbolsWithRules, RulesUnlessBadFile
<1> QED BY <1>1, HelperInvariant, PTL
=============================================================================
