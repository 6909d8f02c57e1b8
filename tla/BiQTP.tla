------------------------------- MODULE BiQTP --------------------------------
(***************************************************************************)
(* main (src/src/BiQTP.cpp): the symbols and their rules are read first,   *)
(* then the threads are started, which use them without a lock.            *)
(***************************************************************************)
EXTENDS BiHelper, ThreadBase

qVars == <<hVars, tVars>>

QInit == HInit /\ TInit

(* From BiHelper on to the first thread.                                   *)
BeginThreads_Early ==
  /\ pcMain = "init" /\ pcH # "request"
  /\ pcMain' = "start"
  /\ UNCHANGED <<hVars, object, pcT, at>>

BeginThreads ==
  /\ pcMain = "init" /\ pcH = "done"
  /\ pcMain' = "start"
  /\ UNCHANGED <<hVars, object, pcT, at>>

QNext ==
  \/ Helper /\ UNCHANGED tVars
  \/ BeginThreads
  \/ ThreadsNext /\ UNCHANGED hVars

QSpec == QInit /\ [][QNext]_qVars

-----------------------------------------------------------------------------
(* Types of both parts.                                                     *)
QTypeOK == HTypeOK /\ TTypeOK

(* symbol2idxUMap, the rules of the symbols and SymbolMaxIndex are read by  *)
(* every thread without a lock: none of them changes once there is a thread *)
(* (BiQTP.cpp:160-176).                                                     *)
SharedOnlyWhenFixed ==
  [][ (\E t \in Threads : pcT[t] # "none") => UNCHANGED <<symbols, filter>> ]_qVars
=============================================================================
