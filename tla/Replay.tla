------------------------------- MODULE Replay -------------------------------
(***************************************************************************)
(* Pipeline in both builds of the program. With _BACK_TEST_ set            *)
(* (src/src/Macro.h:13) MDReplayer takes the place of MDSocket: main lets  *)
(* it load a file of klines per symbol before any thread is started        *)
(* (src/src/BiQTP.cpp:184-190), and its thread pushes a day of them as     *)
(* fast as it can (src/src/MDReplayer.cpp).                                *)
(***************************************************************************)
EXTENDS Pipeline

CONSTANT Missing   \* of a file: it cannot be opened, or is empty

(* A day of klines is a ring of them, and fits the bound.                  *)
ASSUME ReplayAssumption == MaxTicks >= RING_SIZE

VARIABLES
  BACK_TEST,   \* _BACK_TEST_
  pcR,         \* where main is with MDReplayer, or MDReplayer::Run is
  fields,      \* how many good lines each file begins with
  i, rAt       \* the row it is at, and the symbol, by its place in Order

replayer == <<pcR, fields, i, rAt>>
rVars    == <<vars, BACK_TEST, replayer>>

RInit ==
  /\ Init
  /\ BACK_TEST \in BOOLEAN
  /\ pcR = IF BACK_TEST THEN "load" ELSE "none"
  /\ fields = [s \in Symbols |-> Missing]
  /\ i = 0 /\ rAt = 1

(* From symbol to symbol, and then to what comes after the last.           *)
NextSymbol(after) ==
  /\ rAt' = After(rAt)
  /\ pcR' = IF rAt = Len(Order) THEN after ELSE pcR

LoadHistoryMD ==
  /\ pcR = "load"
  /\ \E lines \in 0 .. RING_SIZE \union {Missing} :
       fields' = [fields EXCEPT ![Order[rAt]] = lines]
  /\ NextSymbol("run")
  /\ UNCHANGED <<vars, i>>

Push(s) ==
  /\ pushed' = [pushed EXCEPT ![s] = @ + 1]
  /\ UNCHANGED <<maCnt, adrCnt, socket, calculator, strategy, watchdog, died>>

(* Reading on behind the end of fields[..], or behind the columns of a     *)
(* line: whatever is there is pushed, or the process dies of it, as it     *)
(* does when std::stod throws, which nobody catches.                       *)
PushStray(s) ==
  \/ Push(s)
  \/ died' = TRUE /\ UNCHANGED <<rings, socket, calculator, strategy, watchdog>>

LastRow_OneLess == RING_SIZE - 2
LastRow == RING_SIZE - 1

(* Run: for each row, for each symbol. There is no sleep between pushes.   *)
ReplayRow_BySymbol ==
  /\ pcR = "run"
  /\ LET s == Order[rAt] IN
       IF fields[s] = Missing THEN UNCHANGED vars
       ELSE IF i < fields[s] THEN Push(s) ELSE PushStray(s)
  /\ i' = (i + 1) % RING_SIZE
  /\ IF i = LastRow THEN NextSymbol("over") ELSE UNCHANGED <<rAt, pcR>>
  /\ UNCHANGED fields

ReplayRow ==
  /\ pcR = "run"
  /\ LET s == Order[rAt] IN
       IF fields[s] = Missing THEN UNCHANGED vars
       ELSE IF i < fields[s] THEN Push(s) ELSE PushStray(s)
  /\ i' = IF rAt = Len(Order) THEN i + 1 ELSE i
  /\ NextSymbol(IF i = LastRow THEN "over" ELSE "run")
  /\ UNCHANGED fields

MDReplayerRun == ~died /\ (LoadHistoryMD \/ ReplayRow)

(* In the back test WatchDog reports ring 0 and keeps nothing.             *)
Feed ==
  IF BACK_TEST THEN MDReplayerRun
  ELSE ~died /\ (MDSocketRun \/ WatchDogRun) /\ UNCHANGED replayer

Running(step) == pcR # "load" /\ step /\ UNCHANGED replayer

RNext ==
  /\ UNCHANGED BACK_TEST
  /\ Feed \/ Running(CalculatorRun) \/ Running(StrategyRun)

RSpec == RInit /\ [][RNext]_rVars

(* The threads loop without a lock, as in Pipeline, and MDReplayer waits   *)
(* for nothing.                                                            *)
RFairSpec ==
  /\ RSpec
  /\ WF_rVars(MDReplayerRun /\ UNCHANGED BACK_TEST)
  /\ WF_rVars(Running(CalculatorRun) /\ UNCHANGED BACK_TEST)
  /\ WF_rVars(Running(StrategyRun) /\ UNCHANGED BACK_TEST)
-----------------------------------------------------------------------------
(* Types, those of Pipeline among them.                                     *)
RTypeOK ==
  /\ PTypeOK
  /\ BACK_TEST \in BOOLEAN /\ pcR \in {"none", "load", "run", "over"}
  /\ fields \in [Symbols -> 0 .. RING_SIZE \union {Missing}]
  /\ i \in 0 .. RING_SIZE /\ rAt \in DOMAIN Order

(* However the threads go round the symbols, what happens to one ring is    *)
(* what happens to the ring of MDRing: no call skips a tick, takes two, or  *)
(* takes one of another symbol. In the back test Calculator may be a whole  *)
(* day behind (Calculator.cpp:87-94, MDSocket.cpp:233, MDReplayer.cpp:71).  *)
RingsProgress ==
  /\ \A s \in Symbols : Progress(s, MaxLag)!Init
  /\ [][ \A s \in Symbols :
           IF BACK_TEST
           THEN [Progress(s, RING_SIZE + 1)!Next]_(Progress(s, MaxLag)!counters)
           ELSE [Progress(s, MaxLag)!Next]_(Progress(s, MaxLag)!counters) ]_rings

Given == {s \in Symbols : fields[s] # Missing}

(* The back test brings the symbols' prices of one second together, and a   *)
(* missing file leaves its own symbol out and no other; the process only    *)
(* dies of a file that is short or bad, at the row where it is              *)
(* (MDReplayer.cpp:54-82, 97-103).                                          *)
SecondsTogether ==
  BACK_TEST =>
    /\ \A s \in Symbols \ Given : pushed[s] = 0
    /\ \A s, t \in Given : pushed[s] - pushed[t] \in -1 .. 1
    /\ died => \E s \in Given : fields[s] <= pushed[s]

(* With whole files the whole day is computed and judged, although nothing  *)
(* makes MDReplayer wait for the others; of missing files only the symbols  *)
(* behind one in the hash map suffer, whom the strategies never come to     *)
(* (MDReplayer.cpp:54-82, Strategy.cpp:168-175).                            *)
DayIsJudged ==
  \A at \in DOMAIN Order :
    /\ pcR = "run"
    /\ \A s \in Given : fields[s] = RING_SIZE
    /\ \A before \in 1 .. at : Order[before] \in Given
    ~> basis[Order[at]] = RING_SIZE
=============================================================================
