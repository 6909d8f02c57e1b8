------------------------------ MODULE Pipeline ------------------------------
(***************************************************************************)
(* The way of a tick from the socket to the strategy, over all symbols:    *)
(* MDSocket pushes it, Calculator goes round the symbols and computes,     *)
(* StrategyBOX goes round the symbols and decides, WatchDog looks at how   *)
(* far every ring is (src/src/MDSocket.cpp, Calculator.cpp, Strategy.cpp,  *)
(* StrategyBOX.cpp, WatchDog.cpp).                                         *)
(*                                                                         *)
(* A ring is the three counters of RingProgress, which MDRing implements   *)
(* as long as Calculator is no more than MaxLag behind; a call of PushMD,  *)
(* CalMovingAverage or CalADRatio is one step here, and md_index, its like *)
(* and cycle_cnt are read off the counters. Rings come round.              *)
(***************************************************************************)
EXTENDS Integers, Sequences, SequencesExt, FiniteSetsExt

CONSTANTS
  Order,      \* the symbols, in the order of the hash map
  Index,      \* the number of each symbol: symbol2idxUMap
  RING_SIZE,
  Warmup,     \* the least md_index a strategy trades at in the first round
  MaxTicks,   \* bound: how many ticks are pushed to a ring
  MaxLag,     \* bound: how many ticks Calculator may be behind
  MaxDrops    \* bound: how often the connection is lost

Symbols == ToSet(Order)
SymbolMaxIndex == Len(Order) - 1

ASSUME PipelineAssumption ==
  /\ Order \in Seq(Symbols) /\ Order # <<>> /\ IsInjective(Order)
  /\ Index \in [Symbols -> 0 .. SymbolMaxIndex] /\ IsInjective(Index)
  /\ \A n \in 0 .. SymbolMaxIndex : \E s \in Symbols : Index[s] = n
  /\ RING_SIZE \in Nat /\ Warmup \in Nat /\ Warmup < RING_SIZE
  /\ MaxLag \in Nat \ {0} /\ MaxLag < RING_SIZE
  /\ MaxTicks \in Nat /\ MaxDrops \in Nat

VARIABLES
  pushed, maCnt, adrCnt,   \* the ring of each symbol
  pcM, drops,              \* MDSocket, and how often it lost its connection
  cAt, pcC,                \* Calculator: its symbol, and the call it is at
  sAt,                     \* StrategyBOX: its symbol
  basis,                   \* history: the newest tick each symbol was judged on
  wAt,                     \* WatchDog: its index
  md_index,                \* the minimum it has come to
  floor, rounds,           \* history: the smallest md_index when it began,
                           \* and the cycle_cnt of every ring
  died                     \* an assertion has failed: the process is gone

rings      == <<pushed, maCnt, adrCnt>>
socket     == <<pcM, drops>>
calculator == <<cAt, pcC>>
strategy   == <<sAt, basis>>
watchdog   == <<wAt, md_index, floor, rounds>>
vars == <<rings, socket, calculator, strategy, watchdog, died>>

(* The getters of a ring that has handled so many ticks.                   *)
GetIndex(count)    == IF count = 0 THEN -1 ELSE (count - 1) % RING_SIZE
GetCycleCnt(count) == IF count = 0 THEN 0 ELSE (count - 1) \div RING_SIZE

Rounds   == [s \in Symbols |-> GetCycleCnt(pushed[s])]
NoRounds == [s \in Symbols |-> 0]
Smallest == Min({GetIndex(pushed[s]) : s \in Symbols})
After_Past(at) == at + 1
After(at) == IF at = Len(Order) THEN 1 ELSE at + 1

Init ==
  /\ pushed = [s \in Symbols |-> 0]
  /\ maCnt = [s \in Symbols |-> 0] /\ adrCnt = [s \in Symbols |-> 0]
  /\ pcM = "connect" /\ drops = 0
  /\ cAt = 1 /\ pcC = "ma"
  /\ sAt = 1 /\ basis = [s \in Symbols |-> 0]
  /\ wAt = 0 /\ floor = -1 /\ rounds = NoRounds
  /\ md_index = RING_SIZE
  /\ died = FALSE

-----------------------------------------------------------------------------
(* MDSocket::Run. get_connection gives a connection or an error, which     *)
(* ends the thread; run returns when the connection fails, is closed, or a *)
(* handler throws.                                                         *)

Connect ==
  /\ pcM = "connect"
  /\ pcM' \in {"opening", "ended"}
  /\ UNCHANGED <<rings, drops, calculator, strategy, watchdog, died>>

OnOpen ==
  /\ pcM = "opening"
  /\ pcM' = "open"
  /\ UNCHANGED <<rings, drops, calculator, strategy, watchdog, died>>

(* OnFail, OnClose, and a price that std::stod cannot read.                *)
Drop ==
  /\ pcM \in {"opening", "open"}
  /\ drops < MaxDrops
  /\ drops' = drops + 1
  /\ pcM' = "reinit"
  /\ UNCHANGED <<rings, calculator, strategy, watchdog, died>>

(* After a second. Of what ReInit does only the reset has an effect: the   *)
(* endpoint is initialised already, and keeps its handlers.                *)
ReInit ==
  /\ pcM = "reinit"
  /\ pcM' = "connect"
  /\ UNCHANGED <<rings, drops, calculator, strategy, watchdog, died>>

(* OnMessage with a kline of a known symbol; of an unknown symbol, or one  *)
(* that is no JSON object, it changes nothing.                             *)
OnMessage(s) ==
  /\ pcM = "open"
  /\ pushed[s] < MaxTicks
  /\ pushed[s] - maCnt[s] < MaxLag /\ pushed[s] - adrCnt[s] < MaxLag
  /\ pushed' = [pushed EXCEPT ![s] = @ + 1]
  /\ UNCHANGED <<maCnt, adrCnt, socket, calculator, strategy, watchdog, died>>

(* OnMessage with an object that has no "data": looking the member up      *)
(* fails an assertion of rapidjson, which the build leaves on.             *)
OnUnexpected ==
  /\ pcM = "open"
  /\ died' = TRUE
  /\ UNCHANGED <<rings, socket, calculator, strategy, watchdog>>

MDSocketRun ==
  \/ Connect \/ OnOpen \/ Drop \/ ReInit
  \/ \E s \in Symbols : OnMessage(s)
  \/ OnUnexpected

-----------------------------------------------------------------------------
(* Calculator::CalculateLastPrice, round and round.                        *)

CalMovingAverage_All ==
  /\ pcC = "ma"
  /\ maCnt' = [maCnt EXCEPT ![Order[cAt]] = pushed[Order[cAt]]]
  /\ pcC' = "adr"
  /\ UNCHANGED <<pushed, adrCnt, cAt, socket, strategy, watchdog, died>>

CalMovingAverage ==
  /\ pcC = "ma"
  /\ LET s == Order[cAt] IN
       maCnt' = [maCnt EXCEPT ![s] = IF @ < pushed[s] THEN @ + 1 ELSE @]
  /\ pcC' = "adr"
  /\ UNCHANGED <<pushed, adrCnt, cAt, socket, strategy, watchdog, died>>

CalADRatio_Restart ==
  /\ pcC = "adr"
  /\ LET s == Order[cAt] IN
       /\ adrCnt' = [adrCnt EXCEPT ![s] = IF @ < pushed[s] THEN @ + 1 ELSE @]
       /\ cAt' = IF adrCnt[s] < pushed[s] THEN After(cAt) ELSE 1
  /\ pcC' = "ma"
  /\ UNCHANGED <<pushed, maCnt, socket, strategy, watchdog, died>>

CalADRatio ==
  /\ pcC = "adr"
  /\ LET s == Order[cAt] IN
       adrCnt' = [adrCnt EXCEPT ![s] = IF @ < pushed[s] THEN @ + 1 ELSE @]
  /\ cAt' = After(cAt)
  /\ pcC' = "ma"
  /\ UNCHANGED <<pushed, maCnt, socket, strategy, watchdog, died>>

CalculatorRun == ~died /\ (CalMovingAverage \/ CalADRatio)

-----------------------------------------------------------------------------
(* AdvancedSLR2::Run, called again and again by StrategyBOX::Run: a symbol *)
(* that is not warmed up returns from it, and the next call begins anew.   *)
(* GetADRatio reads what was computed last.                                *)

Warm(s) == GetCycleCnt(pushed[s]) > 0 \/ GetIndex(pushed[s]) >= Warmup

Judge ==
  /\ LET s == Order[sAt] IN
       /\ basis' = [basis EXCEPT ![s] = IF Warm(s) THEN adrCnt[s] ELSE @]
       /\ sAt' = IF Warm(s) THEN After(sAt) ELSE 1
  /\ UNCHANGED <<rings, socket, calculator, watchdog, died>>

StrategyRun == ~died /\ Judge

-----------------------------------------------------------------------------
(* WatchDog::Run: the scan over the indices, and the report after it. Its   *)
(* two other minima are computed from this one, and only logged.           *)

Scan_LessThan ==
  /\ wAt < SymbolMaxIndex
  /\ LET s == CHOOSE x \in Symbols : Index[x] = wAt IN
       md_index' = Min({md_index, GetIndex(pushed[s])})
  /\ floor' = IF wAt = 0 THEN Smallest ELSE floor
  /\ rounds' = IF wAt = 0 THEN Rounds ELSE rounds
  /\ wAt' = IF wAt + 1 = SymbolMaxIndex THEN SymbolMaxIndex + 1 ELSE wAt + 1
  /\ UNCHANGED <<rings, socket, calculator, strategy, died>>

Scan ==
  /\ wAt <= SymbolMaxIndex
  /\ LET s == CHOOSE x \in Symbols : Index[x] = wAt IN
       md_index' = Min({md_index, GetIndex(pushed[s])})
  /\ floor' = IF wAt = 0 THEN Smallest ELSE floor
  /\ rounds' = IF wAt = 0 THEN Rounds ELSE rounds
  /\ wAt' = wAt + 1
  /\ UNCHANGED <<rings, socket, calculator, strategy, died>>

Report ==
  /\ wAt > SymbolMaxIndex
  /\ md_index' = RING_SIZE
  /\ wAt' = 0 /\ floor' = -1 /\ rounds' = NoRounds
  /\ UNCHANGED <<rings, socket, calculator, strategy, died>>

WatchDogRun == Scan \/ Report

Next == ~died /\ (MDSocketRun \/ CalculatorRun \/ StrategyRun \/ WatchDogRun)

Spec     == Init /\ [][Next]_vars
(* Both threads loop for ever, with a sleep of 100 us and no lock.         *)
FairSpec == Spec /\ WF_vars(CalculatorRun) /\ WF_vars(StrategyRun)
-----------------------------------------------------------------------------
(* Types; WatchDog's minimum is a ring index, or RING_SIZE before the scan. *)
PTypeOK ==
  /\ pushed \in [Symbols -> 0 .. MaxTicks]
  /\ maCnt \in [Symbols -> 0 .. MaxTicks]
  /\ adrCnt \in [Symbols -> 0 .. MaxTicks]
  /\ pcM \in {"connect", "opening", "open", "reinit", "ended"}
  /\ drops \in 0 .. MaxDrops
  /\ cAt \in DOMAIN Order /\ pcC \in {"ma", "adr"}
  /\ sAt \in DOMAIN Order /\ basis \in [Symbols -> 0 .. MaxTicks]
  /\ wAt \in 0 .. SymbolMaxIndex + 1
  /\ md_index \in -1 .. RING_SIZE
  /\ floor \in -1 .. RING_SIZE /\ rounds \in [Symbols -> 0 .. MaxTicks]
  /\ died \in BOOLEAN

Progress(s, lag) == INSTANCE RingProgress WITH MaxLag <- lag,
  pushed <- pushed[s], maCnt <- maCnt[s], adrCnt <- adrCnt[s]

(* Once all symbols are warmed up, which they stay when a ring comes round, *)
(* the strategies come to judge each on the newest tick that was pushed: no *)
(* symbol waits for another that is quiet, and none for the connection, be  *)
(* it lost or ended for good (Calculator.cpp:87-94, Strategy.cpp:166-234,   *)
(* MDSocket.cpp:91-131). MaxTicks ends the pushing.                         *)
TickReachesStrategy ==
  \A s \in Symbols :
    (\A x \in Symbols : Warm(x)) ~> basis[s] = pushed[s] \/ died

(* The MDIndex of a report (WatchDog.cpp:78-88) is that of no moment, since *)
(* the rings are read one after the other, and falls back when a ring comes *)
(* round (MDRing.cpp:69-75): no ring that has not done so since the scan    *)
(* began is behind the report, and the report is only behind where the last *)
(* ring was when the scan began if a ring has come round since.             *)
SameRound == {s \in Symbols : GetCycleCnt(pushed[s]) = rounds[s]}

ReportOfScan ==
  wAt > SymbolMaxIndex =>
    /\ \A s \in SameRound : md_index <= GetIndex(pushed[s])
    /\ SameRound = Symbols => floor <= md_index
=============================================================================
