------------------------------- MODULE MDRing -------------------------------
(***************************************************************************)
(* The market-data ring of one symbol (src/src/MDRing.cpp) and the two     *)
(* threads that write to it without a lock: MDSocket, whose OnMessage      *)
(* calls PushMD once per kline message, and Calculator, whose              *)
(* CalculateLastPrice calls CalMovingAverage and then CalADRatio.          *)
(*                                                                         *)
(* Every access to a shared member is a step of its own, in program order. *)
(* Ticks are numbered from 1 in the order they are pushed; a slot of       *)
(* price[] holds the number of the tick that wrote it, 0 when none did.    *)
(* A running total is the formal sum of the prices added to it and         *)
(* subtracted from it; a ratio is the pair of ticks it compares.           *)
(***************************************************************************)
EXTENDS Integers, Sequences

CONSTANTS
  RING_SIZE,    \* slots of a ring
  MAInterval,   \* the look-back of each moving average (5m, 25m, 100m)
  ADRInterval,  \* the look-back of each ratio (30s, 1m, ..., 60m)
  MaxTicks,     \* bound: how many ticks are ever pushed
  MaxLag        \* bound: how many ticks Calculator may be behind

MAs    == DOMAIN MAInterval
ADRs   == DOMAIN ADRInterval
Ticks  == 0 .. MaxTicks
Slots  == 0 .. RING_SIZE - 1

(***************************************************************************)
(* MaxLag is the one assumption about timing: a tick comes about once a    *)
(* second and Calculator handles one per millisecond, and the bound        *)
(* allowed here, RING_SIZE minus the longest look-back, is 22 hours of     *)
(* ticks with the constants of Macro.h.                                    *)
(***************************************************************************)
ASSUME RingAssumption ==
  /\ RING_SIZE \in Nat \ {0}
  /\ MaxTicks \in Nat
  /\ MaxLag \in Nat \ {0}
  /\ MAInterval \in Seq(Nat \ {0}) /\ Len(MAInterval) > 0
  /\ ADRInterval \in Seq(Nat \ {0}) /\ Len(ADRInterval) > 0
  /\ \A a \in MAs : MaxLag + MAInterval[a] <= RING_SIZE
  /\ \A r \in ADRs : MaxLag + ADRInterval[r] <= RING_SIZE

VARIABLES
  price, md_index, cycle_cnt,   \* written by PushMD
  cal_ma_index, mt, ma,         \* written by CalMovingAverage
  cal_adr_index, adr,           \* written by CalADRatio
  pcW,                          \* where PushMD is
  pcC,                          \* where Calculator is
  k,                            \* the average or ratio it is at
  wrapped,                      \* what its test of cycle_cnt found
  pushed, maCnt, adrCnt         \* history: ticks handled by each

ring    == <<price, md_index, cycle_cnt>>
average == <<cal_ma_index, mt, ma>>
ratio   == <<cal_adr_index, adr>>
local   == <<pcC, k, wrapped>>
vars    == <<ring, average, ratio, local, pcW, pushed, maCnt, adrCnt>>

(* Definitions whose name has an underscore are bugs this code could have,  *)
(* each before the definition it would replace; no specification uses them. *)
Succ_Short(i)    == (i + 1) % (RING_SIZE - 1)
Succ(i)          == (i + 1) % RING_SIZE
Behind(i, steps) == IF i >= steps THEN i - steps ELSE RING_SIZE - steps + i
Slot(t)          == (t - 1) % RING_SIZE

ZeroSum == [t \in Ticks |-> 0]
NoRatio == [cur |-> 0, old |-> 0]

Init ==
  /\ price = [i \in Slots |-> 0]
  /\ md_index = -1 /\ cycle_cnt = 0
  /\ cal_ma_index = -1 /\ cal_adr_index = -1
  /\ mt = [a \in MAs |-> ZeroSum]
  /\ ma = [a \in MAs |-> [i \in Slots |-> ZeroSum]]
  /\ adr = [r \in ADRs |-> [i \in Slots |-> NoRatio]]
  /\ pcW = "idle" /\ pcC = "ma_test"
  /\ k = 1 /\ wrapped = FALSE
  /\ pushed = 0 /\ maCnt = 0 /\ adrCnt = 0

-----------------------------------------------------------------------------
(* MDRing::PushMD, one step per shared member it writes; volume[] and      *)
(* amount[] are written with price[] and never read.                       *)

PushPrice ==
  /\ pcW = "idle"
  /\ pushed < MaxTicks
  /\ pushed - maCnt < MaxLag /\ pushed - adrCnt < MaxLag
  /\ price' = [price EXCEPT ![Succ(md_index)] = pushed + 1]
  /\ pcW' = "cycle"
  /\ UNCHANGED <<md_index, cycle_cnt, average, ratio, local, pushed, maCnt, adrCnt>>

PushCycle ==
  /\ pcW = "cycle"
  /\ cycle_cnt' = IF md_index + 1 = RING_SIZE THEN cycle_cnt + 1 ELSE cycle_cnt
  /\ pcW' = "index"
  /\ UNCHANGED <<price, md_index, average, ratio, local, pushed, maCnt, adrCnt>>

PushIndex ==
  /\ pcW = "index"
  /\ md_index' = Succ(md_index)
  /\ pushed' = pushed + 1
  /\ pcW' = "idle"
  /\ UNCHANGED <<price, cycle_cnt, average, ratio, local, maCnt, adrCnt>>

PushMD_CycleLast ==
  \/ PushPrice
  \/ /\ pcW = "cycle"
     /\ md_index' = Succ(md_index)
     /\ pushed' = pushed + 1
     /\ pcW' = "index"
     /\ UNCHANGED <<price, cycle_cnt, average, ratio, local, maCnt, adrCnt>>
  \/ /\ pcW = "index"
     /\ cycle_cnt' = IF md_index = 0 /\ pushed > 1 THEN cycle_cnt + 1 ELSE cycle_cnt
     /\ pcW' = "idle"
     /\ UNCHANGED <<price, md_index, average, ratio, local, pushed, maCnt, adrCnt>>

PushMD == PushPrice \/ PushCycle \/ PushIndex

-----------------------------------------------------------------------------
(* MDRing::CalMovingAverage: add the next tick to every total, then take   *)
(* off the tick that leaves each window and store the average.             *)

MaTest_Ordered ==
  /\ pcC = "ma_test"
  /\ pcC' = IF cal_ma_index >= md_index THEN "adr_test" ELSE "ma_add"
  /\ k' = 1
  /\ UNCHANGED <<ring, average, ratio, wrapped, pcW, pushed, maCnt, adrCnt>>

MaTest ==
  /\ pcC = "ma_test"
  /\ pcC' = IF cal_ma_index = md_index THEN "adr_test" ELSE "ma_add"
  /\ k' = 1
  /\ UNCHANGED <<ring, average, ratio, wrapped, pcW, pushed, maCnt, adrCnt>>

MaAdd ==
  /\ pcC = "ma_add"
  /\ mt' = [mt EXCEPT ![k][price[Succ(cal_ma_index)]] = @ + 1]
  /\ IF k < Len(MAInterval) THEN k' = k + 1 /\ pcC' = pcC
                            ELSE k' = 1     /\ pcC' = "ma_cycle"
  /\ UNCHANGED <<ring, cal_ma_index, ma, ratio, wrapped, pcW, pushed, maCnt, adrCnt>>

MaCycle ==
  /\ pcC = "ma_cycle"
  /\ wrapped' = (cycle_cnt # 0)
  /\ pcC' = "ma_window"
  /\ UNCHANGED <<ring, average, ratio, k, pcW, pushed, maCnt, adrCnt>>

MaWindow_Late ==
  /\ pcC = "ma_window"
  /\ LET next == Succ(cal_ma_index)
         out  == price[Behind(next, MAInterval[k])]
         sum  == [mt[k] EXCEPT ![out] = @ - 1]
     IN  IF wrapped \/ next > MAInterval[k]
         THEN /\ mt' = [mt EXCEPT ![k] = sum]
              /\ ma' = [ma EXCEPT ![k][next] = sum]
         ELSE UNCHANGED <<mt, ma>>
  /\ IF k < Len(MAInterval) THEN k' = k + 1 /\ pcC' = pcC
                            ELSE k' = 1     /\ pcC' = "ma_publish"
  /\ UNCHANGED <<ring, cal_ma_index, ratio, wrapped, pcW, pushed, maCnt, adrCnt>>

MaWindow ==
  /\ pcC = "ma_window"
  /\ LET next == Succ(cal_ma_index)
         out  == price[Behind(next, MAInterval[k])]
         sum  == [mt[k] EXCEPT ![out] = @ - 1]
     IN  IF wrapped \/ next >= MAInterval[k]
         THEN /\ mt' = [mt EXCEPT ![k] = sum]
              /\ ma' = [ma EXCEPT ![k][next] = sum]
         ELSE UNCHANGED <<mt, ma>>
  /\ IF k < Len(MAInterval) THEN k' = k + 1 /\ pcC' = pcC
                            ELSE k' = 1     /\ pcC' = "ma_publish"
  /\ UNCHANGED <<ring, cal_ma_index, ratio, wrapped, pcW, pushed, maCnt, adrCnt>>

MaPublish ==
  /\ pcC = "ma_publish"
  /\ cal_ma_index' = Succ(cal_ma_index)
  /\ maCnt' = maCnt + 1
  /\ pcC' = "adr_test"
  /\ UNCHANGED <<ring, mt, ma, ratio, k, wrapped, pcW, pushed, adrCnt>>

CalMovingAverage == MaTest \/ MaAdd \/ MaCycle \/ MaWindow \/ MaPublish

-----------------------------------------------------------------------------
(* MDRing::CalADRatio: compare the next tick with the one each look-back   *)
(* before it. When it returns Calculator goes on to its next round.        *)

AdrTest ==
  /\ pcC = "adr_test"
  /\ pcC' = IF cal_adr_index = md_index THEN "ma_test" ELSE "adr_cycle"
  /\ UNCHANGED <<ring, average, ratio, k, wrapped, pcW, pushed, maCnt, adrCnt>>

AdrCycle ==
  /\ pcC = "adr_cycle"
  /\ wrapped' = (cycle_cnt # 0)
  /\ k' = 1
  /\ pcC' = "adr_ratio"
  /\ UNCHANGED <<ring, average, ratio, pcW, pushed, maCnt, adrCnt>>

AdrRatio_NoWrap ==
  /\ pcC = "adr_ratio"
  /\ LET next == Succ(cal_adr_index)
     IN  IF next >= ADRInterval[k]
         THEN adr' = [adr EXCEPT ![k][next] =
                        [cur |-> price[next], old |-> price[Behind(next, ADRInterval[k])]]]
         ELSE adr' = adr
  /\ IF k < Len(ADRInterval) THEN k' = k + 1 /\ pcC' = pcC
                             ELSE k' = 1     /\ pcC' = "adr_publish"
  /\ UNCHANGED <<ring, average, cal_adr_index, wrapped, pcW, pushed, maCnt, adrCnt>>

AdrRatio ==
  /\ pcC = "adr_ratio"
  /\ LET next == Succ(cal_adr_index)
     IN  IF wrapped \/ next >= ADRInterval[k]
         THEN adr' = [adr EXCEPT ![k][next] =
                        [cur |-> price[next], old |-> price[Behind(next, ADRInterval[k])]]]
         ELSE adr' = adr
  /\ IF k < Len(ADRInterval) THEN k' = k + 1 /\ pcC' = pcC
                             ELSE k' = 1     /\ pcC' = "adr_publish"
  /\ UNCHANGED <<ring, average, cal_adr_index, wrapped, pcW, pushed, maCnt, adrCnt>>

AdrPublish_Newest ==
  /\ pcC = "adr_publish"
  /\ cal_adr_index' = md_index
  /\ adrCnt' = adrCnt + 1
  /\ pcC' = "ma_test"
  /\ UNCHANGED <<ring, average, adr, k, wrapped, pcW, pushed, maCnt>>

AdrPublish_Drain ==
  /\ pcC = "adr_publish"
  /\ cal_adr_index' = Succ(cal_adr_index)
  /\ adrCnt' = adrCnt + 1
  /\ pcC' = "adr_test"
  /\ UNCHANGED <<ring, average, adr, k, wrapped, pcW, pushed, maCnt>>

AdrPublish ==
  /\ pcC = "adr_publish"
  /\ cal_adr_index' = Succ(cal_adr_index)
  /\ adrCnt' = adrCnt + 1
  /\ pcC' = "ma_test"
  /\ UNCHANGED <<ring, average, adr, k, wrapped, pcW, pushed, maCnt>>

CalADRatio == AdrTest \/ AdrCycle \/ AdrRatio \/ AdrPublish

Calculator == CalMovingAverage \/ CalADRatio

Next == PushMD \/ Calculator

Spec     == Init /\ [][Next]_vars
FairSpec == Spec /\ WF_vars(Calculator)

-----------------------------------------------------------------------------
WriterSteps     == {"idle", "cycle", "index"}
AverageSteps    == {"ma_add", "ma_cycle", "ma_window", "ma_publish"}
RatioSteps      == {"adr_cycle", "adr_ratio", "adr_publish"}
CalculatorSteps == {"ma_test", "adr_test"} \union AverageSteps \union RatioSteps

Totals == [Ticks -> Int]
Ratios == [cur : Ticks, old : Ticks]

(* Every member of the ring stays in its array's bounds and range.          *)
TypeOK ==
  /\ price \in [Slots -> Ticks]
  /\ md_index \in Slots \union {-1}
  /\ cycle_cnt \in Nat
  /\ cal_ma_index \in Slots \union {-1}
  /\ cal_adr_index \in Slots \union {-1}
  /\ mt \in [MAs -> Totals]
  /\ ma \in [MAs -> [Slots -> Totals]]
  /\ adr \in [ADRs -> [Slots -> Ratios]]
  /\ pcW \in WriterSteps
  /\ pcC \in CalculatorSteps
  /\ k \in Nat \ {0}
  /\ pcC \in {"ma_add", "ma_window"} => k \in MAs
  /\ pcC = "adr_ratio" => k \in ADRs
  /\ wrapped \in BOOLEAN
  /\ pushed \in Ticks /\ maCnt \in Ticks /\ adrCnt \in Ticks

(* The ticks whose slot PushMD has not begun to reuse.                      *)
Kept(t) == t > pushed + (IF pcW = "idle" THEN 0 ELSE 1) - RING_SIZE

(* PushMD keeps the last RING_SIZE prices, each in the slot of its tick,    *)
(* and cycle_cnt says how often the ring has been filled before md_index    *)
(* shows the first slot again (MDRing.cpp:67-76).                           *)
RecentTicksKept ==
  /\ \A t \in 1 .. pushed : Kept(t) => price[Slot(t)] = t
  /\ pushed > 0 => md_index = Slot(pushed)
  /\ pcW # "index" => RING_SIZE * cycle_cnt + md_index + 1 = pushed

(* `cal_index == md_index` (MDRing.cpp:121, 434) means that every tick has  *)
(* been handled, and never that Calculator is a whole ring behind.          *)
CaughtUpTest ==
  /\ cal_ma_index = md_index <=> maCnt = pushed
  /\ cal_adr_index = md_index <=> adrCnt = pushed

(* What the window of a moving average holds after tick t.                  *)
Window(t, interval) ==
  [u \in Ticks |-> IF 0 < u /\ t - interval < u /\ u <= t THEN 1 ELSE 0]

(* Between two calls of CalMovingAverage every running total is the sum of  *)
(* exactly the last INTERVAL prices, however long it has been adding and    *)
(* subtracting, and so is the average of every tick that is still kept and  *)
(* has a full window (MDRing.cpp:432-501).                                  *)
AverageExact ==
  \A a \in MAs :
    /\ pcC \notin AverageSteps => mt[a] = Window(maCnt, MAInterval[a])
    /\ \A t \in MAInterval[a] + 1 .. maCnt :
         t > maCnt + 1 - RING_SIZE => ma[a][Slot(t)] = Window(t, MAInterval[a])

(* Every published ratio that is still kept compares its tick with the one  *)
(* exactly INTERVAL ticks before it, and a tick without a full look-back    *)
(* has none (MDRing.cpp:119-260).                                           *)
RatioExact ==
  \A r \in ADRs : \A t \in 1 .. adrCnt :
    t > adrCnt + 1 - RING_SIZE =>
      adr[r][Slot(t)] = IF t > ADRInterval[r]
                        THEN [cur |-> t, old |-> t - ADRInterval[r]]
                        ELSE NoRatio

(* Calculator handles one tick of each kind per round, averages first: when *)
(* a round begins the averages are level with the ratios, or one tick       *)
(* behind when that tick came between its two calls (Calculator.cpp:87-94). *)
AverageTrailsByOne ==
  pcC = "ma_test" => adrCnt - maCnt \in {0, 1}

(* Every tick that is pushed is eventually in the averages and the ratios.  *)
CatchUp ==
  \A n \in 1 .. MaxTicks : pushed >= n ~> (maCnt >= n /\ adrCnt >= n)

Progress == INSTANCE RingProgress

(* Seen through the three counters, the ring does what RingProgress says:   *)
(* a tick at a time is pushed, averaged or compared, averages and ratios    *)
(* taking turns, though all three are many unlocked steps                   *)
(* (MDRing.cpp:67-76, 119-260, 432-501).                                    *)
ImplementsProgress == Progress!Spec
=============================================================================
