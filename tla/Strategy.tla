------------------------------ MODULE Strategy ------------------------------
(***************************************************************************)
(* The strategy thread on one symbol (src/src/Strategy.cpp, StrategyBOX.cpp)*)
(* beside the two threads that write the symbol's ring. AdvancedSLR1::Run  *)
(* and AdvancedSLR2::Run are one algorithm with different constants: read  *)
(* the indices, wait for the ring to warm up, read some ratios through the *)
(* getters of MDRing.cpp, and buy or sell on what they say. Each load of a *)
(* shared member is a step of its own.                                     *)
(*                                                                         *)
(* Left out: sellMdIndex, which nothing reads; mOrderCnt, mPositiveCnt,    *)
(* mNegativeCnt and the two totals, which only the log line prints; and    *)
(* the calls of PushSignal, which are commented out (204, 229).            *)
(***************************************************************************)
EXTENDS MDRing

CONSTANTS
  Reads,     \* the getter calls of one Run, in order
  SellRead,  \* the call whose ratio, once negative, sells
  Warmup,    \* the least md_index to trade at before the ring wraps
  MaxSpan,   \* bound: how many ticks are pushed during one Run
  ST_SIZE    \* what the getters add to a negative index

(***************************************************************************)
(* A call reads ratio number `ratio`, `lead` ticks back; before the wrap   *)
(* it tests `cal_adr_index - guard` against the look-back. `guard` is      *)
(* `lead` in every getter but GetADRatio5m, where it is 0.                 *)
(***************************************************************************)
Call    == [ratio : ADRs, lead : Nat, guard : Nat]
Current == {c \in DOMAIN Reads : Reads[c].lead = 0}

(***************************************************************************)
(* The warm-up leaves room for the longest look-back of any call and for   *)
(* Calculator's lag, 920 against 540 + 300 ticks in AdvancedSLR2, and is   *)
(* over before the ring is full: 920 against 86400 (Macro.h:27).           *)
(***************************************************************************)
ASSUME StrategyAssumption ==
  /\ Reads \in Seq(Call)
  /\ SellRead \in Current
  /\ Warmup \in 0 .. RING_SIZE /\ ST_SIZE \in Nat /\ MaxSpan \in Nat
  /\ \A c \in DOMAIN Reads :
       /\ Reads[c].guard \in {0, Reads[c].lead}
       /\ MaxLag + Reads[c].lead + ADRInterval[Reads[c].ratio] <= Warmup

VARIABLES
  pointType, buyMdIndex,                  \* mStPoint of the symbol
  pcS,                                    \* where Run is
  lastMdIndex,                            \* its local copy of md_index
  sWrapped,                               \* what a test of cycle_cnt found
  offset,                                 \* what the getter adds to the index
  got,                                    \* the ratios read so far
  buyPrice,                               \* local of the selling branch
  seen,                                   \* history: counters when Run began
  bought,                                 \* history: tick and ratio of the buy
  sale                                    \* history: the last sale

block   == <<pointType, buyMdIndex>>
history == <<seen, bought, sale>>
sLocal  == <<lastMdIndex, sWrapped, offset, got, buyPrice>>
ringAll == <<ring, average, ratio, local, pcW, pushed, maCnt, adrCnt>>
sVars   == <<ringAll, block, pcS, sLocal, history>>

NotBought == [tick |-> 0, ratio |-> NoRatio]
NoSale    == [buy |-> 0, paid |-> 0, sellTick |-> 0, last |-> 0]

SInit ==
  /\ Init
  /\ pointType = 0 /\ buyMdIndex = -1
  /\ pcS = "index" /\ lastMdIndex = -1 /\ sWrapped = FALSE
  /\ offset = 0 /\ got = <<>> /\ buyPrice = 0
  /\ seen = [tick |-> 0, adr |-> 0]
  /\ bought = NotBought
  /\ sale = NoSale

Reading == Reads[Len(got) + 1]

-----------------------------------------------------------------------------
(* The start of Run: GetMDIndex, then GetCycleCnt and the warm-up test.    *)

ReadIndex_Next ==
  /\ pcS = "index"
  /\ lastMdIndex' = md_index + 1
  /\ seen' = [tick |-> pushed, adr |-> adrCnt]
  /\ sale' = NoSale
  /\ pcS' = "gate"
  /\ UNCHANGED <<ringAll, block, sWrapped, offset, got, buyPrice, bought>>

ReadIndex ==
  /\ pcS = "index"
  /\ lastMdIndex' = md_index
  /\ seen' = [tick |-> pushed, adr |-> adrCnt]
  /\ sale' = NoSale
  /\ pcS' = "gate"
  /\ UNCHANGED <<ringAll, block, sWrapped, offset, got, buyPrice, bought>>

Gate ==
  /\ pcS = "gate"
  /\ pcS' = IF cycle_cnt = 0 /\ lastMdIndex < Warmup THEN "index" ELSE "cycle"
  /\ UNCHANGED <<ringAll, block, lastMdIndex, sWrapped, offset, got, buyPrice, history>>

-----------------------------------------------------------------------------
(* A getter GetADRatio..(lead): it loads cycle_cnt once and cal_adr_index  *)
(* twice, for the test and for the index.                                  *)

GetCycle ==
  /\ pcS = "cycle"
  /\ sWrapped' = (cycle_cnt # 0)
  /\ pcS' = "test"
  /\ UNCHANGED <<ringAll, block, lastMdIndex, offset, got, buyPrice, history>>

(* A double just outside an array: any value at all.                       *)
Stray == [cur |-> -1, old |-> -1]

Return(value) ==
  /\ got' = Append(got, value)
  /\ offset' = 0 /\ sWrapped' = FALSE
  /\ pcS' = IF Len(got) + 1 = Len(Reads) THEN "decide" ELSE "cycle"

GetTest ==
  /\ pcS = "test"
  /\ LET base == cal_adr_index - Reading.lead
         warm == cal_adr_index - Reading.guard >= ADRInterval[Reading.ratio]
     IN  IF ~sWrapped /\ ~warm
         THEN Return(NoRatio)
         ELSE /\ offset' = IF sWrapped /\ base < 0 THEN ST_SIZE ELSE 0
              /\ pcS' = "load"
              /\ UNCHANGED <<got, sWrapped>>
  /\ UNCHANGED <<ringAll, block, lastMdIndex, buyPrice, history>>

GetLoad ==
  /\ pcS = "load"
  /\ LET index == offset + cal_adr_index - Reading.lead
     IN  Return(IF index \in Slots THEN adr[Reading.ratio][index] ELSE Stray)
  /\ UNCHANGED <<ringAll, block, lastMdIndex, buyPrice, history>>

-----------------------------------------------------------------------------
(* What Run does with the ratios. The thresholds are abstracted to this:   *)
(* a buy needs every current ratio to be well above 0.0, which a missing   *)
(* ratio is not, and a sale needs the selling ratio to be below 0.0, which *)
(* neither a missing ratio is nor the very ratio the buy was made on.      *)

Hold ==
  /\ pcS = "decide"
  /\ got' = <<>>
  /\ pcS' = "index"
  /\ UNCHANGED <<ringAll, block, lastMdIndex, sWrapped, offset, buyPrice, history>>

Buy_Reread ==
  /\ pcS = "decide"
  /\ pointType \in {0, 2}
  /\ \A c \in Current : got[c] # NoRatio
  /\ pointType' = 1
  /\ buyMdIndex' = md_index
  /\ bought' = [tick |-> seen.tick, ratio |-> got[SellRead]]
  /\ got' = <<>>
  /\ pcS' = "index"
  /\ UNCHANGED <<ringAll, lastMdIndex, sWrapped, offset, buyPrice, seen, sale>>

Buy ==
  /\ pcS = "decide"
  /\ pointType \in {0, 2}
  /\ \A c \in Current : got[c] # NoRatio
  /\ pointType' = 1
  /\ buyMdIndex' = lastMdIndex
  /\ bought' = [tick |-> seen.tick, ratio |-> got[SellRead]]
  /\ got' = <<>>
  /\ pcS' = "index"
  /\ UNCHANGED <<ringAll, lastMdIndex, sWrapped, offset, buyPrice, seen, sale>>

Sell ==
  /\ pcS = "decide"
  /\ pointType = 1
  /\ got[SellRead] \notin {NoRatio, bought.ratio}
  /\ buyPrice' = IF buyMdIndex \in Slots THEN price[buyMdIndex] ELSE 0
  /\ pcS' = "sell"
  /\ UNCHANGED <<ringAll, block, lastMdIndex, sWrapped, offset, got, history>>

(* GetLastPrice and the rest of the selling branch.                        *)
SellAtLastPrice ==
  /\ pcS = "sell"
  /\ sale' = [buy |-> bought.tick, paid |-> buyPrice, sellTick |-> seen.tick,
              last |-> IF md_index >= 0 THEN price[md_index] ELSE 0]
  /\ pointType' = 2
  /\ bought' = NotBought
  /\ buyPrice' = 0
  /\ got' = <<>>
  /\ pcS' = "index"
  /\ UNCHANGED <<ringAll, buyMdIndex, lastMdIndex, sWrapped, offset, seen>>

Getter == GetCycle \/ GetTest \/ GetLoad
Run    == ReadIndex \/ Gate \/ Getter \/ Hold \/ Buy \/ Sell \/ SellAtLastPrice

SNext ==
  \/ /\ Next
     /\ pcS # "index" => pushed' - seen.tick <= MaxSpan
     /\ UNCHANGED <<block, pcS, sLocal, history>>
  \/ Run

SSpec == SInit /\ [][SNext]_sVars

-----------------------------------------------------------------------------
StrategySteps == {"index", "gate", "cycle", "test", "load", "decide", "sell"}
Read == Ratios \union {Stray}

(* Types; the points of a trade are slots of the ring.                     *)
STypeOK ==
  /\ TypeOK
  /\ pointType \in {0, 1, 2}
  /\ buyMdIndex \in Slots \union {-1} /\ lastMdIndex \in Slots \union {-1}
  /\ pcS \in StrategySteps
  /\ sWrapped \in BOOLEAN /\ offset \in {0, ST_SIZE}
  /\ got \in Seq(Read) /\ Len(got) <= Len(Reads)
  /\ buyPrice \in Ticks
  /\ seen \in [tick : Ticks, adr : Ticks]
  /\ bought \in [tick : Ticks, ratio : Ratios]
  /\ sale \in [buy : Ticks, paid : Ticks, sellTick : Ticks, last : Ticks]

(* A ratio that a call made in this Run may return: the one `lead` ticks   *)
(* before a tick that was the newest some time since Run began.            *)
TrueRatio(c, value) ==
  \E t \in seen.adr .. adrCnt :
    LET back == t - Reads[c].lead IN
    value = [cur |-> back, old |-> back - ADRInterval[Reads[c].ratio]]

(* Calculator has been past the longest lead of this pass over the ring    *)
(* ever since Run began.                                                   *)
ClearOfWrap ==
  \A c \in DOMAIN Reads :
    /\ (seen.adr - 1) % RING_SIZE >= Reads[c].lead
    /\ adrCnt - seen.adr < RING_SIZE
    /\ Slot(adrCnt) >= Slot(seen.adr)

(* The warm-up test is enough: until the ring wraps, and later whenever    *)
(* Calculator is clear of the wrap, every ratio a decision is based on is  *)
(* a real one, of the right distance, and never the 0.0 of a cold or       *)
(* unwritten slot, which the strategies would take for a calm market       *)
(* (Strategy.cpp:168-194).                                                 *)
GateCoversLookback ==
  pcS = "decide" /\ (adrCnt <= RING_SIZE \/ ClearOfWrap)
    => \A c \in DOMAIN Reads : TrueRatio(c, got[c])

(* A ratio without a lead is right or missing at any time, wrap or no wrap; *)
(* missing in the one Run that loads cycle_cnt just before the first wrap   *)
(* and cal_adr_index just after, and then nothing is traded on it           *)
(* (MDRing.cpp:285-355).                                                    *)
CurrentRatiosTrue ==
  pcS = "decide" =>
    \A c \in Current : got[c] = NoRatio \/ TrueRatio(c, got[c])

(* A decision is based on real ratios, with a lead or without               *)
(* (Strategy.cpp:168-194, MDRing.cpp:267-427).                              *)
RatiosTrue == GateCoversLookback /\ CurrentRatiosTrue

(* A symbol that has warmed up stays warm: no Run that begins after it is   *)
(* sent back by the warm-up test, not even one that meets PushMD in the     *)
(* middle of a wrap, when md_index starts from 0 again. PushMD counts the   *)
(* pass before it moves md_index, and Run reads them in the other order     *)
(* (MDRing.cpp:73-76, Strategy.cpp:168-175).                                *)
WarmStaysWarm ==
  [][ pcS = "gate" /\ seen.tick > Warmup /\ pcS' # "gate" => pcS' = "cycle" ]_sVars

(* The profit of a sale is taken between the right two prices: the one of  *)
(* the tick the buy was decided on, unless the ring has come round to its  *)
(* slot, and one no older than the tick the sale was decided on            *)
(* (Strategy.cpp:211-216).                                                 *)
ProfitOfTheTrade ==
  sale.last > 0 =>
    /\ sale.paid # sale.buy => sale.paid >= sale.buy + RING_SIZE
    /\ sale.last >= sale.sellTick /\ sale.sellTick >= sale.buy

(* A position is closed by a newer ratio than the one that opened it,       *)
(* although ratios of different calls are of different ticks.               *)
SoldOnNewerRatio ==
  pcS = "sell" => got[SellRead].cur > bought.ratio.cur

(* A trade is of the ticks it was decided on (Strategy.cpp:187-231).        *)
TradeOfItsTicks == ProfitOfTheTrade /\ SoldOnNewerRatio

(* ST_SIZE is the number of strategies (Macro.h:21-22) and no size of the  *)
(* ring: a getter that looks back over the wrap, with Calculator standing  *)
(* still all the while, still returns a ratio of the right distance        *)
(* (MDRing.cpp:339-355).                                                   *)
LookbackOverWrap ==
  pcS = "decide" /\ RING_SIZE < seen.adr /\ seen.adr = adrCnt
    => \A c \in DOMAIN Reads : TrueRatio(c, got[c])
=============================================================================
