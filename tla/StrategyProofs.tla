--------------------------- MODULE StrategyProofs ---------------------------
(***************************************************************************)
(* Proofs about a strategy on one ring, for every ring size, look-backs,   *)
(* leads, warm-up and lag that the assumptions allow: its threads are at   *)
(* work on the ring all the while, so the invariant of MDRing is a part of *)
(* the one of Strategy.                                                    *)
(***************************************************************************)
EXTENDS Strategy, MDRingProofs

(* A decision that GateCoversLookback speaks of could be based on what is   *)
(* read now.                                                               *)
Clear == adrCnt <= RING_SIZE \/ ClearOfWrap

(* Slot idx is that of tick n in some pass over the ring.                   *)
OnLap(n, idx) == \E q \in Int : RING_SIZE * q + idx + 1 = n

Interval(c) == ADRInterval[Reads[c].ratio]

(* What Run knows of md_index, and how far it has come.                     *)
RunInv ==
  /\ pcS \in StrategySteps
  /\ got \in Seq(Read) /\ Len(got) <= Len(Reads)
  /\ pcS \in {"index", "gate"} => got = <<>>
  /\ pcS \in {"cycle", "test", "load"} => Len(got) < Len(Reads)
  /\ pcS \in {"decide", "sell"} => Len(got) = Len(Reads)
  /\ seen \in [tick : Ticks, adr : Ticks]
  /\ seen.tick <= pushed /\ seen.adr <= adrCnt
  /\ Placed(seen.tick, lastMdIndex) /\ OnLap(seen.tick, lastMdIndex)
  /\ cycle_cnt = 0 => lastMdIndex + 1 = seen.tick

(* Behind the warm-up test Calculator is beyond every look-back.            *)
WarmInv ==
  pcS \notin {"index", "gate"} =>
    \A c \in DOMAIN Reads : adrCnt > Reads[c].lead + Interval(c)

(* What a getter knows between its loads.                                   *)
GetterInv ==
  /\ sWrapped \in BOOLEAN /\ offset \in {0, ST_SIZE}
  /\ pcS = "test" /\ ~sWrapped => seen.adr <= RING_SIZE
  /\ pcS = "load" /\ (Clear \/ Reading.lead = 0) => offset = 0

(* What the getters have returned.                                          *)
GotInv ==
  \A c \in 1 .. Len(got) :
    /\ Clear => TrueRatio(c, got[c])
    /\ c \in Current => got[c] = NoRatio \/ TrueRatio(c, got[c])

(* The open position, and the sale under way.                               *)
TradeInv ==
  /\ pointType \in {0, 1, 2}
  /\ buyMdIndex \in Slots \union {-1}
  /\ bought \in [tick : Ticks, ratio : Ratios] /\ bought.tick <= seen.tick
  /\ pointType = 1 =>
       /\ Placed(bought.tick, buyMdIndex) /\ OnLap(bought.tick, buyMdIndex)
       /\ bought.ratio.old = bought.ratio.cur - Interval(SellRead)
       /\ bought.ratio.cur <= IF pcS = "index" THEN adrCnt ELSE seen.adr
  /\ buyPrice \in Ticks
  /\ pcS = "sell" =>
       /\ pointType = 1
       /\ buyPrice # bought.tick => buyPrice >= bought.tick + RING_SIZE
  /\ SoldOnNewerRatio
  /\ sale \in [buy : Ticks, paid : Ticks, sellTick : Ticks, last : Ticks]
  /\ ProfitOfTheTrade

SInv == RunInv /\ WarmInv /\ GetterInv /\ GotInv /\ TradeInv

(* Every property of Strategy follows from this one.                        *)
SIndInv == IndInv /\ SInv

-----------------------------------------------------------------------------
(* The constants.                                                          *)

(* StrategyAssumption, with what it says of the calls one by one.          *)
LEMMA StrategyConstants ==
  /\ RING_SIZE \in Nat \ {0} /\ MaxTicks \in Nat /\ MaxLag \in Nat \ {0}
  /\ Warmup \in Nat /\ Warmup <= RING_SIZE /\ ST_SIZE \in Nat
  /\ Len(Reads) \in Nat /\ DOMAIN Reads = 1 .. Len(Reads)
  /\ SellRead \in DOMAIN Reads /\ Reads[SellRead].lead = 0
  /\ \A c \in DOMAIN Reads :
       /\ Reads[c].ratio \in ADRs
       /\ Reads[c].lead \in Nat
       /\ Reads[c].guard \in 0 .. Reads[c].lead
       /\ Interval(c) \in Nat \ {0}
       /\ MaxLag + Reads[c].lead + Interval(c) <= Warmup
<1>1. /\ Warmup \in Nat /\ Warmup <= RING_SIZE /\ ST_SIZE \in Nat
      /\ Len(Reads) \in Nat /\ DOMAIN Reads = 1 .. Len(Reads)
      /\ SellRead \in DOMAIN Reads /\ Reads[SellRead].lead = 0
  BY StrategyAssumption, Constants DEF StrategyAssumption, Current
<1>2. ASSUME NEW c \in DOMAIN Reads
      PROVE  /\ Reads[c].ratio \in ADRs /\ Reads[c].lead \in Nat
             /\ Reads[c].guard \in 0 .. Reads[c].lead
             /\ Interval(c) \in Nat \ {0}
             /\ MaxLag + Reads[c].lead + Interval(c) <= Warmup
  <2>1. Reads[c] \in [ratio : ADRs, lead : Nat, guard : Nat]
    <3>1. Reads \in Seq(Call)
      BY StrategyAssumption DEF StrategyAssumption
    <3>2. Reads[c] \in Call
      <4> HIDE DEF Call
      <4> QED BY <3>1, <1>1
    <3> QED BY <3>2 DEF Call
  <2>2. Reads[c].guard \in {0, Reads[c].lead}
    BY StrategyAssumption DEF StrategyAssumption
  <2>3. MaxLag + Reads[c].lead + Interval(c) <= Warmup
    BY StrategyAssumption DEF StrategyAssumption, Interval
  <2>4. Interval(c) \in Nat \ {0}
    BY <2>1, Constants DEF Interval
  <2> QED BY <2>1, <2>2, <2>3, <2>4
<1> QED BY <1>1, <1>2, Constants

-----------------------------------------------------------------------------
(* Slots and passes over the ring.                                         *)

(* The index of a thread is the slot of the last tick it handled.          *)
LEMMA IndexIsSlot ==
  ASSUME WriterInv, NEW n, NEW idx, Follows(n, idx), n > 0
  PROVE  idx = Slot(n)
<1>1. n \in Nat /\ idx \in Slots \union {-1} /\ idx # -1
  BY DEF Follows, Placed
<1>2. PICK q \in Int : RING_SIZE * q + idx + 1 = n
  BY FollowerLap
<1>3. Slot(n) \in Slots /\ (n - idx) - (n - Slot(n)) \in {0, RING_SIZE}
  <2>1. n \in Int /\ n - RING_SIZE < n /\ n <= n /\ 0 < n
    BY <1>1, Constants
  <2> QED BY <1>1, <1>2, <2>1, SlotOf
<1> DEFINE i == Slot(n)
<1> HIDE DEF i
<1>4. i \in Slots /\ (n - idx) - (n - i) \in {0, RING_SIZE}
  BY <1>3 DEF i
<1>5. idx = i
  BY <1>1, <1>4, Constants DEF Slots
<1> QED BY <1>5 DEF i

(* In the first pass over the ring the slots are taken in order.           *)
LEMMA SlotFirst ==
  ASSUME NEW n \in Nat, 0 < n, n <= RING_SIZE
  PROVE  Slot(n) = n - 1
<1> DEFINE x == n - 1
<1>1. x \in 0 .. RING_SIZE - 1
  BY Constants
<1> HIDE DEF x
<1>2. x % RING_SIZE = x
  BY <1>1, ModSmall, Constants
<1> QED BY <1>2 DEF Slot, x

(* In the second pass they start from 0 again.                             *)
LEMMA SlotSecond ==
  ASSUME NEW n \in Nat, RING_SIZE < n, n <= 2 * RING_SIZE
  PROVE  Slot(n) = n - 1 - RING_SIZE
<1> DEFINE x == n - 1
           q == 1
<1>1. x \in Int /\ q \in Int /\ RING_SIZE * q <= x /\ x < RING_SIZE * q + RING_SIZE
  BY Constants
<1> HIDE DEF x
<1>2. x % RING_SIZE = x - RING_SIZE * q
  BY <1>1, ModLap
<1>3. RING_SIZE * q = RING_SIZE
  BY Constants
<1> QED BY <1>2, <1>3 DEF Slot, x

(* Whoever is not behind a tick less than a ring ago after one more step    *)
(* over the ring was not before it.                                        *)
LEMMA SlotBack ==
  ASSUME NEW s \in Nat, NEW n \in Nat, s <= n, n + 1 - s < RING_SIZE,
         Slot(n + 1) >= Slot(s)
  PROVE  Slot(n) >= Slot(s)
<1> DEFINE a == s - 1
           d == a \div RING_SIZE
           m == a % RING_SIZE
           e == n - a
           laps == RING_SIZE * d
<1>1. /\ d \in Int /\ m \in 0 .. RING_SIZE - 1
      /\ a = laps + m /\ laps \in Int
  BY Constants
<1>2. Slot(s) = m
  BY DEF Slot
<1> HIDE DEF d, m
<1>3. e \in 1 .. RING_SIZE - 1 /\ n = laps + m + e
  BY <1>1, Constants
<1>4. Slot(n + 1) = n % RING_SIZE
  BY DEF Slot
<1> HIDE DEF a, e
<1>5. CASE m + e < RING_SIZE
  <2> DEFINE x == n - 1
  <2>1. x \in Int /\ laps <= x /\ x < laps + RING_SIZE /\ x = laps + m + e - 1
    <3> HIDE DEF laps
    <3> QED BY <1>1, <1>3, <1>5, Constants
  <2> HIDE DEF x
  <2>2. x % RING_SIZE = x - laps
    BY <1>1, <2>1, ModLap
  <2>3. Slot(n) = x % RING_SIZE
    BY DEF Slot, x
  <2> HIDE DEF laps
  <2> QED BY <1>1, <1>2, <1>3, <2>1, <2>2, <2>3
<1>6. CASE m + e >= RING_SIZE
  <2> DEFINE p == d + 1
             next == RING_SIZE * p
  <2>1. p \in Int /\ next = laps + RING_SIZE
    BY <1>1, Constants
  <2>2. next <= n /\ n < next + RING_SIZE
    <3> HIDE DEF laps, next
    <3> QED BY <1>1, <1>3, <1>6, <2>1, Constants
  <2> HIDE DEF p
  <2>3. n % RING_SIZE = n - next
    BY <2>1, <2>2, ModLap
  <2> HIDE DEF laps, next
  <2>4. Slot(n + 1) = m + e - RING_SIZE
    BY <1>1, <1>3, <1>4, <2>1, <2>3, Constants
  <2> QED BY <1>1, <1>2, <1>3, <2>4, Constants
<1> QED BY <1>1, <1>3, <1>5, <1>6, Constants

(* Two ticks of one slot, the newer one at most a ring old, are the same or *)
(* at least a ring apart.                                                  *)
LEMMA SameSlot ==
  ASSUME NEW x \in Int, NEW y \in Int, NEW n \in Int, NEW i \in Int,
         OnLap(x, i), OnLap(y, i), n - RING_SIZE < x, y <= n
  PROVE  x # y => x >= y + RING_SIZE
<1>1. PICK p \in Int : RING_SIZE * p + i + 1 = x
  BY DEF OnLap
<1>2. PICK q \in Int : RING_SIZE * q + i + 1 = y
  BY DEF OnLap
<1> DEFINE e == p - q
<1>3. e \in Int /\ RING_SIZE * e = RING_SIZE * p - RING_SIZE * q
  BY Constants
<1>4. RING_SIZE * e > -RING_SIZE /\ x - y = RING_SIZE * e
  <2> DEFINE a == RING_SIZE * p
             b == RING_SIZE * q
             f == RING_SIZE * e
  <2>1. a \in Int /\ b \in Int /\ f \in Int /\ f = a - b
    BY <1>3, Constants
  <2>2. a + i + 1 = x /\ b + i + 1 = y
    BY <1>1, <1>2
  <2> HIDE DEF a, b, f
  <2>3. f > -RING_SIZE /\ x - y = f
    BY <2>1, <2>2, Constants
  <2> QED BY <2>3 DEF f
<1> HIDE DEF e
<1>5. e > -1
  BY <1>3, <1>4, Constants
<1>6. e = 0 => x = y
  BY <1>3, <1>4, Constants
<1>7. e >= 1 => x >= y + RING_SIZE
  BY <1>3, <1>4, Constants
<1> QED BY <1>3, <1>5, <1>6, <1>7

-----------------------------------------------------------------------------
(* The first state.                                                        *)

(* A strategy begins with nothing read and nothing bought.                 *)
LEMMA SInitInv == SInit => SIndInv
<1> SUFFICES ASSUME SInit PROVE SIndInv
  OBVIOUS
<1>1. IndInv
  BY InitInv DEF SInit
<1>2. 0 \in Ticks /\ pushed = 0 /\ adrCnt = 0 /\ pcS = "index" /\ got = <<>> /\ Len(got) = 0
  BY Constants DEF SInit, Init, Ticks
<1>3. OnLap(0, -1)
  <2>1. RING_SIZE * 0 + (-1) + 1 = 0
    BY Constants
  <2> QED BY <2>1 DEF OnLap
<1>4. RunInv
  <2>1. Placed(seen.tick, lastMdIndex) /\ OnLap(seen.tick, lastMdIndex)
    BY <1>3, Constants DEF SInit, Placed
  <2> QED BY <1>2, <2>1, StrategyConstants DEF SInit, RunInv, StrategySteps
<1>5. WarmInv /\ GetterInv /\ GotInv
  <2>1. 1 .. Len(got) = {}
    BY <1>2
  <2> QED BY <1>2, <2>1 DEF SInit, WarmInv, GetterInv, GotInv
<1>6. TradeInv
  <2>1. bought \in [tick : Ticks, ratio : Ratios] /\ bought.tick <= seen.tick
    BY <1>2, Constants DEF SInit, NotBought, NoRatio, Ratios
  <2>2. /\ sale \in [buy : Ticks, paid : Ticks, sellTick : Ticks, last : Ticks]
        /\ ProfitOfTheTrade
    BY <1>2, Constants DEF SInit, NoSale, ProfitOfTheTrade
  <2> QED BY <1>2, <2>1, <2>2 DEF SInit, TradeInv, SoldOnNewerRatio
<1> QED BY <1>1, <1>4, <1>5, <1>6 DEF SIndInv, SInv

-----------------------------------------------------------------------------
(* A step of the threads that write the ring.                              *)

(* The types of the counters.                                              *)
LEMMA Counters ==
  ASSUME IndInv
  PROVE  /\ pushed \in Nat /\ adrCnt \in Nat /\ cycle_cnt \in Nat
         /\ pushed \in Ticks /\ adrCnt \in Ticks /\ adrCnt <= pushed
BY Constants DEF IndInv, WriterInv, PhaseInv, Follows, Placed, Ticks

(* The counters only grow, that of the ratios by one.                      *)
LEMMA RingEffect ==
  ASSUME IndInv, [Next]_vars
  PROVE  /\ pushed' \in {pushed, pushed + 1} /\ adrCnt' \in {adrCnt, adrCnt + 1}
         /\ cycle_cnt' \in {cycle_cnt, cycle_cnt + 1}
<1>1. CASE PushMD
  BY <1>1 DEF PushMD, PushPrice, PushCycle, PushIndex
<1>2. CASE CalMovingAverage
  BY <1>2 DEF CalMovingAverage, MaTest, MaAdd, MaCycle, MaWindow, MaPublish, ring
<1>3. CASE CalADRatio
  BY <1>3 DEF CalADRatio, AdrTest, AdrCycle, AdrRatio, AdrPublish, ring
<1>4. CASE UNCHANGED vars
  BY <1>4 DEF vars, ring
<1> QED BY <1>1, <1>2, <1>3, <1>4 DEF Next, Calculator

(* Who is clear of the wrap has been so since Run began.                   *)
LEMMA ClearBefore ==
  ASSUME IndInv, seen \in [tick : Ticks, adr : Ticks], seen.adr <= adrCnt,
         adrCnt' \in {adrCnt, adrCnt + 1}, seen' = seen, Clear'
  PROVE  Clear
<1>1. adrCnt \in Nat /\ seen.adr \in Nat
  BY Counters DEF Ticks
<1>2. CASE adrCnt' = adrCnt
  BY <1>2 DEF Clear, ClearOfWrap
<1>3. CASE adrCnt' = adrCnt + 1 /\ adrCnt' <= RING_SIZE
  BY <1>1, <1>3, Constants DEF Clear
<1>4. CASE adrCnt' = adrCnt + 1 /\ ClearOfWrap'
  <2> DEFINE n == adrCnt + 1
  <2>1. adrCnt' = n /\ n \in Nat /\ n = adrCnt + 1 /\ ClearOfWrap'
    BY <1>1, <1>4
  <2>2. DOMAIN Reads # {}
    BY StrategyConstants
  <2> HIDE DEF n
  <2>3. \A c \in DOMAIN Reads :
          /\ (seen.adr - 1) % RING_SIZE >= Reads[c].lead
          /\ n - seen.adr < RING_SIZE
          /\ (n - 1) % RING_SIZE >= (seen.adr - 1) % RING_SIZE
    BY <2>1, Zenon DEF ClearOfWrap, Slot
  <2>4. n - seen.adr < RING_SIZE /\ Slot(n) >= Slot(seen.adr)
    BY <2>2, <2>3 DEF Slot
  <2>5. Slot(adrCnt) >= Slot(seen.adr) /\ adrCnt - seen.adr < RING_SIZE
    <3>1. adrCnt + 1 - seen.adr < RING_SIZE
      BY <1>1, <2>1, <2>4, Constants
    <3>2. Slot(adrCnt + 1) >= Slot(seen.adr)
      BY <2>1, <2>4, Zenon
    <3>3. adrCnt - seen.adr < RING_SIZE
      BY <1>1, <3>1, Constants
    <3>4. Slot(adrCnt) >= Slot(seen.adr)
      BY <1>1, <3>1, <3>2, SlotBack
    <3> QED BY <3>3, <3>4
  <2> QED BY <2>3, <2>5 DEF Clear, ClearOfWrap
<1> QED BY <1>2, <1>3, <1>4 DEF Clear

(* A ratio stays true while Calculator goes on.                            *)
LEMMA StaysTrue ==
  ASSUME IndInv, adrCnt' \in {adrCnt, adrCnt + 1}, seen' = seen,
         seen \in [tick : Ticks, adr : Ticks], NEW c, NEW v, TrueRatio(c, v)
  PROVE  \E t \in seen'.adr .. adrCnt' :
           LET back == t - Reads[c].lead IN
           v = [cur |-> back, old |-> back - ADRInterval[Reads[c].ratio]]
<1>1. adrCnt \in Nat /\ seen.adr \in Nat
  BY Counters DEF Ticks
<1>2. PICK t \in seen.adr .. adrCnt :
        v = [cur |-> t - Reads[c].lead,
             old |-> t - Reads[c].lead - ADRInterval[Reads[c].ratio]]
  BY DEF TrueRatio
<1>3. t \in seen'.adr .. adrCnt'
  BY <1>1
<1> QED BY <1>2, <1>3

(* Whatever the two threads do, Run's knowledge of the ring stays right.    *)
LEMMA RingStepInv ==
  ASSUME SIndInv, [Next]_vars, UNCHANGED <<block, pcS, sLocal, history>>
  PROVE  SInv'
<1> USE DEF SIndInv, SInv
<1>1. /\ pointType' = pointType /\ buyMdIndex' = buyMdIndex /\ pcS' = pcS
      /\ lastMdIndex' = lastMdIndex /\ sWrapped' = sWrapped /\ offset' = offset
      /\ got' = got /\ buyPrice' = buyPrice
      /\ seen' = seen /\ bought' = bought /\ sale' = sale
  BY DEF block, sLocal, history
<1>2. /\ pushed' \in {pushed, pushed + 1} /\ adrCnt' \in {adrCnt, adrCnt + 1}
      /\ cycle_cnt' \in {cycle_cnt, cycle_cnt + 1}
  BY RingEffect
<1>3. pushed \in Nat /\ adrCnt \in Nat /\ cycle_cnt \in Nat
  BY Counters
<1>4. seen \in [tick : Ticks, adr : Ticks] /\ seen.adr <= adrCnt /\ seen.tick <= pushed
      /\ seen.adr \in Nat /\ seen.tick \in Nat
  BY DEF RunInv, Ticks
<1>5. Clear' => Clear
  BY <1>1, <1>2, <1>4, ClearBefore
<1>6. RunInv'
  BY <1>1, <1>2, <1>3, <1>4 DEF RunInv, Placed, OnLap
<1>7. WarmInv'
  <2> SUFFICES ASSUME pcS \notin {"index", "gate"}, NEW c \in DOMAIN Reads
               PROVE  adrCnt' > Reads[c].lead + Interval(c)
    BY <1>1 DEF WarmInv, Interval
  <2>1. adrCnt > Reads[c].lead + Interval(c)
    BY DEF WarmInv
  <2>2. Reads[c].lead \in Nat /\ Interval(c) \in Nat
    BY StrategyConstants
  <2> QED BY <1>2, <1>3, <2>1, <2>2
<1>8. GetterInv'
  <2>1. Reading' = Reading
    BY <1>1 DEF Reading
  <2> QED BY <1>1, <1>5, <2>1 DEF GetterInv
<1>9. GotInv'
  <2> SUFFICES ASSUME NEW c \in 1 .. Len(got)
               PROVE  /\ Clear' => TrueRatio(c, got[c])'
                      /\ c \in Current => got[c] = NoRatio \/ TrueRatio(c, got[c])'
    BY <1>1 DEF GotInv, Current, NoRatio
  <2>1. TrueRatio(c, got[c]) => TrueRatio(c, got[c])'
    <3> SUFFICES ASSUME TrueRatio(c, got[c]) PROVE TrueRatio(c, got[c])'
      OBVIOUS
    <3>1. \E t \in seen'.adr .. adrCnt' :
           LET back == t - Reads[c].lead IN
           got[c] = [cur |-> back, old |-> back - ADRInterval[Reads[c].ratio]]
      BY <1>1, <1>2, <1>4, StaysTrue
    <3> QED BY <1>1, <3>1 DEF TrueRatio
  <2> QED BY <1>5, <2>1 DEF GotInv
<1>10. TradeInv'
  <2>1. pointType = 1 => bought.ratio.cur <= IF pcS = "index" THEN adrCnt' ELSE seen.adr
    <3> SUFFICES ASSUME pointType = 1
                 PROVE  bought.ratio.cur <= IF pcS = "index" THEN adrCnt' ELSE seen.adr
      OBVIOUS
    <3>1. bought.ratio.cur \in Nat
      BY DEF TradeInv, Ratios, Ticks
    <3> QED BY <1>2, <1>3, <3>1 DEF TradeInv
  <2>2. SoldOnNewerRatio' /\ ProfitOfTheTrade'
    BY <1>1 DEF TradeInv, SoldOnNewerRatio, ProfitOfTheTrade
  <2> QED BY <1>1, <2>1, <2>2 DEF TradeInv, Placed, OnLap, Interval
<1> QED BY <1>6, <1>7, <1>8, <1>9, <1>10

-----------------------------------------------------------------------------
(* The steps of Run. None of them writes the ring.                         *)

(* What Run leaves alone of the ring, a variable at a time.                *)
LEMMA RingFrame ==
  ASSUME UNCHANGED ringAll
  PROVE  /\ UNCHANGED <<price, md_index, cycle_cnt, cal_ma_index, mt, ma, cal_adr_index, adr>>
         /\ UNCHANGED <<pcW, pcC, k, wrapped, pushed, maCnt, adrCnt>>
BY DEF ringAll, ring, average, ratio, local

(* The position of a trade is not touched by a step that neither begins a   *)
(* Run nor buys or sells.                                                  *)
LEMMA TradeFrame ==
  ASSUME RunInv, TradeInv, adrCnt \in Nat, pcS # "index", pcS' # "sell",
         adrCnt' = adrCnt, buyPrice' = buyPrice, UNCHANGED <<block, history>>
  PROVE  TradeInv'
<1>1. /\ pointType' = pointType /\ buyMdIndex' = buyMdIndex
      /\ seen' = seen /\ bought' = bought /\ sale' = sale
  BY DEF block, history
<1>2. pointType = 1 => bought.ratio.cur <= IF pcS' = "index" THEN adrCnt ELSE seen.adr
  <2>1. bought.ratio.cur \in Nat /\ seen.adr \in Nat /\ seen.adr <= adrCnt
    BY DEF TradeInv, RunInv, Ratios, Ticks
  <2> QED BY <2>1 DEF TradeInv
<1>3. SoldOnNewerRatio' /\ ProfitOfTheTrade'
  BY <1>1 DEF TradeInv, SoldOnNewerRatio, ProfitOfTheTrade
<1> QED BY <1>1, <1>2, <1>3 DEF TradeInv, Placed, OnLap, Interval

(* Run begins: it takes md_index for the newest tick.                      *)
LEMMA ReadIndexInv == SIndInv /\ ReadIndex => SInv'
<1> SUFFICES ASSUME SIndInv, ReadIndex PROVE SInv'
  OBVIOUS
<1> USE DEF SIndInv, SInv
<1>1. /\ UNCHANGED ringAll /\ UNCHANGED <<block, sWrapped, offset, got, buyPrice, bought>>
      /\ pcS = "index" /\ pcS' = "gate" /\ lastMdIndex' = md_index
      /\ seen' = [tick |-> pushed, adr |-> adrCnt] /\ sale' = NoSale
  BY DEF ReadIndex
<1>2. /\ pushed' = pushed /\ adrCnt' = adrCnt /\ cycle_cnt' = cycle_cnt
      /\ pushed \in Nat /\ adrCnt \in Nat /\ pushed \in Ticks /\ adrCnt \in Ticks
  BY <1>1, RingFrame, Counters
<1>3. RunInv'
  <2>1. Placed(pushed, md_index) /\ OnLap(pushed, md_index)
    BY WriterLap DEF IndInv, WriterInv, OnLap
  <2>2. cycle_cnt = 0 => md_index + 1 = pushed
    BY Constants DEF IndInv, WriterInv, WrapPending, Placed, Slots
  <2>3. got = <<>> /\ Len(got) = 0
    BY <1>1 DEF RunInv
  <2> QED BY <1>1, <1>2, <2>1, <2>2, <2>3 DEF RunInv, StrategySteps, Placed, OnLap
<1>4. WarmInv' /\ GetterInv'
  BY <1>1 DEF WarmInv, GetterInv
<1>5. GotInv'
  <2>1. 1 .. Len(got') = {}
    BY <1>1 DEF RunInv
  <2> QED BY <2>1 DEF GotInv
<1>6. TradeInv'
  <2>1. bought.tick <= pushed
    BY <1>2 DEF TradeInv, RunInv, Ticks
  <2>2. pointType = 1 => bought.ratio.cur <= adrCnt
    BY <1>1 DEF TradeInv
  <2>3. /\ NoSale \in [buy : Ticks, paid : Ticks, sellTick : Ticks, last : Ticks]
        /\ ProfitOfTheTrade'
    BY <1>1, Constants DEF NoSale, ProfitOfTheTrade, Ticks
  <2>4. SoldOnNewerRatio'
    BY <1>1 DEF SoldOnNewerRatio
  <2>5. pointType' = pointType /\ buyMdIndex' = buyMdIndex
    BY <1>1 DEF block
  <2>6. seen'.tick = pushed /\ seen'.adr = adrCnt
    BY <1>1
  <2> QED BY <1>1, <2>1, <2>2, <2>3, <2>4, <2>5, <2>6 DEF TradeInv, Placed, OnLap, Interval
<1> QED BY <1>3, <1>4, <1>5, <1>6

(* Once the ring has been filled, or the warm-up is over, Calculator is     *)
(* beyond every look-back.                                                 *)
LEMMA WarmEnough ==
  ASSUME IndInv, RunInv, ~(cycle_cnt = 0 /\ lastMdIndex < Warmup), NEW c \in DOMAIN Reads
  PROVE  adrCnt > Reads[c].lead + Interval(c)
<1>1. /\ pushed \in Nat /\ adrCnt \in Nat /\ cycle_cnt \in Nat
      /\ lastMdIndex \in Int /\ seen.tick \in Nat /\ seen.tick <= pushed
  BY Counters, Constants DEF RunInv, Placed, Slots, Ticks
<1>2. pushed + (IF pcW = "idle" THEN 0 ELSE 1) <= adrCnt + MaxLag
  BY DEF IndInv, PhaseInv, Follows
<1>3. /\ Reads[c].lead \in Nat /\ Interval(c) \in Nat \ {0}
      /\ MaxLag + Reads[c].lead + Interval(c) <= Warmup
      /\ Warmup \in Nat /\ Warmup <= RING_SIZE /\ MaxLag \in Nat /\ RING_SIZE \in Nat
  BY StrategyConstants
<1> DEFINE need == Reads[c].lead + Interval(c)
<1>4. need \in Nat /\ MaxLag + need <= Warmup
  BY <1>3
<1> HIDE DEF need
<1>5. CASE cycle_cnt = 0
  <2>1. lastMdIndex >= Warmup /\ lastMdIndex + 1 = seen.tick
    BY <1>1, <1>3, <1>5 DEF RunInv
  <2>2. adrCnt > need
    BY <1>1, <1>2, <1>3, <1>4, <2>1
  <2> QED BY <2>2 DEF need
<1>6. CASE cycle_cnt # 0
  <2> DEFINE laps == RING_SIZE * cycle_cnt
  <2>1. /\ md_index \in Int /\ md_index >= -1 /\ laps \in Int
        /\ laps + md_index + 1 = pushed + (IF WrapPending THEN RING_SIZE ELSE 0)
        /\ pushed = 0 <=> md_index = -1
    BY <1>1, Constants DEF IndInv, WriterInv, Placed, Slots
  <2>2. laps >= RING_SIZE
    <3> DEFINE d == cycle_cnt - 1
    <3>1. d \in Nat
      BY <1>1, <1>6
    <3>2. RING_SIZE * d >= 0 /\ RING_SIZE * d = laps - RING_SIZE
      BY <1>1, <3>1, Constants
    <3> QED BY <2>1, <3>2, Constants
  <2> HIDE DEF laps
  <2>3. pushed + (IF pcW = "idle" THEN 0 ELSE 1) > RING_SIZE
    <3>1. CASE WrapPending
      <4>1. md_index + 1 = RING_SIZE /\ pcW # "idle"
        BY <3>1 DEF WrapPending
      <4> QED BY <1>1, <1>3, <2>1, <2>2, <3>1, <4>1
    <3>2. CASE ~WrapPending
      <4>1. pushed # 0
        BY <1>3, <2>1, <2>2, <3>2, Constants
      <4>2. md_index >= 0
        BY <2>1, <4>1
      <4> QED BY <1>1, <1>3, <2>1, <2>2, <3>2, <4>2
    <3> QED BY <3>1, <3>2
  <2>4. adrCnt > need
    BY <1>1, <1>2, <1>3, <1>4, <2>3
  <2> QED BY <2>4 DEF need
<1> QED BY <1>5, <1>6

(* The warm-up test.                                                       *)
LEMMA GateInv == SIndInv /\ Gate => SInv'
<1> SUFFICES ASSUME SIndInv, Gate PROVE SInv'
  OBVIOUS
<1> USE DEF SIndInv, SInv
<1>1. /\ UNCHANGED ringAll
      /\ UNCHANGED <<block, lastMdIndex, sWrapped, offset, got, buyPrice, history>>
      /\ pcS = "gate"
      /\ pcS' = IF cycle_cnt = 0 /\ lastMdIndex < Warmup THEN "index" ELSE "cycle"
  BY DEF Gate
<1>2. /\ pushed' = pushed /\ adrCnt' = adrCnt /\ cycle_cnt' = cycle_cnt
      /\ adrCnt \in Nat /\ seen' = seen
  BY <1>1, RingFrame, Counters DEF history
<1>3. RunInv'
  <2>1. Len(got) = 0 /\ Len(Reads) > 0
    BY <1>1, StrategyConstants DEF RunInv
  <2> QED BY <1>1, <1>2, <2>1 DEF RunInv, StrategySteps, Placed, OnLap
<1>4. WarmInv'
  <2> SUFFICES ASSUME pcS' # "index", NEW c \in DOMAIN Reads
               PROVE  adrCnt > Reads[c].lead + Interval(c)
    BY <1>2 DEF WarmInv, Interval
  <2> QED BY <1>1, WarmEnough
<1>5. GetterInv'
  BY <1>1 DEF GetterInv
<1>6. GotInv'
  <2>1. 1 .. Len(got') = {}
    BY <1>1 DEF RunInv
  <2> QED BY <2>1 DEF GotInv
<1>7. TradeInv'
  BY <1>1, <1>2, TradeFrame
<1> QED BY <1>3, <1>4, <1>5, <1>6, <1>7

-----------------------------------------------------------------------------
(* A getter.                                                               *)

(* A getter loads cycle_cnt: 0 means that Run began in the first pass.      *)
LEMMA GetCycleInv == SIndInv /\ GetCycle => SInv'
<1> SUFFICES ASSUME SIndInv, GetCycle PROVE SInv'
  OBVIOUS
<1> USE DEF SIndInv, SInv
<1>1. /\ UNCHANGED ringAll
      /\ UNCHANGED <<block, lastMdIndex, offset, got, buyPrice, history>>
      /\ pcS = "cycle" /\ pcS' = "test" /\ sWrapped' = (cycle_cnt # 0)
  BY DEF GetCycle
<1>2. /\ pushed' = pushed /\ adrCnt' = adrCnt /\ cycle_cnt' = cycle_cnt
      /\ adrCnt \in Nat /\ seen' = seen /\ pushed \in Nat /\ adrCnt <= pushed
  BY <1>1, RingFrame, Counters DEF history
<1>3. RunInv'
  BY <1>1, <1>2 DEF RunInv, StrategySteps, Placed, OnLap
<1>4. WarmInv'
  BY <1>1, <1>2 DEF WarmInv, Interval
<1>5. GetterInv'
  <2>1. cycle_cnt = 0 => seen.adr <= RING_SIZE
    <3> SUFFICES ASSUME cycle_cnt = 0 PROVE seen.adr <= RING_SIZE
      OBVIOUS
    <3>1. md_index \in Int /\ md_index < RING_SIZE /\ md_index + 1 >= pushed
      BY <1>2, Constants DEF IndInv, WriterInv, Placed, Slots
    <3>2. seen.adr \in Nat /\ seen.adr <= adrCnt
      BY DEF RunInv, Ticks
    <3> QED BY <1>2, <3>1, <3>2, Constants
  <2> QED BY <1>1, <1>2, <2>1 DEF GetterInv
<1>6. GotInv'
  BY <1>1, <1>2 DEF GotInv, Clear, ClearOfWrap, TrueRatio
<1>7. TradeInv'
  BY <1>1, <1>2, TradeFrame
<1> QED BY <1>3, <1>4, <1>5, <1>6, <1>7

(* What a getter returns is added to what Run has read.                    *)
LEMMA ReturnInv ==
  ASSUME SIndInv, pcS \in {"test", "load"}, NEW v \in Read, Return(v), UNCHANGED ringAll,
         UNCHANGED <<block, lastMdIndex, buyPrice, history>>,
         Clear => TrueRatio(Len(got) + 1, v),
         Reading.lead = 0 => v = NoRatio \/ TrueRatio(Len(got) + 1, v)
  PROVE  SInv'
<1> USE DEF SIndInv, SInv
<1>1. /\ got' = Append(got, v) /\ offset' = 0 /\ sWrapped' = FALSE
      /\ pcS' = IF Len(got) + 1 = Len(Reads) THEN "decide" ELSE "cycle"
  BY DEF Return
<1>2. /\ pushed' = pushed /\ adrCnt' = adrCnt /\ cycle_cnt' = cycle_cnt
      /\ adrCnt \in Nat /\ seen' = seen
  BY RingFrame, Counters DEF history
<1>3. /\ got \in Seq(Read) /\ Len(got) \in Nat /\ Len(got) < Len(Reads) /\ Len(Reads) \in Nat
      /\ got' \in Seq(Read) /\ Len(got') = Len(got) + 1
      /\ got'[Len(got) + 1] = v /\ \A c \in 1 .. Len(got) : got'[c] = got[c]
  <2>1. /\ got \in Seq(Read) /\ Len(got) \in Nat /\ Len(got) < Len(Reads)
        /\ Len(Reads) \in Nat
    BY StrategyConstants DEF RunInv
  <2> HIDE DEF SIndInv, SInv
  <2>2. /\ got' \in Seq(Read) /\ Len(got') = Len(got) + 1
        /\ got'[Len(got) + 1] = v /\ \A c \in 1 .. Len(got) : got'[c] = got[c]
    BY <1>1, <2>1
  <2> QED BY <2>1, <2>2
<1>4. RunInv'
  BY <1>1, <1>2, <1>3 DEF RunInv, StrategySteps, Placed, OnLap
<1>5. WarmInv'
  BY <1>1, <1>2 DEF WarmInv, Interval
<1>6. GetterInv'
  BY <1>1, StrategyConstants DEF GetterInv
<1>7. GotInv'
  <2> SUFFICES ASSUME NEW c \in 1 .. Len(got')
               PROVE  /\ Clear => TrueRatio(c, got'[c])
                      /\ c \in Current => got'[c] = NoRatio \/ TrueRatio(c, got'[c])
    BY <1>2 DEF GotInv, Clear, ClearOfWrap, TrueRatio
  <2>1. CASE c = Len(got) + 1
    <3>1. c \in Current => Reading.lead = 0
      BY <2>1 DEF Current, Reading
    <3> QED BY <1>3, <2>1, <3>1
  <2>2. CASE c # Len(got) + 1
    <3>1. c \in 1 .. Len(got)
      BY <1>3, <2>2
    <3> QED BY <1>3, <3>1 DEF GotInv
  <2> QED BY <2>1, <2>2
<1>8. TradeInv'
  BY <1>1, <1>2, TradeFrame
<1> QED BY <1>4, <1>5, <1>6, <1>7, <1>8

(* Clear of the wrap, a getter's look back stays within the pass.          *)
LEMMA ClearIndex ==
  ASSUME IndInv, RunInv, NEW c \in DOMAIN Reads, adrCnt > Reads[c].lead + Interval(c)
  PROVE  /\ cal_adr_index \in Slots
         /\ Clear \/ Reads[c].lead = 0 => cal_adr_index >= Reads[c].lead
         /\ adrCnt <= RING_SIZE => cal_adr_index = adrCnt - 1
<1>1. /\ adrCnt \in Nat /\ WriterInv /\ Follows(adrCnt, cal_adr_index)
      /\ Reads[c].lead \in Nat /\ Interval(c) \in Nat
      /\ RING_SIZE \in Nat
  BY Counters, StrategyConstants DEF IndInv, PhaseInv
<1> DEFINE lead == Reads[c].lead
<1>2. adrCnt > lead /\ adrCnt > 0 /\ lead \in Nat
  BY <1>1
<1>3. cal_adr_index = Slot(adrCnt) /\ cal_adr_index \in Slots
  <2>1. cal_adr_index \in Slots
    BY <1>1, <1>2 DEF Follows, Placed
  <2> QED BY <1>1, <1>2, <2>1, IndexIsSlot
<1> HIDE DEF lead
<1>4. adrCnt <= RING_SIZE => cal_adr_index = adrCnt - 1
  BY <1>1, <1>2, <1>3, SlotFirst
<1>5. CASE adrCnt <= RING_SIZE
  <2>1. cal_adr_index >= lead
    BY <1>1, <1>2, <1>4, <1>5
  <2> QED BY <1>3, <1>4, <2>1 DEF lead
<1>6. CASE ClearOfWrap
  <2>1. (seen.adr - 1) % RING_SIZE >= lead /\ Slot(adrCnt) >= Slot(seen.adr)
    BY <1>6 DEF ClearOfWrap, lead
  <2>2. Slot(seen.adr) = (seen.adr - 1) % RING_SIZE
    BY DEF Slot
  <2>3. Slot(seen.adr) \in Int
    <3>1. seen.adr - 1 \in Int
      BY DEF RunInv, Ticks
    <3> QED BY <2>2, <3>1, Constants
  <2>4. cal_adr_index >= lead
    BY <1>2, <1>3, <2>1, <2>2, <2>3 DEF Slots
  <2> QED BY <1>3, <1>4, <2>4 DEF lead
<1>7. CASE lead = 0
  BY <1>3, <1>4, <1>7 DEF lead, Slots
<1>8. CASE ~Clear /\ lead # 0
  BY <1>3, <1>4, <1>8 DEF lead
<1> QED BY <1>5, <1>6, <1>7, <1>8 DEF Clear

(* A getter that finds no look-back is not clear of the wrap.              *)
LEMMA ColdOnlyAtWrap ==
  ASSUME SIndInv, pcS = "test", ~sWrapped, NEW c \in DOMAIN Reads,
         ~(cal_adr_index - Reads[c].guard >= Interval(c))
  PROVE  ~Clear
<1> USE DEF SIndInv, SInv
<1> DEFINE lead == Reads[c].lead
           guard == Reads[c].guard
           interval == Interval(c)
<1>1. /\ adrCnt \in Nat /\ seen.adr \in Nat /\ RING_SIZE \in Nat \ {0}
      /\ lead \in Nat /\ guard \in Nat /\ guard <= lead /\ interval \in Nat
      /\ adrCnt > lead + interval
  BY Counters, StrategyConstants DEF WarmInv, RunInv, Ticks
<1>2. /\ cal_adr_index \in Slots
      /\ adrCnt <= RING_SIZE => cal_adr_index = adrCnt - 1
  BY <1>1, ClearIndex
<1>3. ~(cal_adr_index - guard >= interval)
  OBVIOUS
<1> HIDE DEF lead, guard, interval
<1>4. adrCnt > RING_SIZE
  <2>1. ASSUME adrCnt <= RING_SIZE PROVE FALSE
    BY <1>1, <1>2, <1>3, <2>1
  <2> QED BY <1>1, <2>1
<1>5. ASSUME ClearOfWrap PROVE FALSE
  <2>1. adrCnt - seen.adr < RING_SIZE /\ Slot(adrCnt) >= Slot(seen.adr)
    BY <1>5 DEF ClearOfWrap
  <2>2. seen.adr <= RING_SIZE
    BY DEF GetterInv
  <2>3. seen.adr > 0 /\ adrCnt <= 2 * RING_SIZE
    BY <1>1, <1>4, <2>1, <2>2
  <2>4. Slot(seen.adr) = seen.adr - 1
    BY <1>1, <2>2, <2>3, SlotFirst
  <2>5. Slot(adrCnt) = adrCnt - 1 - RING_SIZE
    BY <1>1, <1>4, <2>3, SlotSecond
  <2> QED BY <1>1, <1>4, <2>1, <2>4, <2>5
<1> QED BY <1>1, <1>4, <1>5 DEF Clear

(* A getter's test against the look-back.                                  *)
LEMMA GetTestInv == SIndInv /\ GetTest => SInv'
<1> SUFFICES ASSUME SIndInv, GetTest PROVE SInv'
  OBVIOUS
<1> USE DEF SIndInv, SInv
<1> DEFINE c == Len(got) + 1
<1>1. /\ UNCHANGED ringAll /\ UNCHANGED <<block, lastMdIndex, buyPrice, history>>
      /\ pcS = "test" /\ Reading = Reads[c] /\ ADRInterval[Reading.ratio] = Interval(c)
  BY DEF GetTest, Reading, Interval
<1>2. c \in DOMAIN Reads
  BY <1>1, StrategyConstants DEF RunInv
<1>3. adrCnt > Reads[c].lead + Interval(c)
  BY <1>1, <1>2 DEF WarmInv
<1> DEFINE warm == cal_adr_index - Reading.guard >= ADRInterval[Reading.ratio]
<1>4. CASE ~sWrapped /\ ~warm
  <2>1. Return(NoRatio)
    BY <1>4 DEF GetTest
  <2>2. ~Clear
    BY <1>1, <1>2, <1>4, ColdOnlyAtWrap
  <2>3. NoRatio \in Read
    BY Constants DEF NoRatio, Read, Ratios, Ticks
  <2> QED BY <1>1, <2>1, <2>2, <2>3, ReturnInv
<1>5. CASE ~(~sWrapped /\ ~warm)
  <2>1. /\ offset' = IF sWrapped /\ cal_adr_index - Reading.lead < 0 THEN ST_SIZE ELSE 0
        /\ pcS' = "load" /\ UNCHANGED <<got, sWrapped>>
    BY <1>5 DEF GetTest
  <2>2. /\ pushed' = pushed /\ adrCnt' = adrCnt /\ cycle_cnt' = cycle_cnt
        /\ adrCnt \in Nat /\ seen' = seen /\ lastMdIndex' = lastMdIndex
    BY <1>1, RingFrame, Counters DEF history
  <2>3. RunInv'
    BY <1>1, <2>1, <2>2 DEF RunInv, StrategySteps, Placed, OnLap
  <2>4. WarmInv'
    BY <1>1, <2>1, <2>2 DEF WarmInv, Interval
  <2>5. GetterInv'
    <3>1. Clear \/ Reading.lead = 0 => offset' = 0
      <4>1. cal_adr_index \in Int /\ Reading.lead \in Nat
        BY <1>1, <1>2, <1>3, ClearIndex, StrategyConstants DEF Slots
      <4>2. Clear \/ Reading.lead = 0 => cal_adr_index >= Reading.lead
        BY <1>1, <1>2, <1>3, ClearIndex
      <4> QED BY <2>1, <4>1, <4>2
    <3>2. Clear' = Clear /\ Reading' = Reading
      BY <2>1, <2>2 DEF Clear, ClearOfWrap, Reading
    <3> QED BY <2>1, <3>1, <3>2 DEF GetterInv
  <2>6. GotInv'
    BY <2>1, <2>2 DEF GotInv, Clear, ClearOfWrap, TrueRatio
  <2>7. TradeInv'
    BY <1>1, <2>1, <2>2, TradeFrame
  <2> QED BY <2>3, <2>4, <2>5, <2>6, <2>7
<1> QED BY <1>4, <1>5

(* What the slot `lead` behind Calculator's holds.                         *)
LEMMA LoadTrue ==
  ASSUME IndInv, RunInv, NEW c \in DOMAIN Reads, adrCnt > Reads[c].lead + Interval(c),
         cal_adr_index >= Reads[c].lead
  PROVE  /\ cal_adr_index - Reads[c].lead \in Slots
         /\ TrueRatio(c, adr[Reads[c].ratio][cal_adr_index - Reads[c].lead])
<1> DEFINE lead == Reads[c].lead
           interval == Interval(c)
           i == cal_adr_index - lead
           r == Reads[c].ratio
           t == adrCnt - lead
<1>1. /\ adrCnt \in Nat /\ seen.adr \in Nat /\ seen.adr <= adrCnt
      /\ lead \in Nat /\ interval \in Nat \ {0} /\ adrCnt > lead + interval
      /\ r \in ADRs /\ interval = ADRInterval[r] /\ lead + 2 <= RING_SIZE
      /\ RING_SIZE \in Nat
  <2>1. adrCnt \in Nat /\ seen.adr \in Nat /\ seen.adr <= adrCnt
    BY Counters DEF RunInv, Ticks
  <2>2. /\ r \in ADRs /\ lead \in Nat /\ interval \in Nat \ {0} /\ MaxLag \in Nat \ {0}
        /\ MaxLag + lead + interval <= Warmup /\ Warmup \in Nat
        /\ Warmup <= RING_SIZE /\ RING_SIZE \in Nat
    BY StrategyConstants
  <2>3. interval = ADRInterval[r]
    BY DEF Interval
  <2> HIDE DEF lead, interval, r
  <2>4. lead + 2 <= RING_SIZE
    BY <2>2
  <2>5. adrCnt > lead + interval
    BY DEF lead, interval
  <2> QED BY <2>1, <2>2, <2>3, <2>4, <2>5
<1>2. cal_adr_index \in Slots /\ cal_adr_index >= lead
  BY ClearIndex
<1> HIDE DEF lead, interval, r
<1>3. i \in Slots /\ i <= cal_adr_index
  BY <1>1, <1>2 DEF Slots
<1>4. Holds(adrCnt, cal_adr_index, i) = t
  BY <1>1, <1>2, <1>3 DEF Holds, Slots
<1>5. Holds(adrCnt + 1, Succ(cal_adr_index), i) = t
  <2>1. Succ(cal_adr_index) = IF cal_adr_index + 1 = RING_SIZE THEN 0 ELSE cal_adr_index + 1
    BY <1>2, SuccIs
  <2>2. i # Succ(cal_adr_index)
    BY <1>1, <1>2, <2>1 DEF Slots
  <2> HIDE DEF i, t
  <2> QED BY <1>1, <1>2, <1>3, <1>4, <2>2, HoldsNext
<1>6. adr[r][i] = RatioOf(t, interval)
  <2> HIDE DEF i, t
  <2> QED BY <1>1, <1>3, <1>4, <1>5 DEF IndInv, RatioInv
<1>7. t > interval
  BY <1>1
<1>8. adr[r][i] = [cur |-> t, old |-> t - interval]
  BY <1>6, <1>7 DEF RatioOf
<1>9. adrCnt \in seen.adr .. adrCnt
  BY <1>1
<1> QED BY <1>1, <1>3, <1>8, <1>9 DEF TrueRatio, lead, r

(* A getter's load of the ratio.                                           *)
LEMMA GetLoadInv == SIndInv /\ GetLoad => SInv'
<1> SUFFICES ASSUME SIndInv, GetLoad PROVE SInv'
  OBVIOUS
<1> USE DEF SIndInv, SInv
<1> DEFINE c == Len(got) + 1
           index == offset + cal_adr_index - Reads[c].lead
           v == IF index \in Slots THEN adr[Reads[c].ratio][index] ELSE Stray
<1>1. /\ UNCHANGED ringAll /\ UNCHANGED <<block, lastMdIndex, buyPrice, history>>
      /\ pcS = "load" /\ Reading = Reads[c] /\ Return(v)
  BY DEF GetLoad, Reading
<1>2. c \in DOMAIN Reads
  BY <1>1, StrategyConstants DEF RunInv
<1>3. adrCnt > Reads[c].lead + Interval(c)
  BY <1>1, <1>2 DEF WarmInv
<1>4. v \in Read
  <2>1. Reads[c].ratio \in ADRs /\ adr \in [ADRs -> [Slots -> Ratios]]
    BY <1>2, StrategyConstants DEF IndInv, RatioInv
  <2> HIDE DEF c, index
  <2> QED BY <2>1 DEF Read
<1>5. Clear \/ Reads[c].lead = 0 => TrueRatio(c, v)
  <2> SUFFICES ASSUME Clear \/ Reads[c].lead = 0 PROVE TrueRatio(c, v)
    OBVIOUS
  <2>1. offset = 0
    BY <1>1 DEF GetterInv
  <2>2. cal_adr_index \in Slots /\ cal_adr_index >= Reads[c].lead
    BY <1>2, <1>3, ClearIndex
  <2>3. /\ cal_adr_index - Reads[c].lead \in Slots
        /\ TrueRatio(c, adr[Reads[c].ratio][cal_adr_index - Reads[c].lead])
    BY <1>2, <1>3, <2>2, LoadTrue
  <2>4. index = cal_adr_index - Reads[c].lead
    <3>1. Reads[c].lead \in Nat /\ cal_adr_index \in Int
      BY <1>2, <2>2, StrategyConstants DEF Slots
    <3> QED BY <2>1, <3>1
  <2> HIDE DEF index, c
  <2> QED BY <2>3, <2>4
<1> HIDE DEF v
<1>6. pcS \in {"test", "load"}
  BY <1>1
<1> QED BY <1>1, <1>4, <1>5, <1>6, ReturnInv

-----------------------------------------------------------------------------
(* The decision.                                                           *)

(* Most of the invariant is about the reading of ratios, which is over.     *)
LEMMA RunOver ==
  ASSUME SIndInv, pcS \in {"decide", "sell"}, pcS' = "index", UNCHANGED ringAll,
         got' = <<>>, UNCHANGED <<lastMdIndex, sWrapped, offset, seen>>
  PROVE  RunInv' /\ WarmInv' /\ GetterInv' /\ GotInv'
<1> USE DEF SIndInv, SInv
<1>1. pushed' = pushed /\ adrCnt' = adrCnt /\ cycle_cnt' = cycle_cnt
  BY RingFrame
<1>2. RunInv'
  <2>1. Len(got') = 0 /\ Len(Reads) \in Nat
    BY StrategyConstants
  <2> QED BY <1>1, <2>1 DEF RunInv, StrategySteps, Placed, OnLap
<1>3. WarmInv' /\ GetterInv'
  BY DEF WarmInv, GetterInv
<1>4. GotInv'
  <2>1. 1 .. Len(got') = {}
    OBVIOUS
  <2> QED BY <2>1 DEF GotInv
<1> QED BY <1>2, <1>3, <1>4

(* Run does nothing.                                                       *)
LEMMA HoldInv == SIndInv /\ Hold => SInv'
<1> SUFFICES ASSUME SIndInv, Hold PROVE SInv'
  OBVIOUS
<1> USE DEF SIndInv, SInv
<1>1. /\ UNCHANGED ringAll /\ pcS = "decide" /\ pcS' = "index" /\ got' = <<>>
      /\ UNCHANGED <<block, lastMdIndex, sWrapped, offset, buyPrice, history>>
      /\ seen' = seen
  BY DEF Hold, history
<1>2. RunInv' /\ WarmInv' /\ GetterInv' /\ GotInv'
  BY <1>1, RunOver
<1>3. adrCnt' = adrCnt /\ adrCnt \in Nat
  BY <1>1, RingFrame, Counters
<1>4. TradeInv'
  BY <1>1, <1>3, TradeFrame
<1> QED BY <1>2, <1>4

(* The ratio a decision to buy or sell is taken on.                        *)
LEMMA DecidingRatio ==
  ASSUME SIndInv, pcS = "decide", got[SellRead] # NoRatio
  PROVE  /\ got[SellRead] \in Ratios
         /\ got[SellRead].old = got[SellRead].cur - Interval(SellRead)
         /\ seen.adr <= got[SellRead].cur /\ got[SellRead].cur <= adrCnt
<1> USE DEF SIndInv, SInv
<1>1. SellRead \in 1 .. Len(got) /\ SellRead \in Current /\ Reads[SellRead].lead = 0
  BY StrategyConstants DEF RunInv, Current
<1>2. TrueRatio(SellRead, got[SellRead])
  BY <1>1 DEF GotInv
<1>3. PICK t \in seen.adr .. adrCnt :
        got[SellRead] = [cur |-> t - Reads[SellRead].lead,
                         old |-> t - Reads[SellRead].lead - ADRInterval[Reads[SellRead].ratio]]
  BY <1>2 DEF TrueRatio
<1>4. t \in Nat /\ t - Reads[SellRead].lead = t
  BY <1>1, <1>3, Counters DEF RunInv, Ticks
<1>5. got[SellRead].cur = t /\ got[SellRead].old = t - Interval(SellRead)
  BY <1>3, <1>4 DEF Interval
<1>6. got[SellRead] \in Ratios
  <2>1. got[SellRead] \in Read
    BY <1>1 DEF RunInv
  <2>2. got[SellRead] # Stray
    BY <1>4, <1>5 DEF Stray
  <2> QED BY <2>1, <2>2 DEF Read
<1>7. seen.adr \in Nat /\ adrCnt \in Nat
  BY Counters DEF RunInv, Ticks
<1> QED BY <1>3, <1>5, <1>6, <1>7

(* A buy.                                                                  *)
LEMMA BuyInv == SIndInv /\ Buy => SInv'
<1> SUFFICES ASSUME SIndInv, Buy PROVE SInv'
  OBVIOUS
<1> USE DEF SIndInv, SInv
<1>1. /\ UNCHANGED ringAll /\ pcS = "decide" /\ pcS' = "index" /\ got' = <<>>
      /\ UNCHANGED <<lastMdIndex, sWrapped, offset, buyPrice, seen, sale>>
      /\ pointType' = 1 /\ buyMdIndex' = lastMdIndex
      /\ bought' = [tick |-> seen.tick, ratio |-> got[SellRead]]
      /\ got[SellRead] # NoRatio
  BY StrategyAssumption DEF Buy, StrategyAssumption
<1>2. RunInv' /\ WarmInv' /\ GetterInv' /\ GotInv'
  BY <1>1, RunOver
<1>3. adrCnt' = adrCnt
  BY <1>1, RingFrame
<1>4. TradeInv'
  <2>1. /\ got[SellRead] \in Ratios
        /\ got[SellRead].old = got[SellRead].cur - Interval(SellRead)
        /\ got[SellRead].cur <= adrCnt
    BY <1>1, DecidingRatio
  <2>2. /\ seen.tick \in Ticks /\ seen.tick <= seen.tick
        /\ lastMdIndex \in Slots \union {-1}
        /\ Placed(seen.tick, lastMdIndex) /\ OnLap(seen.tick, lastMdIndex)
    BY DEF RunInv, Placed, Ticks
  <2>3. SoldOnNewerRatio' /\ ProfitOfTheTrade'
    BY <1>1 DEF TradeInv, SoldOnNewerRatio, ProfitOfTheTrade
  <2>4. bought'.tick = seen.tick /\ bought'.ratio = got[SellRead]
    BY <1>1
  <2>5. bought' \in [tick : Ticks, ratio : Ratios]
    BY <1>1, <2>1, <2>2
  <2> QED BY <1>1, <1>3, <2>1, <2>2, <2>3, <2>4, <2>5 DEF TradeInv, Placed, OnLap, Interval
<1> QED BY <1>2, <1>4

(* The price of the tick a position was bought at, read from the ring.      *)
LEMMA PriceAtSlot ==
  ASSUME IndInv, NEW n \in Nat, n <= pushed, NEW i \in Slots, OnLap(n, i)
  PROVE  price[i] \in Ticks /\ (price[i] # n => price[i] >= n + RING_SIZE)
<1> DEFINE newest == IF pcW = "idle" THEN pushed ELSE pushed + 1
           idx == IF pcW = "idle" THEN md_index ELSE Succ(md_index)
<1>1. /\ pushed \in Nat /\ md_index \in Slots \union {-1}
      /\ Succ(md_index) = IF md_index + 1 = RING_SIZE THEN 0 ELSE md_index + 1
      /\ RING_SIZE \in Nat \ {0} /\ i \in Int /\ 0 <= i /\ i < RING_SIZE
  BY SuccIs, Constants DEF IndInv, WriterInv, Placed, Slots
<1>2. newest \in Nat /\ n <= newest /\ idx \in Slots \union {-1}
  BY <1>1, SuccIs
<1>3. price[i] \in Ticks /\ price[i] = PriceOf(Holds(newest, idx, i))
  BY DEF IndInv, PriceInv
<1>4. PICK q \in Int : RING_SIZE * q + idx + 1 = newest
  <2>1. PICK q \in Int : RING_SIZE * q + md_index + 1 = pushed
    BY WriterLap DEF IndInv
  <2>2. CASE pcW = "idle"
    BY <2>1, <2>2
  <2>3. CASE pcW # "idle" /\ md_index + 1 # RING_SIZE
    <3> DEFINE laps == RING_SIZE * q
    <3>1. laps \in Int /\ laps + md_index + 1 = pushed
      BY <2>1, Constants
    <3> HIDE DEF laps
    <3>2. laps + idx + 1 = newest
      BY <1>1, <2>3, <3>1 DEF Slots
    <3> QED BY <3>2 DEF laps
  <2>4. CASE pcW # "idle" /\ md_index + 1 = RING_SIZE
    <3> DEFINE p == q + 1
               laps == RING_SIZE * q
    <3>1. laps \in Int /\ laps + md_index + 1 = pushed /\ p \in Int /\ RING_SIZE * p = laps + RING_SIZE
      BY <2>1, Constants
    <3> HIDE DEF laps, p
    <3>2. RING_SIZE * p + idx + 1 = newest
      BY <1>1, <2>4, <3>1 DEF Slots
    <3> QED BY <3>1, <3>2
  <2> QED BY <2>2, <2>3, <2>4
<1> DEFINE t == Holds(newest, idx, i)
           laps == RING_SIZE * q
           p == q - 1
<1>5. laps \in Int /\ laps + idx + 1 = newest /\ p \in Int /\ RING_SIZE * p = laps - RING_SIZE
  BY <1>4, Constants
<1> HIDE DEF newest, idx, p
<1>6. /\ t \in Int /\ newest - RING_SIZE < t /\ t <= newest
      /\ t = laps + i + 1 \/ t = laps - RING_SIZE + i + 1
  <2> HIDE DEF laps
  <2> QED BY <1>1, <1>2, <1>5 DEF Holds, Slots
<1> HIDE DEF t
<1>7. OnLap(t, i)
  BY <1>5, <1>6 DEF OnLap
<1>8. t # n => t >= n + RING_SIZE
  <2>1. /\ t \in Int /\ n \in Int /\ newest \in Int /\ i \in Int
        /\ newest - RING_SIZE < t /\ n <= newest
    BY <1>1, <1>2, <1>6
  <2>2. OnLap(t, i) /\ OnLap(n, i)
    BY <1>7
  <2>3. t # n => t >= n + RING_SIZE
    BY ONLY <2>1, <2>2, SameSlot
  <2> QED BY <2>3
<1>9. t > 0 \/ (t = n /\ n = 0)
  BY <1>1, <1>6, <1>8
<1>10. price[i] = t
  BY <1>3, <1>9 DEF PriceOf, t
<1> QED BY <1>3, <1>8, <1>10

(* The decision to sell.                                                   *)
LEMMA SellInv == SIndInv /\ Sell => SInv'
<1> SUFFICES ASSUME SIndInv, Sell PROVE SInv'
  OBVIOUS
<1> USE DEF SIndInv, SInv
<1>1. /\ UNCHANGED ringAll /\ pcS = "decide" /\ pcS' = "sell" /\ pointType = 1
      /\ UNCHANGED <<block, lastMdIndex, sWrapped, offset, got, history>>
      /\ got[SellRead] # NoRatio /\ got[SellRead] # bought.ratio
      /\ buyPrice' = IF buyMdIndex \in Slots THEN price[buyMdIndex] ELSE 0
  BY DEF Sell
<1>2. /\ pushed' = pushed /\ adrCnt' = adrCnt /\ cycle_cnt' = cycle_cnt
      /\ adrCnt \in Nat /\ pushed \in Nat
      /\ pointType' = pointType /\ buyMdIndex' = buyMdIndex
      /\ seen' = seen /\ bought' = bought /\ sale' = sale
  BY <1>1, RingFrame, Counters DEF block, history
<1>3. RunInv'
  BY <1>1, <1>2 DEF RunInv, StrategySteps, Placed, OnLap
<1>4. WarmInv' /\ GetterInv'
  BY <1>1, <1>2 DEF WarmInv, GetterInv, Interval
<1>5. GotInv'
  BY <1>1, <1>2 DEF GotInv, Clear, ClearOfWrap, TrueRatio
<1>6. buyPrice' \in Ticks /\ (buyPrice' # bought.tick => buyPrice' >= bought.tick + RING_SIZE)
  <2>1. /\ bought.tick \in Nat /\ bought.tick <= pushed
        /\ Placed(bought.tick, buyMdIndex) /\ OnLap(bought.tick, buyMdIndex)
    BY <1>1, <1>2 DEF TradeInv, RunInv, Ticks
  <2>2. CASE buyMdIndex \in Slots
    BY <1>1, <2>1, <2>2, PriceAtSlot
  <2>3. CASE buyMdIndex \notin Slots
    <3>1. bought.tick = 0 /\ buyPrice' = 0
      BY <1>1, <2>1, <2>3 DEF Placed
    <3> QED BY <3>1, Constants DEF Ticks
  <2> QED BY <2>2, <2>3
<1>7. SoldOnNewerRatio'
  <2>1. /\ got[SellRead] \in Ratios
        /\ got[SellRead].old = got[SellRead].cur - Interval(SellRead)
        /\ seen.adr <= got[SellRead].cur
    BY <1>1, DecidingRatio
  <2>2. /\ bought.ratio \in Ratios /\ bought.ratio.cur <= seen.adr
        /\ bought.ratio.old = bought.ratio.cur - Interval(SellRead)
    BY <1>1 DEF TradeInv
  <2>3. got[SellRead].cur # bought.ratio.cur
    <3> SUFFICES ASSUME got[SellRead].cur = bought.ratio.cur PROVE got[SellRead] = bought.ratio
      BY <1>1
    <3>1. got[SellRead].old = bought.ratio.old
      BY <2>1, <2>2
    <3> QED BY <2>1, <2>2, <3>1 DEF Ratios
  <2>4. seen.adr \in Nat /\ got[SellRead].cur \in Nat /\ bought.ratio.cur \in Nat
    BY <2>1, <2>2 DEF RunInv, Ratios, Ticks
  <2>5. got[SellRead].cur > bought.ratio.cur
    BY <2>1, <2>2, <2>3, <2>4
  <2> QED BY <1>1, <1>2, <2>5 DEF SoldOnNewerRatio
<1>8. ProfitOfTheTrade'
  BY <1>2 DEF TradeInv, ProfitOfTheTrade
<1>9. TradeInv'
  BY <1>1, <1>2, <1>6, <1>7, <1>8 DEF TradeInv, Placed, OnLap, Interval
<1> QED BY <1>3, <1>4, <1>5, <1>9

(* The newest price a strategy can read is of no tick before the newest.   *)
LEMMA LastPrice ==
  ASSUME IndInv, md_index >= 0
  PROVE  price[md_index] \in Ticks /\ price[md_index] >= pushed
<1>1. /\ pushed \in Nat /\ md_index \in Slots /\ WriterInv /\ PriceInv
  BY Constants DEF IndInv, WriterInv, Placed, Slots
<1>2. OnLap(pushed, md_index)
  BY <1>1, WriterLap DEF OnLap
<1>3. price[md_index] \in Ticks /\ (price[md_index] # pushed => price[md_index] >= pushed + RING_SIZE)
  BY <1>1, <1>2, PriceAtSlot
<1> QED BY <1>1, <1>3, Constants DEF Ticks

(* The sale.                                                               *)
LEMMA SellAtLastPriceInv == SIndInv /\ SellAtLastPrice => SInv'
<1> SUFFICES ASSUME SIndInv, SellAtLastPrice PROVE SInv'
  OBVIOUS
<1> USE DEF SIndInv, SInv
<1> DEFINE last == IF md_index >= 0 THEN price[md_index] ELSE 0
<1>1. /\ UNCHANGED ringAll /\ pcS = "sell" /\ pcS' = "index" /\ got' = <<>>
      /\ UNCHANGED <<buyMdIndex, lastMdIndex, sWrapped, offset, seen>>
      /\ sale' = [buy |-> bought.tick, paid |-> buyPrice, sellTick |-> seen.tick, last |-> last]
      /\ pointType' = 2 /\ bought' = NotBought /\ buyPrice' = 0
  BY DEF SellAtLastPrice
<1>2. RunInv' /\ WarmInv' /\ GetterInv' /\ GotInv'
  BY <1>1, RunOver
<1>3. /\ bought.tick \in Ticks /\ bought.tick <= seen.tick
      /\ seen.tick \in Ticks /\ seen.tick <= pushed /\ pushed \in Nat
      /\ buyPrice \in Ticks /\ (buyPrice # bought.tick => buyPrice >= bought.tick + RING_SIZE)
      /\ buyMdIndex \in Slots \union {-1}
  BY <1>1, Counters DEF TradeInv, RunInv
<1>4. last \in Ticks /\ (last > 0 => last >= pushed)
  BY LastPrice, Constants DEF Ticks
<1> HIDE DEF last
<1>5. /\ sale' \in [buy : Ticks, paid : Ticks, sellTick : Ticks, last : Ticks]
      /\ sale'.buy = bought.tick /\ sale'.paid = buyPrice /\ sale'.sellTick = seen.tick
      /\ sale'.last = last
  BY <1>1, <1>3, <1>4
<1>6. ProfitOfTheTrade'
  <2>1. last > 0 => last >= seen.tick
    BY <1>3, <1>4 DEF Ticks
  <2>2. seen.tick >= bought.tick
    BY <1>3 DEF Ticks
  <2> QED BY <1>3, <1>5, <2>1, <2>2 DEF ProfitOfTheTrade
<1>7. TradeInv'
  <2>1. /\ NotBought \in [tick : Ticks, ratio : Ratios] /\ NotBought.tick = 0
        /\ 0 \in Ticks /\ NotBought.tick <= seen.tick
    BY <1>3, Constants DEF NotBought, NoRatio, Ratios, Ticks
  <2>2. SoldOnNewerRatio'
    BY <1>1 DEF SoldOnNewerRatio
  <2> QED BY <1>1, <1>3, <1>5, <1>6, <2>1, <2>2 DEF TradeInv
<1> QED BY <1>2, <1>7

-----------------------------------------------------------------------------
(* What Run knows of the ring is right at every step of the three threads,  *)
(* for every ring size, look-backs, leads and warm-up.                     *)
THEOREM StrategyInvariant == SSpec => []SIndInv
<1>1. SIndInv /\ [SNext]_sVars => SIndInv'
  <2> SUFFICES ASSUME SIndInv, [SNext]_sVars PROVE SIndInv'
    OBVIOUS
  <2>1. CASE Next /\ UNCHANGED <<block, pcS, sLocal, history>>
    BY <2>1, RingStepInv, RingInductive DEF SIndInv
  <2>2. CASE Run
    <3>1. SInv'
      BY <2>2, ReadIndexInv, GateInv, GetCycleInv, GetTestInv, GetLoadInv,
         HoldInv, BuyInv, SellInv, SellAtLastPriceInv DEF Run, Getter
    <3>2. UNCHANGED ringAll
      BY <2>2 DEF Run, Getter, ReadIndex, Gate, GetCycle, GetTest, GetLoad,
         Hold, Buy, Sell, SellAtLastPrice
    <3>3. IndInv'
      BY <3>2, RingFrame, StutterInv DEF SIndInv, vars, ring, average, ratio, local
    <3> QED BY <3>1, <3>3 DEF SIndInv
  <2>3. CASE UNCHANGED sVars
    <3>1. UNCHANGED ringAll /\ UNCHANGED <<block, pcS, sLocal, history>>
      BY <2>3 DEF sVars
    <3>2. UNCHANGED vars
      BY <3>1, RingFrame DEF vars, ring, average, ratio, local
    <3> QED BY <3>1, <3>2, RingStepInv, StutterInv DEF SIndInv
  <2> QED BY <2>1, <2>2, <2>3 DEF SNext
<1> QED BY SInitInv, <1>1, PTL DEF SSpec

(* What a strategy loads and remembers are slots of the ring, and what its  *)
(* getters return are ratios, a stray one at worst.                        *)
THEOREM STypeCorrect == SSpec => []STypeOK
<1>1. SIndInv => STypeOK
  <2> SUFFICES ASSUME SIndInv PROVE STypeOK
    OBVIOUS
  <2>1. TypeOK
    BY InvTypes DEF SIndInv
  <2> QED BY <2>1 DEF SIndInv, SInv, RunInv, GetterInv, TradeInv, Placed, STypeOK
<1> QED BY <1>1, StrategyInvariant, PTL

(* Every ratio a decision is based on is of its tick and its distance.      *)
THEOREM RatiosAreTrue == SSpec => []RatiosTrue
<1>1. SIndInv => RatiosTrue
  <2> SUFFICES ASSUME SIndInv, pcS = "decide", NEW c \in DOMAIN Reads
               PROVE  /\ Clear => TrueRatio(c, got[c])
                      /\ c \in Current => got[c] = NoRatio \/ TrueRatio(c, got[c])
    BY DEF RatiosTrue, GateCoversLookback, CurrentRatiosTrue, Clear, Current
  <2>1. c \in 1 .. Len(got)
    BY StrategyConstants DEF SIndInv, SInv, RunInv
  <2> QED BY <2>1 DEF SIndInv, SInv, GotInv
<1> QED BY <1>1, StrategyInvariant, PTL

(* A sale is between the prices of its ticks, and on a newer ratio than its *)
(* buy.                                                                    *)
THEOREM TradesAreOfTheirTicks == SSpec => []TradeOfItsTicks
<1>1. SIndInv => TradeOfItsTicks
  BY DEF SIndInv, SInv, TradeInv, TradeOfItsTicks
<1> QED BY <1>1, StrategyInvariant, PTL

(* No Run that begins after the warm-up is sent back.                      *)
THEOREM StaysWarm == SSpec => WarmStaysWarm
<1>1. SIndInv /\ [SNext]_sVars
        => [pcS = "gate" /\ seen.tick > Warmup /\ pcS' # "gate" => pcS' = "cycle"]_sVars
  <2> SUFFICES ASSUME SIndInv, [SNext]_sVars, pcS = "gate", seen.tick > Warmup, pcS' # "gate"
               PROVE  pcS' = "cycle"
    OBVIOUS
  <2>1. Gate
    BY DEF SNext, Run, Getter, ReadIndex, GetCycle, GetTest, GetLoad, Hold, Buy, Sell,
       SellAtLastPrice, sVars
  <2>2. cycle_cnt = 0 => lastMdIndex >= Warmup
    <3>1. seen.tick \in Nat /\ Warmup \in Nat /\ lastMdIndex \in Int
      BY StrategyConstants, Constants DEF SIndInv, SInv, RunInv, Ticks, Placed, Slots
    <3> QED BY <3>1 DEF SIndInv, SInv, RunInv
  <2>3. Warmup \in Nat /\ lastMdIndex \in Int
    BY StrategyConstants, Constants DEF SIndInv, SInv, RunInv, Placed, Slots
  <2> QED BY <2>1, <2>2, <2>3 DEF Gate
<1> QED BY <1>1, StrategyInvariant, PTL DEF SSpec, WarmStaysWarm
=============================================================================
