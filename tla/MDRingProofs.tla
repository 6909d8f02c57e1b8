---------------------------- MODULE MDRingProofs ----------------------------
(***************************************************************************)
(* Proofs about MDRing for every ring size, look-backs, lag and number of  *)
(* ticks that RingAssumption allows.                                       *)
(***************************************************************************)
EXTENDS MDRingInv, TLAPS

-----------------------------------------------------------------------------
(* The constants.                                                          *)

(* RingAssumption, with what it says of the indices of the two intervals.  *)
LEMMA Constants ==
  /\ RING_SIZE \in Nat \ {0} /\ MaxTicks \in Nat /\ MaxLag \in Nat \ {0}
  /\ MAs = 1 .. Len(MAInterval) /\ Len(MAInterval) \in Nat \ {0}
  /\ ADRs = 1 .. Len(ADRInterval) /\ Len(ADRInterval) \in Nat \ {0}
  /\ \A a \in MAs : MAInterval[a] \in Nat \ {0} /\ MaxLag + MAInterval[a] <= RING_SIZE
  /\ \A r \in ADRs : ADRInterval[r] \in Nat \ {0} /\ MaxLag + ADRInterval[r] <= RING_SIZE
  /\ MaxLag < RING_SIZE
<1>1. MAs = 1 .. Len(MAInterval) /\ Len(MAInterval) \in Nat \ {0}
  BY RingAssumption DEF RingAssumption, MAs
<1>2. ADRs = 1 .. Len(ADRInterval) /\ Len(ADRInterval) \in Nat \ {0}
  BY RingAssumption DEF RingAssumption, ADRs
<1>3. \A a \in MAs : MAInterval[a] \in Nat \ {0}
  BY RingAssumption DEF RingAssumption, MAs
<1>4. \A r \in ADRs : ADRInterval[r] \in Nat \ {0}
  BY RingAssumption DEF RingAssumption, ADRs
<1>5. MaxLag < RING_SIZE
  <2>1. 1 \in ADRs
    BY <1>2
  <2> QED BY <2>1, <1>4, RingAssumption DEF RingAssumption
<1> QED BY <1>1, <1>2, <1>3, <1>4, <1>5, RingAssumption DEF RingAssumption

-----------------------------------------------------------------------------
(* Arithmetic of slots.                                                    *)

(* A number has only one quotient.                                         *)
LEMMA DivisionIsUnique ==
  ASSUME NEW n \in Nat \ {0}, NEW q \in Int, NEW d \in Int, NEW m \in 0 .. n - 1,
         n * q <= n * d + m, n * d + m < n * q + n
  PROVE  d = q
<1>1. CASE d > q
  <2>1. d - q - 1 \in Nat
    BY <1>1
  <2>2. n * (d - q - 1) >= 0
    BY <2>1
  <2>3. n * (d - q - 1) = n * d - n * q - n
    OBVIOUS
  <2> QED BY <2>2, <2>3
<1>2. CASE d < q
  <2>1. q - d - 1 \in Nat
    BY <1>2
  <2>2. n * (q - d - 1) >= 0
    BY <2>1
  <2>3. n * (q - d - 1) = n * q - n * d - n
    OBVIOUS
  <2> QED BY <2>2, <2>3
<1> QED BY <1>1, <1>2

(* A number that many passes over the ring above a slot is at that slot.    *)
LEMMA ModLap ==
  ASSUME NEW q \in Int, NEW x \in Int, RING_SIZE * q <= x, x < RING_SIZE * q + RING_SIZE
  PROVE  x % RING_SIZE = x - RING_SIZE * q
<1> DEFINE d == x \div RING_SIZE
           m == x % RING_SIZE
<1>1. /\ d \in Int /\ m \in 0 .. RING_SIZE - 1
      /\ x = RING_SIZE * d + m
  BY Constants
<1>2. x % RING_SIZE = m
  OBVIOUS
<1> HIDE DEF d, m
<1>3. RING_SIZE * q <= RING_SIZE * d + m /\ RING_SIZE * d + m < RING_SIZE * q + RING_SIZE
  BY <1>1
<1>4. d = q
  BY <1>1, <1>3, DivisionIsUnique, Constants
<1>5. m = x - RING_SIZE * q
  BY <1>1, <1>4, Constants
<1> QED BY <1>2, <1>5

(* A slot is its own remainder.                                            *)
LEMMA ModSmall ==
  ASSUME NEW n \in Nat \ {0}, NEW x \in 0 .. n - 1
  PROVE  x % n = x
OBVIOUS

(* The slot after the last one is the first.                               *)
LEMMA ModSelf ==
  ASSUME NEW n \in Nat \ {0}
  PROVE  n % n = 0
OBVIOUS

(* The `%` of PushMD is a test for the last slot.                          *)
LEMMA SuccIs ==
  ASSUME NEW i \in Slots \union {-1}
  PROVE  /\ Succ(i) = IF i + 1 = RING_SIZE THEN 0 ELSE i + 1
         /\ Succ(i) \in Slots
<1>1. RING_SIZE \in Nat \ {0}
  BY Constants
<1>2. CASE i + 1 = RING_SIZE
  <2>1. Succ(i) = 0
    BY <1>1, <1>2, ModSelf DEF Succ
  <2> QED BY <1>1, <1>2, <2>1 DEF Slots
<1>3. CASE i + 1 # RING_SIZE
  <2>1. i + 1 \in 0 .. RING_SIZE - 1
    BY <1>1, <1>3 DEF Slots
  <2>2. Succ(i) = i + 1
    BY <1>1, <2>1, ModSmall DEF Succ
  <2> QED BY <1>3, <2>1, <2>2 DEF Slots
<1> QED BY <1>2, <1>3

(* Where CalADRatio and CalMovingAverage look back to.                     *)
LEMMA BehindIs ==
  ASSUME NEW i \in Slots, NEW steps \in Nat \ {0}, steps < RING_SIZE
  PROVE  /\ Behind(i, steps) \in Slots
         /\ i - Behind(i, steps) \in {steps, steps - RING_SIZE}
BY Constants DEF Behind, Slots

-----------------------------------------------------------------------------
(* What Holds says.                                                        *)

(* Handling a tick changes what one slot holds, and no other.              *)
LEMMA HoldsNext ==
  ASSUME NEW n \in Nat, NEW idx \in Slots \union {-1}, NEW i \in Slots
  PROVE  Holds(n + 1, Succ(idx), i) = IF i = Succ(idx) THEN n + 1 ELSE Holds(n, idx, i)
<1>1. /\ Succ(idx) = IF idx + 1 = RING_SIZE THEN 0 ELSE idx + 1
      /\ Succ(idx) \in Slots
  BY SuccIs
<1> QED BY <1>1, Constants DEF Holds, Slots

(* A slot at which tick t was due, in this pass over the ring or one near  *)
(* it, holds t if t is one of the last RING_SIZE ticks.                    *)
LEMMA HoldsTick ==
  ASSUME NEW n \in Nat, NEW idx \in Slots \union {-1}, NEW t \in Int, NEW i \in Slots,
         n - RING_SIZE < t, t <= n,
         (n - idx) - (t - i) \in {-RING_SIZE, 0, RING_SIZE, 2 * RING_SIZE}
  PROVE  Holds(n, idx, i) = t
BY Constants DEF Holds, Slots

(* A counter and its index stay in step when one more tick is handled.     *)
LEMMA PlacedNext ==
  ASSUME NEW n \in Nat, NEW idx \in Slots \union {-1}, Placed(n, idx)
  PROVE  Placed(n + 1, Succ(idx))
BY SuccIs, Constants DEF Placed, Slots

(* No slot holds a tick that has not been handled.                         *)
LEMMA HoldsAtMost ==
  ASSUME NEW n \in Nat, NEW idx \in Slots \union {-1}, NEW i \in Slots
  PROVE  Holds(n, idx, i) \in Int /\ Holds(n, idx, i) <= n
BY Constants DEF Holds, Slots

(* Publishing an index moves it at most up to the writer's.                *)
LEMMA FollowsNext ==
  ASSUME WriterInv, NEW n, NEW idx, Follows(n, idx), n < pushed
  PROVE  Follows(n + 1, Succ(idx))
<1>1. /\ n \in Nat /\ idx \in Slots \union {-1}
      /\ pushed \in Nat /\ md_index \in Slots \union {-1} /\ Placed(n, idx)
  BY DEF WriterInv, Follows, Placed
<1>2. Succ(idx) = IF idx + 1 = RING_SIZE THEN 0 ELSE idx + 1
  BY <1>1, SuccIs
<1> DEFINE m == n + 1
           j == Succ(idx)
<1>3. Placed(m, j)
  BY <1>1, PlacedNext
<1>4. (pushed - md_index) - (m - j) \in {0, RING_SIZE}
  BY <1>1, <1>2, Constants DEF Follows, Slots
<1>5. m <= pushed
  BY <1>1
<1>6. pushed + (IF pcW = "idle" THEN 0 ELSE 1) <= m + MaxLag
  BY <1>1, Constants DEF Follows
<1> HIDE DEF m, j
<1>7. Follows(m, j)
  BY <1>3, <1>4, <1>5, <1>6 DEF Follows
<1> QED BY <1>7 DEF m, j

-----------------------------------------------------------------------------
(* What a conjunct of the invariant is about.                              *)

(* A step that writes none of what a conjunct is about preserves it.       *)
LEMMA WriterFrame == WriterInv /\ UNCHANGED <<md_index, cycle_cnt, pcW, pushed>> => WriterInv'
BY DEF WriterInv, WrapPending

(* The same for the prices.                                                *)
LEMMA PriceFrame == PriceInv /\ UNCHANGED <<price, md_index, pcW, pushed>> => PriceInv'
BY DEF PriceInv

(* The same for the averages.                                              *)
LEMMA AverageFrame ==
  AverageInv /\ UNCHANGED <<average, pcC, k, maCnt>> => AverageInv'
BY DEF AverageInv, average, Windowed, Added

(* The same for the ratios.                                                *)
LEMMA RatioFrame ==
  RatioInv /\ UNCHANGED <<ratio, pcC, k, adrCnt>> => RatioInv'
BY DEF RatioInv, ratio, Compared

-----------------------------------------------------------------------------
(* The first state.                                                        *)

(* A ring just constructed satisfies the invariant.                        *)
LEMMA InitInv == Init => IndInv
<1> SUFFICES ASSUME Init PROVE IndInv
  OBVIOUS
<1>1. \A i \in Slots : Holds(0, -1, i) <= 0 /\ Holds(0, -1, i) \in Int
  BY Constants DEF Holds, Slots
<1>2. WriterInv
  BY Constants DEF Init, WriterInv, WriterSteps, Placed, WrapPending, Slots
<1>3. PriceInv
  BY <1>1, Constants DEF Init, PriceInv, PriceOf, Ticks
<1>4. PhaseInv
  <2>1. Follows(maCnt, cal_ma_index) /\ Follows(adrCnt, cal_adr_index)
    BY Constants DEF Init, Follows, Placed
  <2>2. pcC = "ma_test" /\ pcC \in CalculatorSteps /\ pcC \notin AverageSteps /\ pcC \notin RatioSteps
    BY DEF Init, CalculatorSteps, AverageSteps, RatioSteps
  <2>3. k \in Nat \ {0} /\ adrCnt - maCnt \in {0, 1}
    BY DEF Init
  <2>4. wrapped \in BOOLEAN
    BY DEF Init
  <2> QED BY <2>1, <2>2, <2>3, <2>4 DEF PhaseInv
<1>5. AverageInv
  <2>1. ZeroSum \in Totals
    BY DEF ZeroSum, Totals
  <2>2. \A a \in MAs : Window(0, MAInterval[a]) = ZeroSum
    BY Constants DEF Window, ZeroSum, Ticks
  <2>3. \A a \in MAs, i \in Slots : AverageOf(Holds(0, -1, i), MAInterval[a]) = ZeroSum
    BY <1>1, Constants DEF AverageOf
  <2>4. \A a : ~Windowed(a) /\ ~Added(a)
    BY DEF Init, Windowed, Added
  <2> QED BY <2>1, <2>2, <2>3, <2>4 DEF Init, AverageInv
<1>6. RatioInv
  <2>1. NoRatio \in Ratios
    BY Constants DEF NoRatio, Ratios, Ticks
  <2>2. \A r \in ADRs, i \in Slots : RatioOf(Holds(0, -1, i), ADRInterval[r]) = NoRatio
    BY <1>1, Constants DEF RatioOf
  <2>3. \A r : ~Compared(r)
    BY DEF Init, Compared
  <2> QED BY <2>1, <2>2, <2>3 DEF Init, RatioInv
<1> QED BY <1>2, <1>3, <1>4, <1>5, <1>6 DEF IndInv

-----------------------------------------------------------------------------
(* The steps of PushMD.                                                    *)

(* The price is written to the slot that held the oldest tick.             *)
LEMMA PushPriceInv == IndInv /\ PushPrice => IndInv'
<1> SUFFICES ASSUME IndInv, PushPrice PROVE IndInv'
  OBVIOUS
<1> USE DEF IndInv
<1>1. WriterInv'
  BY DEF PushPrice, WriterInv, WriterSteps, WrapPending
<1>2. PriceInv'
  <2>1. md_index \in Slots \union {-1} /\ pushed \in Nat
    BY DEF WriterInv, Placed
  <2>2. Succ(md_index) \in Slots /\ pushed + 1 \in Ticks /\ pushed + 1 > 0
    BY <2>1, SuccIs, Constants DEF PushPrice, Ticks
  <2>3. price' \in [Slots -> Ticks]
    BY <2>2 DEF PushPrice, PriceInv
  <2>4. ASSUME NEW i \in Slots
        PROVE  price'[i] = PriceOf(Holds(pushed + 1, Succ(md_index), i))
    <3>1. Holds(pushed + 1, Succ(md_index), i)
            = IF i = Succ(md_index) THEN pushed + 1 ELSE Holds(pushed, md_index, i)
      BY <2>1, HoldsNext
    <3> QED BY <2>2, <3>1 DEF PushPrice, PriceInv, PriceOf
  <2> QED BY <2>3, <2>4 DEF PushPrice, PriceInv
<1>3. PhaseInv'
  BY Constants DEF PushPrice, WriterInv, Placed, PhaseInv, Follows, local, average, ratio
<1>4. AverageInv' /\ RatioInv'
  BY AverageFrame, RatioFrame DEF PushPrice, local
<1> QED BY <1>1, <1>2, <1>3, <1>4

(* cycle_cnt counts the pass before md_index starts it.                    *)
LEMMA PushCycleInv == IndInv /\ PushCycle => IndInv'
<1> SUFFICES ASSUME IndInv, PushCycle PROVE IndInv'
  OBVIOUS
<1> USE DEF IndInv
<1>1. WriterInv'
  BY Constants DEF PushCycle, WriterInv, WriterSteps, WrapPending, Placed, Slots
<1>2. PriceInv'
  BY DEF PushCycle, PriceInv
<1>3. PhaseInv'
  BY Constants DEF PushCycle, WriterInv, PhaseInv, Follows, local, average, ratio
<1>4. AverageInv' /\ RatioInv'
  BY AverageFrame, RatioFrame DEF PushCycle, local
<1> QED BY <1>1, <1>2, <1>3, <1>4

(* The tick becomes visible.                                               *)
LEMMA PushIndexInv == IndInv /\ PushIndex => IndInv'
<1> SUFFICES ASSUME IndInv, PushIndex PROVE IndInv'
  OBVIOUS
<1> USE DEF IndInv
<1>1. /\ md_index \in Slots \union {-1} /\ pushed \in Nat
      /\ Succ(md_index) = IF md_index + 1 = RING_SIZE THEN 0 ELSE md_index + 1
      /\ Placed(pushed + 1, Succ(md_index))
  BY SuccIs, PlacedNext DEF WriterInv, Placed
<1>2. WriterInv'
  BY <1>1, Constants DEF PushIndex, WriterInv, WriterSteps, WrapPending, Slots
<1>3. PriceInv'
  BY <1>1 DEF PushIndex, PriceInv
<1>4. PhaseInv'
  <2>1. Follows(maCnt, cal_ma_index)' /\ Follows(adrCnt, cal_adr_index)'
    BY <1>1, Constants DEF PushIndex, WriterInv, Placed, PhaseInv, Follows, average, ratio, Slots
  <2> QED BY <1>1, <2>1, Constants
        DEF PushIndex, WriterInv, Placed, PhaseInv, Follows, local, average, ratio
<1>5. AverageInv' /\ RatioInv'
  BY AverageFrame, RatioFrame DEF PushIndex, local
<1> QED BY <1>2, <1>3, <1>4, <1>5

-----------------------------------------------------------------------------
(* The steps of CalMovingAverage.                                          *)

(* Calculator finds a tick exactly when there is one.                      *)
LEMMA MaTestInv == IndInv /\ MaTest => IndInv'
<1> SUFFICES ASSUME IndInv, MaTest PROVE IndInv'
  OBVIOUS
<1> USE DEF IndInv
<1>1. WriterInv' /\ PriceInv'
  BY WriterFrame, PriceFrame DEF MaTest, ring
<1>2. cal_ma_index = md_index <=> maCnt = pushed
  BY Constants DEF WriterInv, PhaseInv, Follows, Placed, Slots
<1>3. PhaseInv'
  <2>1. Follows(maCnt, cal_ma_index)' /\ Follows(adrCnt, cal_adr_index)'
    BY DEF MaTest, PhaseInv, Follows, ring, average, ratio
  <2>2. maCnt \in Nat /\ adrCnt \in Nat /\ pushed \in Nat /\ maCnt <= pushed /\ adrCnt <= pushed
    BY DEF PhaseInv, WriterInv, Follows, Placed
  <2>3. MAs # {} /\ 1 \in MAs
    BY Constants
  <2> QED BY <1>2, <2>1, <2>2, <2>3
        DEF MaTest, PhaseInv, CalculatorSteps, AverageSteps, RatioSteps, ring, average, ratio
<1>4. AverageInv'
  <2>1. \A a \in MAs : Windowed(a)' = Windowed(a) /\ Added(a)' = Added(a)
    BY Constants DEF MaTest, Windowed, Added
  <2> QED BY <2>1 DEF MaTest, AverageInv, average
<1>5. RatioInv'
  <2>1. \A r \in ADRs : Compared(r)' = Compared(r)
    BY DEF MaTest, Compared
  <2> QED BY <2>1 DEF MaTest, RatioInv, ratio
<1> QED BY <1>1, <1>3, <1>4, <1>5

(* The slot a call of Calculator reads its next tick from holds that tick.  *)
LEMMA NextTick ==
  ASSUME WriterInv, PriceInv, NEW n, NEW idx, Follows(n, idx), n < pushed
  PROVE  /\ n \in Nat /\ n + 1 \in Ticks /\ Succ(idx) \in Slots
         /\ price[Succ(idx)] = n + 1
<1> DEFINE head == IF pcW = "idle" THEN pushed ELSE pushed + 1
           hidx == IF pcW = "idle" THEN md_index ELSE Succ(md_index)
<1>1. /\ n \in Nat /\ idx \in Slots \union {-1} /\ n + 1 \in Ticks
      /\ pushed \in Nat /\ md_index \in Slots \union {-1} /\ md_index # -1
  BY Constants DEF WriterInv, Follows, Placed, Ticks, Slots
<1>2. /\ Succ(idx) = IF idx + 1 = RING_SIZE THEN 0 ELSE idx + 1
      /\ Succ(idx) \in Slots
  BY <1>1, SuccIs
<1>3. /\ Succ(md_index) = IF md_index + 1 = RING_SIZE THEN 0 ELSE md_index + 1
      /\ Succ(md_index) \in Slots
  BY <1>1, SuccIs
<1>4. Holds(head, hidx, Succ(idx)) = n + 1
  <2> DEFINE t == n + 1
  <2>1. head \in Nat /\ hidx \in Slots \union {-1}
    BY <1>1, <1>3
  <2>2. t \in Int /\ head - RING_SIZE < t /\ t <= head
    BY <1>1, Constants DEF Follows
  <2>3. (head - hidx) - (t - Succ(idx)) \in {-RING_SIZE, 0, RING_SIZE, 2 * RING_SIZE}
    BY <1>1, <1>2, <1>3, Constants DEF Follows, Placed, WriterInv, Slots
  <2> HIDE DEF head, hidx, t
  <2>4. Holds(head, hidx, Succ(idx)) = t
    BY <1>2, <2>1, <2>2, <2>3, HoldsTick
  <2> QED BY <2>4 DEF t
<1>5. price[Succ(idx)] = PriceOf(Holds(head, hidx, Succ(idx)))
  BY <1>2 DEF PriceInv
<1> QED BY <1>1, <1>2, <1>4, <1>5 DEF PriceOf

(* What Calculator finds in cycle_cnt when it has a tick to handle: the     *)
(* ring has been filled, or the slot number tells how many ticks there were.*)
LEMMA WrapSeen ==
  ASSUME WriterInv, NEW n, NEW idx, Follows(n, idx), n < pushed
  PROVE  IF cycle_cnt # 0 THEN pushed >= RING_SIZE ELSE n = Succ(idx)
<1>1. /\ n \in Nat /\ idx \in Slots \union {-1}
      /\ pushed \in Nat /\ md_index \in Slots \union {-1} /\ cycle_cnt \in Nat
      /\ n >= idx + 1
  BY DEF WriterInv, Follows, Placed
<1>2. Succ(idx) = IF idx + 1 = RING_SIZE THEN 0 ELSE idx + 1
  BY <1>1, SuccIs
<1>3. CASE cycle_cnt # 0
  <2>1. cycle_cnt - 1 \in Nat
    BY <1>1, <1>3
  <2>2. RING_SIZE * (cycle_cnt - 1) >= 0
    BY <2>1, Constants
  <2>3. RING_SIZE * (cycle_cnt - 1) = RING_SIZE * cycle_cnt - RING_SIZE
    BY <1>1, Constants
  <2>4. RING_SIZE * cycle_cnt >= RING_SIZE
    <3> DEFINE laps == RING_SIZE * cycle_cnt
    <3>1. laps \in Int
      BY <1>1, Constants
    <3> HIDE DEF laps
    <3>2. laps - RING_SIZE >= 0
      BY <2>2, <2>3 DEF laps
    <3> QED BY <3>1, <3>2, Constants DEF laps
  <2>5. pushed >= RING_SIZE
    <3> DEFINE laps == RING_SIZE * cycle_cnt
    <3>1. laps \in Int /\ laps >= RING_SIZE
      BY <1>1, <2>4, Constants
    <3>2. laps + md_index + 1 = pushed + (IF WrapPending THEN RING_SIZE ELSE 0)
      BY DEF WriterInv
    <3> HIDE DEF laps
    <3> QED BY <1>1, <3>1, <3>2, Constants DEF WrapPending, Slots
  <2> QED BY <1>3, <2>5
<1>4. CASE cycle_cnt = 0
  <2>1. RING_SIZE * cycle_cnt = 0
    BY <1>4, Constants
  <2>2. pushed = md_index + 1
    <3> DEFINE laps == RING_SIZE * cycle_cnt
    <3>1. laps = 0
      BY <2>1
    <3>2. laps + md_index + 1 = pushed + (IF WrapPending THEN RING_SIZE ELSE 0)
      BY DEF WriterInv
    <3>3. md_index + 1 <= pushed
      BY DEF WriterInv, Placed
    <3> HIDE DEF laps
    <3> QED BY <1>1, <3>1, <3>2, <3>3, Constants DEF WrapPending, Slots
  <2> QED BY <1>1, <1>2, <1>4, <2>2, Constants DEF Follows, Slots
<1> QED BY <1>3, <1>4

(* The tick a look-back before that one is where Behind says, if there is   *)
(* one, and there is one as soon as the ring has been filled.               *)
LEMMA LookBack ==
  ASSUME WriterInv, PriceInv, NEW n, NEW idx, Follows(n, idx), n < pushed,
         NEW interval \in Nat \ {0}, MaxLag + interval <= RING_SIZE
  PROVE  /\ pushed >= RING_SIZE => n + 1 > interval
         /\ n + 1 > interval =>
              /\ price[Behind(Succ(idx), interval)] = n + 1 - interval
              /\ n + 1 - interval \in Ticks
<1> DEFINE head == IF pcW = "idle" THEN pushed ELSE pushed + 1
           hidx == IF pcW = "idle" THEN md_index ELSE Succ(md_index)
           back == Behind(Succ(idx), interval)
<1>1. /\ n \in Nat /\ idx \in Slots \union {-1}
      /\ pushed \in Nat /\ md_index \in Slots \union {-1} /\ md_index # -1
      /\ n + 1 <= MaxTicks
  BY Constants DEF WriterInv, Follows, Placed, Slots
<1>2. /\ Succ(idx) = IF idx + 1 = RING_SIZE THEN 0 ELSE idx + 1
      /\ Succ(idx) \in Slots
  BY <1>1, SuccIs
<1>3. /\ Succ(md_index) = IF md_index + 1 = RING_SIZE THEN 0 ELSE md_index + 1
      /\ Succ(md_index) \in Slots
  BY <1>1, SuccIs
<1>4. pushed >= RING_SIZE => n + 1 > interval
  BY <1>1, Constants DEF Follows
<1>5. ASSUME n + 1 > interval
      PROVE  price[back] = n + 1 - interval /\ n + 1 - interval \in Ticks
  <2>1. back \in Slots /\ Succ(idx) - back \in {interval, interval - RING_SIZE}
    BY <1>2, BehindIs, Constants
  <2> HIDE DEF back
  <2>2. head \in Nat /\ hidx \in Slots \union {-1}
    BY <1>1, <1>3
  <2>3. head - RING_SIZE < n + 1 - interval /\ n + 1 - interval <= head
    BY <1>1, Constants DEF Follows
  <2>4. (head - hidx) - (n + 1 - Succ(idx)) \in {0, RING_SIZE}
    BY <1>1, <1>2, <1>3, Constants DEF Follows, Placed, WriterInv, Slots
  <2>5. (head - hidx) - ((n + 1 - interval) - back)
          \in {-RING_SIZE, 0, RING_SIZE, 2 * RING_SIZE}
    BY <1>1, <1>2, <1>3, <2>1, <2>4, Constants DEF Slots
  <2>6. Holds(head, hidx, back) = n + 1 - interval
    BY <1>1, <2>1, <2>2, <2>3, <2>5, HoldsTick
  <2>7. price[back] = PriceOf(Holds(head, hidx, back))
    BY <2>1 DEF PriceInv
  <2> QED BY <1>1, <1>5, <2>6, <2>7, Constants DEF PriceOf, Ticks
<1> QED BY <1>4, <1>5

(* What adding the newest price to a total and taking off the oldest do.    *)
(* A window is a total.                                                    *)
LEMMA WindowType ==
  ASSUME NEW t \in Int, NEW interval \in Int
  PROVE  Window(t, interval) \in Totals
BY DEF Window, Totals

(* A price counts once while it is in the window.                          *)
LEMMA WindowAt ==
  ASSUME NEW t \in Int, NEW interval \in Int, NEW u \in Ticks
  PROVE  Window(t, interval)[u] = IF 0 < u /\ t - interval < u /\ u <= t THEN 1 ELSE 0
BY DEF Window

(* Adding the next price widens the window by one.                         *)
LEMMA WindowAdd ==
  ASSUME NEW t \in Nat, t + 1 \in Ticks, NEW interval \in Nat
  PROVE  [Window(t, interval) EXCEPT ![t + 1] = @ + 1] = Window(t + 1, interval + 1)
<1> DEFINE old == Window(t, interval)
           new == Window(t + 1, interval + 1)
<1>1. old \in [Ticks -> Int] /\ new \in [Ticks -> Int]
  <2>1. old \in Totals
    BY WindowType
  <2>2. new \in Totals
    BY WindowType
  <2> QED BY <2>1, <2>2 DEF Totals
<1>2. ASSUME NEW u \in Ticks
      PROVE  new[u] = IF u = t + 1 THEN old[u] + 1 ELSE old[u]
  <2>1. u \in Int
    BY Constants DEF Ticks
  <2>2. /\ old[u] = IF 0 < u /\ t - interval < u /\ u <= t THEN 1 ELSE 0
        /\ new[u] = IF 0 < u /\ t + 1 - (interval + 1) < u /\ u <= t + 1 THEN 1 ELSE 0
    BY WindowAt
  <2> HIDE DEF old, new
  <2> QED BY <2>1, <2>2
<1> HIDE DEF old, new
<1>3. [old EXCEPT ![t + 1] = @ + 1] = new
  BY <1>1, <1>2
<1> QED BY <1>3 DEF old, new

(* Taking off the oldest price narrows it by one.                          *)
LEMMA WindowDrop ==
  ASSUME NEW t \in Ticks, NEW interval \in Nat \ {0}, t > interval
  PROVE  [Window(t, interval + 1) EXCEPT ![t - interval] = @ - 1] = Window(t, interval)
<1> DEFINE old == Window(t, interval + 1)
           new == Window(t, interval)
<1>1. old \in [Ticks -> Int] /\ new \in [Ticks -> Int] /\ t \in Int
  <2>1. t \in Int /\ interval \in Int /\ interval + 1 \in Int
    BY DEF Ticks
  <2>2. old \in Totals
    BY <2>1, WindowType
  <2>3. new \in Totals
    BY <2>1, WindowType
  <2> QED BY <2>1, <2>2, <2>3 DEF Totals
<1>2. ASSUME NEW u \in Ticks
      PROVE  new[u] = IF u = t - interval THEN old[u] - 1 ELSE old[u]
  <2>1. u \in Int
    BY Constants DEF Ticks
  <2>2. /\ old[u] = IF 0 < u /\ t - (interval + 1) < u /\ u <= t THEN 1 ELSE 0
        /\ new[u] = IF 0 < u /\ t - interval < u /\ u <= t THEN 1 ELSE 0
    BY <1>1, WindowAt
  <2> HIDE DEF old, new
  <2> QED BY <1>1, <2>1, <2>2
<1> HIDE DEF old, new
<1>3. [old EXCEPT ![t - interval] = @ - 1] = new
  BY <1>1, <1>2
<1> QED BY <1>3 DEF old, new

(* There is nothing to take off before the window is full.                 *)
LEMMA WindowShort ==
  ASSUME NEW t \in Ticks, NEW interval \in Nat, t <= interval
  PROVE  Window(t, interval + 1) = Window(t, interval)
BY Constants DEF Window, Ticks

(* Every total gets the next price.                                        *)
LEMMA MaAddInv == IndInv /\ MaAdd => IndInv'
<1> SUFFICES ASSUME IndInv, MaAdd PROVE IndInv'
  OBVIOUS
<1> USE DEF IndInv
<1>1. WriterInv' /\ PriceInv'
  BY WriterFrame, PriceFrame DEF MaAdd, ring
<1>2. pcC = "ma_add" /\ k \in MAs /\ Follows(maCnt, cal_ma_index) /\ maCnt < pushed
  BY DEF MaAdd, PhaseInv, AverageSteps
<1>3. /\ maCnt \in Nat /\ maCnt + 1 \in Ticks
      /\ price[Succ(cal_ma_index)] = maCnt + 1
  BY <1>2, NextTick
<1>4. PhaseInv'
  BY <1>2, Constants
     DEF MaAdd, PhaseInv, CalculatorSteps, AverageSteps, RatioSteps, Follows, ring, ratio
<1>5. AverageInv'
  <2>1. \A a \in MAs : /\ ~Windowed(a) /\ ~Windowed(a)'
                       /\ Added(a) <=> a < k
                       /\ Added(a)' <=> a <= k
    BY <1>2, Constants DEF MaAdd, Windowed, Added
  <2>2. /\ mt \in [MAs -> Totals] /\ mt[k] = Window(maCnt, MAInterval[k])
        /\ MAInterval[k] \in Nat
    BY <1>2, <2>1, Constants DEF AverageInv
  <2>3. mt' = [mt EXCEPT ![k] = Window(maCnt + 1, MAInterval[k] + 1)]
    <3>1. mt' = [mt EXCEPT ![k] = [mt[k] EXCEPT ![maCnt + 1] = @ + 1]]
      BY <1>2, <1>3, <2>2 DEF MaAdd, Totals
    <3> QED BY <1>3, <2>2, <3>1, WindowAdd
  <2>4. Window(maCnt + 1, MAInterval[k] + 1) \in Totals
    BY <1>3, <2>2, WindowType
  <2>5. mt' \in [MAs -> Totals] /\ ma' \in [MAs -> [Slots -> Totals]]
    BY <2>2, <2>3, <2>4 DEF AverageInv, MaAdd
  <2>6. ASSUME NEW a \in MAs
        PROVE  mt'[a] = IF a <= k THEN Window(maCnt + 1, MAInterval[a] + 1)
                        ELSE Window(maCnt, MAInterval[a])
    <3>1. mt[a] = IF a < k THEN Window(maCnt + 1, MAInterval[a] + 1)
                  ELSE Window(maCnt, MAInterval[a])
      BY <2>1 DEF AverageInv
    <3>2. CASE a = k
      BY <2>2, <2>3, <3>2, Constants
    <3>3. CASE a # k
      BY <1>2, <2>2, <2>3, <3>1, <3>3, Constants
    <3> QED BY <3>2, <3>3
  <2> QED BY <2>1, <2>5, <2>6 DEF AverageInv, MaAdd
<1>6. RatioInv'
  <2>1. \A r \in ADRs : ~Compared(r) /\ ~Compared(r)'
    BY <1>2 DEF MaAdd, Compared
  <2> QED BY <2>1 DEF RatioInv, MaAdd, ratio
<1> QED BY <1>1, <1>4, <1>5, <1>6

(* Whether the ring has been filled is read once for every average.        *)
LEMMA MaCycleInv == IndInv /\ MaCycle => IndInv'
<1> SUFFICES ASSUME IndInv, MaCycle PROVE IndInv'
  OBVIOUS
<1> USE DEF IndInv
<1>1. WriterInv' /\ PriceInv'
  BY WriterFrame, PriceFrame DEF MaCycle, ring
<1>2. pcC = "ma_cycle" /\ Follows(maCnt, cal_ma_index) /\ maCnt < pushed
  BY DEF MaCycle, PhaseInv, AverageSteps
<1>3. PhaseInv'
  <2>1. Follows(maCnt, cal_ma_index)' /\ Follows(adrCnt, cal_adr_index)'
    BY DEF MaCycle, PhaseInv, Follows, ring, average, ratio
  <2>2. IF wrapped' THEN pushed >= RING_SIZE ELSE maCnt = Succ(cal_ma_index)
    BY <1>2, WrapSeen DEF MaCycle
  <2>3. k = 1 /\ k \in MAs
    BY <1>2, Constants DEF PhaseInv
  <2>4. wrapped' \in BOOLEAN
    BY DEF MaCycle
  <2> QED BY <1>2, <2>1, <2>2, <2>3, <2>4
        DEF MaCycle, PhaseInv, CalculatorSteps, AverageSteps, RatioSteps, ring, average, ratio
<1>4. AverageInv'
  <2>1. k = 1 /\ k' = k
    BY <1>2 DEF PhaseInv, MaCycle
  <2>2. \A a \in MAs : /\ ~Windowed(a) /\ ~Windowed(a)'
                       /\ Added(a) /\ Added(a)'
    BY <1>2, <2>1, Constants DEF MaCycle, Windowed, Added
  <2> QED BY <2>2 DEF MaCycle, AverageInv, average
<1>5. RatioInv'
  <2>1. \A r \in ADRs : ~Compared(r) /\ ~Compared(r)'
    BY <1>2 DEF MaCycle, Compared
  <2> QED BY <2>1 DEF RatioInv, MaCycle, ratio
<1> QED BY <1>1, <1>3, <1>4, <1>5

(* A total loses the price that left its window and becomes the average.   *)
LEMMA MaWindowInv == IndInv /\ MaWindow => IndInv'
<1> SUFFICES ASSUME IndInv, MaWindow PROVE IndInv'
  OBVIOUS
<1> USE DEF IndInv
<1> DEFINE t    == maCnt + 1
           next == Succ(cal_ma_index)
           I    == MAInterval[k]
<1>1. WriterInv' /\ PriceInv'
  BY WriterFrame, PriceFrame DEF MaWindow, ring
<1>2. /\ pcC = "ma_window" /\ k \in MAs /\ Follows(maCnt, cal_ma_index) /\ maCnt < pushed
      /\ wrapped \in BOOLEAN
      /\ IF wrapped THEN pushed >= RING_SIZE ELSE maCnt = next
  BY DEF MaWindow, PhaseInv, AverageSteps
<1>3. /\ maCnt \in Nat /\ t \in Ticks /\ next \in Slots
      /\ cal_ma_index \in Slots \union {-1}
  BY <1>2, NextTick DEF Follows, Placed
<1>4. I \in Nat \ {0} /\ MaxLag + I <= RING_SIZE
  BY <1>2, Constants
<1>5. /\ wrapped \/ next >= I <=> t > I
      /\ t > I => price[Behind(next, I)] = t - I /\ t - I \in Ticks
  <2>1. WriterInv /\ PriceInv
    OBVIOUS
  <2> HIDE DEF I
  <2>2. /\ pushed >= RING_SIZE => t > I
        /\ t > I => price[Behind(next, I)] = t - I /\ t - I \in Ticks
    <3>1. Follows(maCnt, cal_ma_index) /\ maCnt < pushed
      BY <1>2
    <3> HIDE DEF IndInv
    <3>2. pushed >= RING_SIZE => maCnt + 1 > I
      BY <1>4, <2>1, <3>1, LookBack
    <3>3. maCnt + 1 > I => price[Behind(Succ(cal_ma_index), I)] = maCnt + 1 - I
      BY <1>4, <2>1, <3>1, LookBack
    <3>4. maCnt + 1 > I => maCnt + 1 - I \in Ticks
      BY <1>4, <2>1, <3>1, LookBack
    <3> QED BY <1>3, <1>4, <3>2, <3>3, <3>4
  <2>3. maCnt = next => (next >= I <=> t > I)
    BY <1>3, <1>4
  <2> QED BY <1>2, <2>2, <2>3
<1>6. PhaseInv'
  BY <1>2, Constants
     DEF MaWindow, PhaseInv, CalculatorSteps, AverageSteps, RatioSteps, Follows, ring, ratio
<1>7. AverageInv'
  <2>1. \A a \in MAs : /\ Added(a) /\ Added(a)'
                       /\ Windowed(a) <=> a < k
                       /\ Windowed(a)' <=> a <= k
    BY <1>2, Constants DEF MaWindow, Windowed, Added
  <2>2. /\ mt \in [MAs -> Totals] /\ ma \in [MAs -> [Slots -> Totals]]
        /\ mt[k] = Window(t, I + 1)
    BY <1>2, <2>1, Constants DEF AverageInv
  <2>3. Window(t, I) \in Totals /\ ZeroSum \in Totals
    <3>1. t \in Int /\ I \in Int
      BY <1>3, <1>4
    <3> QED BY <3>1, WindowType DEF ZeroSum, Totals
  <2>4. /\ mt' = [mt EXCEPT ![k] = Window(t, I)]
        /\ ma' = [ma EXCEPT ![k] = [ma[k] EXCEPT ![next] = AverageOf(t, I)]]
    <3>1. CASE t > I
      <4>1. [mt[k] EXCEPT ![t - I] = @ - 1] = Window(t, I)
        BY <1>3, <1>4, <2>2, <3>1, WindowDrop
      <4>2. /\ mt' = [mt EXCEPT ![k] = Window(t, I)]
            /\ ma' = [ma EXCEPT ![k][next] = Window(t, I)]
        BY <1>5, <3>1, <4>1 DEF MaWindow
      <4> QED BY <1>2, <2>2, <3>1, <4>2 DEF AverageOf
    <3>2. CASE ~(t > I)
      <4>1. mt' = mt /\ ma' = ma
        BY <1>5, <3>2 DEF MaWindow
      <4>2. mt[k] = Window(t, I)
        BY <1>3, <1>4, <2>2, <3>2, WindowShort DEF Ticks
      <4>3. ma[k][next] = AverageOf(t, I)
        <5>1. Holds(maCnt, cal_ma_index, next) \in Int /\ Holds(maCnt, cal_ma_index, next) <= maCnt
          BY <1>3, HoldsAtMost
        <5>2. ma[k][next] = AverageOf(Holds(maCnt, cal_ma_index, next), I)
          BY <1>2, <1>3, <2>1, Constants DEF AverageInv
        <5>3. ~(Holds(maCnt, cal_ma_index, next) > I)
          BY <1>3, <1>4, <3>2, <5>1
        <5> QED BY <3>2, <5>2, <5>3 DEF AverageOf
      <4> QED BY <1>2, <1>3, <2>2, <4>1, <4>2, <4>3
    <3> QED BY <3>1, <3>2
  <2>5. AverageOf(t, I) \in Totals
    BY <2>3 DEF AverageOf
  <2>6. mt' \in [MAs -> Totals] /\ ma' \in [MAs -> [Slots -> Totals]]
    BY <1>2, <2>2, <2>3, <2>4, <2>5
  <2>7. ASSUME NEW a \in MAs
        PROVE  mt'[a] = IF a <= k THEN Window(t, MAInterval[a])
                        ELSE Window(t, MAInterval[a] + 1)
    <3>1. mt[a] = IF a < k THEN Window(t, MAInterval[a]) ELSE Window(t, MAInterval[a] + 1)
      BY <2>1 DEF AverageInv
    <3>2. CASE a = k
      BY <1>2, <2>2, <2>4, <3>2, Constants
    <3>3. CASE a # k
      BY <1>2, <2>2, <2>4, <3>1, <3>3, Constants
    <3> QED BY <3>2, <3>3
  <2>8. ASSUME NEW a \in MAs, NEW i \in Slots
        PROVE  ma'[a][i] = AverageOf(IF a <= k THEN Holds(t, next, i)
                                     ELSE Holds(maCnt, cal_ma_index, i), MAInterval[a])
    <3>1. ma[a][i] = AverageOf(IF a < k THEN Holds(t, next, i)
                               ELSE Holds(maCnt, cal_ma_index, i), MAInterval[a])
      BY <2>1 DEF AverageInv
    <3>2. Holds(t, next, i) = IF i = next THEN t ELSE Holds(maCnt, cal_ma_index, i)
      BY <1>3, HoldsNext
    <3>3. CASE a = k
      <4>1. ~(a < k) /\ a <= k
        BY <3>3, Constants
      <4>2. CASE i = next
        BY <1>2, <1>3, <2>2, <2>4, <3>2, <3>3, <4>1, <4>2
      <4>3. CASE i # next
        BY <1>2, <1>3, <2>2, <2>4, <3>1, <3>2, <3>3, <4>1, <4>3
      <4> QED BY <4>2, <4>3
    <3>4. CASE a # k
      <4>1. a < k <=> a <= k
        BY <1>2, <3>4, Constants
      <4> QED BY <1>2, <2>2, <2>4, <3>1, <3>4, <4>1
    <3> QED BY <3>3, <3>4
  <2> QED BY <2>1, <2>6, <2>7, <2>8 DEF AverageInv, MaWindow
<1>8. RatioInv'
  <2>1. \A r \in ADRs : ~Compared(r) /\ ~Compared(r)'
    BY <1>2 DEF MaWindow, Compared
  <2> QED BY <2>1 DEF RatioInv, MaWindow, ratio
<1> QED BY <1>1, <1>6, <1>7, <1>8

(* The averages of the tick become visible.                                *)
LEMMA MaPublishInv == IndInv /\ MaPublish => IndInv'
<1> SUFFICES ASSUME IndInv, MaPublish PROVE IndInv'
  OBVIOUS
<1> USE DEF IndInv
<1>1. WriterInv' /\ PriceInv'
  BY WriterFrame, PriceFrame DEF MaPublish, ring
<1>2. pcC = "ma_publish" /\ Follows(maCnt, cal_ma_index) /\ maCnt < pushed
  BY DEF MaPublish, PhaseInv, AverageSteps
<1>3. PhaseInv'
  <2>1. Follows(maCnt + 1, Succ(cal_ma_index))
    BY <1>2, FollowsNext
  <2>2. Follows(maCnt, cal_ma_index)' /\ Follows(adrCnt, cal_adr_index)'
    BY <2>1 DEF MaPublish, PhaseInv, Follows, ring, ratio
  <2>3. maCnt + 1 - adrCnt \in {0, 1}
    BY <1>2 DEF PhaseInv, AverageSteps, Follows, Placed
  <2>4. /\ pcC' = "adr_test" /\ pcC' \in CalculatorSteps
        /\ pcC' \notin AverageSteps /\ pcC' \notin RatioSteps
    BY DEF MaPublish, CalculatorSteps, AverageSteps, RatioSteps
  <2>5. k' = k /\ k \in Nat \ {0} /\ wrapped' = wrapped /\ wrapped \in BOOLEAN
    BY DEF MaPublish, PhaseInv
  <2>6. maCnt' = maCnt + 1 /\ adrCnt' = adrCnt
    BY DEF MaPublish
  <2>7. maCnt' - adrCnt' \in {0, 1}
    <3>1. maCnt \in Nat /\ adrCnt \in Nat
      BY DEF PhaseInv, Follows, Placed
    <3> HIDE DEF IndInv
    <3> QED BY <2>3, <2>6, <3>1
  <2> HIDE DEF IndInv
  <2> QED BY <2>2, <2>4, <2>5, <2>7 DEF PhaseInv
<1>4. AverageInv'
  <2>1. \A a \in MAs : Windowed(a) /\ ~Windowed(a)' /\ ~Added(a)'
    BY <1>2 DEF MaPublish, Windowed, Added
  <2> QED BY <2>1 DEF AverageInv, MaPublish
<1>5. RatioInv'
  <2>1. \A r \in ADRs : ~Compared(r) /\ ~Compared(r)'
    BY <1>2 DEF MaPublish, Compared
  <2> QED BY <2>1 DEF RatioInv, MaPublish, ratio
<1> QED BY <1>1, <1>3, <1>4, <1>5
-----------------------------------------------------------------------------
(* The steps of CalADRatio.                                                *)

(* Calculator finds a tick exactly when there is one.                      *)
LEMMA AdrTestInv == IndInv /\ AdrTest => IndInv'
<1> SUFFICES ASSUME IndInv, AdrTest PROVE IndInv'
  OBVIOUS
<1> USE DEF IndInv
<1>1. WriterInv' /\ PriceInv'
  BY WriterFrame, PriceFrame DEF AdrTest, ring
<1>2. cal_adr_index = md_index <=> adrCnt = pushed
  BY Constants DEF WriterInv, PhaseInv, Follows, Placed, Slots
<1>3. PhaseInv'
  <2>1. Follows(maCnt, cal_ma_index)' /\ Follows(adrCnt, cal_adr_index)'
    BY DEF AdrTest, PhaseInv, Follows, ring, average, ratio
  <2>2. maCnt \in Nat /\ adrCnt \in Nat /\ pushed \in Nat /\ maCnt <= pushed /\ adrCnt <= pushed
    BY DEF PhaseInv, WriterInv, Follows, Placed
  <2> QED BY <1>2, <2>1, <2>2
        DEF AdrTest, PhaseInv, CalculatorSteps, AverageSteps, RatioSteps, ring, average, ratio
<1>4. AverageInv'
  <2>1. \A a \in MAs : Windowed(a)' = Windowed(a) /\ Added(a)' = Added(a)
    BY DEF AdrTest, Windowed, Added
  <2> QED BY <2>1 DEF AdrTest, AverageInv, average
<1>5. RatioInv'
  <2>1. \A r \in ADRs : Compared(r)' = Compared(r)
    BY DEF AdrTest, Compared
  <2> QED BY <2>1 DEF AdrTest, RatioInv, ratio
<1> QED BY <1>1, <1>3, <1>4, <1>5

(* Whether the ring has been filled is read once for every ratio.          *)
LEMMA AdrCycleInv == IndInv /\ AdrCycle => IndInv'
<1> SUFFICES ASSUME IndInv, AdrCycle PROVE IndInv'
  OBVIOUS
<1> USE DEF IndInv
<1>1. WriterInv' /\ PriceInv'
  BY WriterFrame, PriceFrame DEF AdrCycle, ring
<1>2. pcC = "adr_cycle" /\ Follows(adrCnt, cal_adr_index) /\ adrCnt < pushed
  BY DEF AdrCycle, PhaseInv, RatioSteps
<1>3. PhaseInv'
  <2>1. Follows(maCnt, cal_ma_index)' /\ Follows(adrCnt, cal_adr_index)'
    BY DEF AdrCycle, PhaseInv, Follows, ring, average, ratio
  <2>2. IF wrapped' THEN pushed >= RING_SIZE ELSE adrCnt = Succ(cal_adr_index)
    BY <1>2, WrapSeen DEF AdrCycle
  <2>3. 1 \in ADRs
    BY Constants
  <2>4. wrapped' \in BOOLEAN
    BY DEF AdrCycle
  <2> QED BY <1>2, <2>1, <2>2, <2>3, <2>4
        DEF AdrCycle, PhaseInv, CalculatorSteps, AverageSteps, RatioSteps, ring, average, ratio
<1>4. AverageInv'
  <2>1. \A a \in MAs : Windowed(a)' = Windowed(a) /\ Added(a)' = Added(a)
    BY <1>2 DEF AdrCycle, Windowed, Added
  <2> QED BY <2>1 DEF AdrCycle, AverageInv, average
<1>5. RatioInv'
  <2>1. \A r \in ADRs : ~Compared(r) /\ ~Compared(r)'
    BY <1>2, Constants DEF AdrCycle, Compared
  <2> QED BY <2>1 DEF RatioInv, AdrCycle, ratio
<1> QED BY <1>1, <1>3, <1>4, <1>5

(* A ratio compares the tick with the one its look-back before.            *)
LEMMA AdrRatioInv == IndInv /\ AdrRatio => IndInv'
<1> SUFFICES ASSUME IndInv, AdrRatio PROVE IndInv'
  OBVIOUS
<1> USE DEF IndInv
<1> DEFINE t    == adrCnt + 1
           next == Succ(cal_adr_index)
           I    == ADRInterval[k]
<1>1. WriterInv' /\ PriceInv'
  BY WriterFrame, PriceFrame DEF AdrRatio, ring
<1>2. /\ pcC = "adr_ratio" /\ k \in ADRs /\ Follows(adrCnt, cal_adr_index) /\ adrCnt < pushed
      /\ wrapped \in BOOLEAN
      /\ IF wrapped THEN pushed >= RING_SIZE ELSE adrCnt = next
  BY DEF AdrRatio, PhaseInv, RatioSteps
<1>3. /\ adrCnt \in Nat /\ t \in Ticks /\ next \in Slots
      /\ cal_adr_index \in Slots \union {-1}
      /\ price[next] = t
  BY <1>2, NextTick DEF Follows, Placed
<1>4. I \in Nat \ {0} /\ MaxLag + I <= RING_SIZE
  BY <1>2, Constants
<1>5. /\ wrapped \/ next >= I <=> t > I
      /\ t > I => price[Behind(next, I)] = t - I /\ t - I \in Ticks
  <2>1. WriterInv /\ PriceInv
    OBVIOUS
  <2> HIDE DEF I
  <2>2. /\ pushed >= RING_SIZE => t > I
        /\ t > I => price[Behind(next, I)] = t - I /\ t - I \in Ticks
    <3>1. Follows(adrCnt, cal_adr_index) /\ adrCnt < pushed
      BY <1>2
    <3> HIDE DEF IndInv
    <3>2. pushed >= RING_SIZE => adrCnt + 1 > I
      BY <1>4, <2>1, <3>1, LookBack
    <3>3. adrCnt + 1 > I => price[Behind(Succ(cal_adr_index), I)] = adrCnt + 1 - I
      BY <1>4, <2>1, <3>1, LookBack
    <3>4. adrCnt + 1 > I => adrCnt + 1 - I \in Ticks
      BY <1>4, <2>1, <3>1, LookBack
    <3> QED BY <1>3, <1>4, <3>2, <3>3, <3>4
  <2>3. adrCnt = next => (next >= I <=> t > I)
    BY <1>3, <1>4
  <2> QED BY <1>2, <2>2, <2>3
<1>6. PhaseInv'
  BY <1>2, Constants
     DEF AdrRatio, PhaseInv, CalculatorSteps, AverageSteps, RatioSteps, Follows, ring, average
<1>7. RatioInv'
  <2>1. \A r \in ADRs : /\ Compared(r) <=> r < k
                        /\ Compared(r)' <=> r <= k
    BY <1>2, Constants DEF AdrRatio, Compared
  <2>2. adr \in [ADRs -> [Slots -> Ratios]]
    BY DEF RatioInv
  <2>3. RatioOf(t, I) \in Ratios
    <3>1. 0 \in Ticks
      BY Constants DEF Ticks
    <3>2. NoRatio \in Ratios
      BY <3>1 DEF NoRatio, Ratios
    <3>3. t > I => [cur |-> t, old |-> t - I] \in Ratios
      BY <1>3, <1>5 DEF Ratios
    <3> QED BY <3>2, <3>3 DEF RatioOf
  <2>4. adr' = [adr EXCEPT ![k] = [adr[k] EXCEPT ![next] = RatioOf(t, I)]]
    <3>1. CASE t > I
      <4>1. adr' = [adr EXCEPT ![k][next] = [cur |-> t, old |-> t - I]]
        BY <1>3, <1>5, <3>1 DEF AdrRatio
      <4> QED BY <1>2, <2>2, <3>1, <4>1 DEF RatioOf
    <3>2. CASE ~(t > I)
      <4>1. adr' = adr
        BY <1>5, <3>2 DEF AdrRatio
      <4>2. adr[k][next] = RatioOf(t, I)
        <5>1. Holds(adrCnt, cal_adr_index, next) \in Int /\ Holds(adrCnt, cal_adr_index, next) <= adrCnt
          BY <1>3, HoldsAtMost
        <5>2. adr[k][next] = RatioOf(Holds(adrCnt, cal_adr_index, next), I)
          BY <1>2, <1>3, <2>1, Constants DEF RatioInv
        <5>3. ~(Holds(adrCnt, cal_adr_index, next) > I)
          BY <1>3, <1>4, <3>2, <5>1
        <5> QED BY <3>2, <5>2, <5>3 DEF RatioOf
      <4> QED BY <1>2, <1>3, <2>2, <4>1, <4>2
    <3> QED BY <3>1, <3>2
  <2>5. adr' \in [ADRs -> [Slots -> Ratios]]
    BY <1>2, <2>2, <2>3, <2>4
  <2>6. ASSUME NEW r \in ADRs, NEW i \in Slots
        PROVE  adr'[r][i] = RatioOf(IF r <= k THEN Holds(t, next, i)
                                    ELSE Holds(adrCnt, cal_adr_index, i), ADRInterval[r])
    <3>1. adr[r][i] = RatioOf(IF r < k THEN Holds(t, next, i)
                              ELSE Holds(adrCnt, cal_adr_index, i), ADRInterval[r])
      BY <2>1 DEF RatioInv
    <3>2. Holds(t, next, i) = IF i = next THEN t ELSE Holds(adrCnt, cal_adr_index, i)
      BY <1>3, HoldsNext
    <3>3. CASE r = k
      <4>1. ~(r < k) /\ r <= k
        BY <3>3, Constants
      <4>2. CASE i = next
        BY <1>2, <1>3, <2>2, <2>4, <3>2, <3>3, <4>1, <4>2
      <4>3. CASE i # next
        BY <1>2, <1>3, <2>2, <2>4, <3>1, <3>2, <3>3, <4>1, <4>3
      <4> QED BY <4>2, <4>3
    <3>4. CASE r # k
      <4>1. r < k <=> r <= k
        BY <1>2, <3>4, Constants
      <4> QED BY <1>2, <2>2, <2>4, <3>1, <3>4, <4>1
    <3> QED BY <3>3, <3>4
  <2> QED BY <2>1, <2>5, <2>6 DEF RatioInv, AdrRatio
<1>8. AverageInv'
  <2>1. \A a \in MAs : Windowed(a)' = Windowed(a) /\ Added(a)' = Added(a)
    BY <1>2 DEF AdrRatio, Windowed, Added
  <2> QED BY <2>1 DEF AdrRatio, AverageInv, average
<1> QED BY <1>1, <1>6, <1>7, <1>8

(* The ratios of the tick become visible.                                  *)
LEMMA AdrPublishInv == IndInv /\ AdrPublish => IndInv'
<1> SUFFICES ASSUME IndInv, AdrPublish PROVE IndInv'
  OBVIOUS
<1> USE DEF IndInv
<1>1. WriterInv' /\ PriceInv'
  BY WriterFrame, PriceFrame DEF AdrPublish, ring
<1>2. pcC = "adr_publish" /\ Follows(adrCnt, cal_adr_index) /\ adrCnt < pushed
  BY DEF AdrPublish, PhaseInv, RatioSteps
<1>3. PhaseInv'
  <2>1. Follows(adrCnt + 1, Succ(cal_adr_index))
    BY <1>2, FollowsNext
  <2>2. Follows(maCnt, cal_ma_index)' /\ Follows(adrCnt, cal_adr_index)'
    BY <2>1 DEF AdrPublish, PhaseInv, Follows, ring, average
  <2>3. adrCnt + 1 - maCnt \in {0, 1}
    BY <1>2 DEF PhaseInv, RatioSteps, Follows, Placed
  <2>4. /\ pcC' = "ma_test" /\ pcC' \in CalculatorSteps
        /\ pcC' \notin AverageSteps /\ pcC' \notin RatioSteps
    BY DEF AdrPublish, CalculatorSteps, AverageSteps, RatioSteps
  <2>5. k' = k /\ k \in Nat \ {0} /\ wrapped' = wrapped /\ wrapped \in BOOLEAN
    BY DEF AdrPublish, PhaseInv
  <2>6. adrCnt' = adrCnt + 1 /\ maCnt' = maCnt
    BY DEF AdrPublish, average
  <2>7. adrCnt' - maCnt' \in {0, 1}
    <3>1. maCnt \in Nat /\ adrCnt \in Nat
      BY DEF PhaseInv, Follows, Placed
    <3> HIDE DEF IndInv
    <3> QED BY <2>3, <2>6, <3>1
  <2> HIDE DEF IndInv
  <2> QED BY <2>2, <2>4, <2>5, <2>7 DEF PhaseInv
<1>4. AverageInv'
  <2>1. \A a \in MAs : Windowed(a)' = Windowed(a) /\ Added(a)' = Added(a)
    BY <1>2 DEF AdrPublish, Windowed, Added
  <2> QED BY <2>1 DEF AdrPublish, AverageInv, average
<1>5. RatioInv'
  <2>1. \A r \in ADRs : Compared(r) /\ ~Compared(r)'
    BY <1>2 DEF AdrPublish, Compared
  <2> QED BY <2>1 DEF RatioInv, AdrPublish
<1> QED BY <1>1, <1>3, <1>4, <1>5

-----------------------------------------------------------------------------
(* Every reachable state satisfies the inductive invariant.                *)

(* A step that changes nothing.                                            *)
LEMMA StutterInv == IndInv /\ UNCHANGED vars => IndInv'
<1> SUFFICES ASSUME IndInv, UNCHANGED vars PROVE IndInv'
  OBVIOUS
<1>1. /\ UNCHANGED <<price, md_index, cycle_cnt, cal_ma_index, mt, ma, cal_adr_index, adr>>
      /\ UNCHANGED <<pcW, pcC, k, wrapped, pushed, maCnt, adrCnt>>
  BY DEF vars, ring, average, ratio, local
<1>2. WriterInv' /\ PriceInv' /\ AverageInv' /\ RatioInv'
  BY <1>1, WriterFrame, PriceFrame, AverageFrame, RatioFrame DEF IndInv, average, ratio
<1>3. PhaseInv'
  BY <1>1 DEF IndInv, PhaseInv, Follows
<1> QED BY <1>2, <1>3 DEF IndInv

(* No step of the two threads breaks the invariant.                        *)
LEMMA RingInductive == IndInv /\ [Next]_vars => IndInv'
<1> SUFFICES ASSUME IndInv, [Next]_vars PROVE IndInv'
  OBVIOUS
<1>1. CASE PushMD
  BY <1>1, PushPriceInv, PushCycleInv, PushIndexInv DEF PushMD
<1>2. CASE CalMovingAverage
  BY <1>2, MaTestInv, MaAddInv, MaCycleInv, MaWindowInv, MaPublishInv DEF CalMovingAverage
<1>3. CASE CalADRatio
  BY <1>3, AdrTestInv, AdrCycleInv, AdrRatioInv, AdrPublishInv DEF CalADRatio
<1>4. CASE UNCHANGED vars
  BY <1>4, StutterInv
<1> QED BY <1>1, <1>2, <1>3, <1>4 DEF Next, Calculator

(* What every slot, total, ratio and index of a ring is at every step of    *)
(* PushMD, CalMovingAverage and CalADRatio, for every ring size and every   *)
(* set of look-backs.                                                      *)
THEOREM Invariant == Spec => []IndInv
BY InitInv, RingInductive, PTL DEF Spec
-----------------------------------------------------------------------------
(* What the invariant says of the tick with a given number.                *)

(* PushMD has filled the ring a whole number of times before this pass.    *)
LEMMA WriterLap ==
  ASSUME WriterInv
  PROVE  \E q \in Int : RING_SIZE * q + md_index + 1 = pushed
<1>1. /\ md_index \in Slots \union {-1} /\ pushed \in Nat /\ cycle_cnt \in Int
      /\ RING_SIZE * cycle_cnt + md_index + 1 = pushed + (IF WrapPending THEN RING_SIZE ELSE 0)
  BY DEF WriterInv, Placed
<1>2. CASE ~WrapPending
  <2>1. RING_SIZE * cycle_cnt + md_index + 1 = pushed
    <3> DEFINE laps == RING_SIZE * cycle_cnt
    <3>1. laps \in Int /\ md_index \in Int
      BY <1>1, Constants DEF Slots
    <3>2. laps + md_index + 1 = pushed + (IF WrapPending THEN RING_SIZE ELSE 0)
      BY <1>1
    <3> HIDE DEF laps
    <3>3. laps + md_index + 1 = pushed
      BY <1>1, <1>2, <3>1, <3>2
    <3> QED BY <3>3 DEF laps
  <2> QED BY <1>1, <2>1
<1>3. CASE WrapPending
  <2> DEFINE q == cycle_cnt - 1
             laps == RING_SIZE * cycle_cnt
  <2>1. q \in Int /\ laps \in Int /\ md_index \in Int
    BY <1>1, Constants DEF Slots
  <2>2. RING_SIZE * q = laps - RING_SIZE
    BY <1>1, Constants
  <2>3. laps + md_index + 1 = pushed + RING_SIZE
    BY <1>1, <1>3
  <2> HIDE DEF q, laps
  <2>4. RING_SIZE * q + md_index + 1 = pushed
    BY <1>1, <2>1, <2>2, <2>3, Constants
  <2> QED BY <2>1, <2>4
<1> QED BY <1>2, <1>3

(* So has each of the two counters of Calculator.                          *)
LEMMA FollowerLap ==
  ASSUME WriterInv, NEW n, NEW idx, Follows(n, idx)
  PROVE  \E q \in Int : RING_SIZE * q + idx + 1 = n
<1>1. PICK q \in Int : RING_SIZE * q + md_index + 1 = pushed
  BY WriterLap
<1>2. /\ md_index \in Int /\ pushed \in Int /\ n \in Int /\ idx \in Int
      /\ (pushed - md_index) - (n - idx) \in {0, RING_SIZE}
  BY Constants DEF WriterInv, Follows, Placed, Slots
<1>3. CASE (pushed - md_index) - (n - idx) = 0
  <2> DEFINE laps == RING_SIZE * q
  <2>1. laps \in Int /\ laps + md_index + 1 = pushed
    BY <1>1, Constants
  <2> HIDE DEF laps
  <2>2. laps + idx + 1 = n
    BY <1>2, <1>3, <2>1
  <2> QED BY <2>2 DEF laps
<1>4. CASE (pushed - md_index) - (n - idx) = RING_SIZE
  <2> DEFINE p == q - 1
             laps == RING_SIZE * q
  <2>1. p \in Int /\ laps \in Int /\ laps + md_index + 1 = pushed /\ RING_SIZE * p = laps - RING_SIZE
    BY <1>1, Constants
  <2> HIDE DEF laps, p
  <2>2. RING_SIZE * p + idx + 1 = n
    BY <1>2, <1>4, <2>1, Constants
  <2> QED BY <2>1, <2>2
<1> QED BY <1>2, <1>3, <1>4

(* The slot of a tick that is at most a ring old, from that of the newest. *)
LEMMA SlotOf ==
  ASSUME NEW n \in Nat, NEW idx \in Slots \union {-1}, NEW q \in Int,
         RING_SIZE * q + idx + 1 = n,
         NEW t \in Int, n - RING_SIZE < t, t <= n, 0 < t
  PROVE  Slot(t) \in Slots /\ (n - idx) - (t - Slot(t)) \in {0, RING_SIZE}
<1> DEFINE laps == RING_SIZE * q
           x == t - 1
<1>1. /\ laps \in Int /\ idx \in Int /\ x \in Int
      /\ RING_SIZE \in Nat \ {0}
      /\ laps + idx + 1 = n
      /\ -1 <= idx /\ idx < RING_SIZE
  BY Constants DEF Slots
<1>2. CASE x >= laps
  <2>1. x < laps + RING_SIZE
    <3> HIDE DEF laps
    <3> QED BY <1>1, Constants
  <2>2. x % RING_SIZE = x - laps
    <3> HIDE DEF x
    <3> QED BY <1>1, <1>2, <2>1, ModLap
  <2>3. Slot(t) = t - 1 - laps
    BY <2>2 DEF Slot
  <2> HIDE DEF laps
  <2> QED BY <1>1, <1>2, <2>1, <2>3 DEF Slots
<1>3. CASE x < laps
  <2> DEFINE p == q - 1
             low == RING_SIZE * p
  <2>1. p \in Int /\ low = laps - RING_SIZE
    BY Constants
  <2>2. low <= x /\ x < low + RING_SIZE
    <3> HIDE DEF laps, low
    <3> QED BY <1>1, <1>3, <2>1
  <2>3. x % RING_SIZE = x - low
    <3> HIDE DEF x, p
    <3> QED BY <1>1, <2>1, <2>2, ModLap
  <2>4. Slot(t) = t - 1 - low
    BY <2>3 DEF Slot
  <2> HIDE DEF laps, low
  <2> QED BY <1>1, <1>3, <2>1, <2>2, <2>4 DEF Slots
<1> QED BY <1>1, <1>2, <1>3

(* That slot holds the tick, before and after one more has been handled.   *)
LEMMA SlotHolds ==
  ASSUME NEW n \in Nat, NEW idx \in Slots \union {-1}, NEW q \in Int,
         RING_SIZE * q + idx + 1 = n,
         NEW t \in Int, n - RING_SIZE < t, t <= n, 0 < t
  PROVE  /\ Slot(t) \in Slots
         /\ Holds(n, idx, Slot(t)) = t
         /\ n + 1 - RING_SIZE < t => Holds(n + 1, Succ(idx), Slot(t)) = t
<1>1. Slot(t) \in Slots /\ (n - idx) - (t - Slot(t)) \in {0, RING_SIZE}
  BY SlotOf
<1> DEFINE i == Slot(t)
<1> HIDE DEF i
<1>2. i \in Slots /\ (n - idx) - (t - i) \in {0, RING_SIZE}
  BY <1>1 DEF i
<1>3. Holds(n, idx, i) = t
  BY <1>2, HoldsTick
<1>4. ASSUME n + 1 - RING_SIZE < t
      PROVE  Holds(n + 1, Succ(idx), i) = t
  <2>1. /\ Succ(idx) = IF idx + 1 = RING_SIZE THEN 0 ELSE idx + 1
        /\ Succ(idx) \in Slots
    BY SuccIs
  <2>2. i # Succ(idx)
    BY <1>2, <1>4, <2>1, Constants DEF Slots
  <2> QED BY <1>2, <1>3, <2>2, HoldsNext
<1> QED BY <1>2, <1>3, <1>4 DEF i

-----------------------------------------------------------------------------
(* The properties of MDRing.                                               *)

(* The invariant says of every index that it is a slot.                    *)
LEMMA InvTypes == IndInv => TypeOK
<1> SUFFICES ASSUME IndInv PROVE TypeOK
  OBVIOUS
<1>1. pushed \in Ticks /\ maCnt \in Ticks /\ adrCnt \in Ticks
  BY Constants DEF IndInv, WriterInv, PhaseInv, Follows, Placed, Ticks
<1>2. /\ md_index \in Slots \union {-1} /\ cycle_cnt \in Nat /\ pcW \in WriterSteps
      /\ cal_ma_index \in Slots \union {-1} /\ cal_adr_index \in Slots \union {-1}
  BY DEF IndInv, WriterInv, PhaseInv, Follows, Placed
<1>3. /\ pcC \in CalculatorSteps /\ k \in Nat \ {0} /\ wrapped \in BOOLEAN
      /\ pcC \in {"ma_add", "ma_window"} => k \in MAs
      /\ pcC = "adr_ratio" => k \in ADRs
  BY DEF IndInv, PhaseInv
<1>4. /\ price \in [Slots -> Ticks]
      /\ mt \in [MAs -> Totals]
      /\ ma \in [MAs -> [Slots -> Totals]]
      /\ adr \in [ADRs -> [Slots -> Ratios]]
  BY DEF IndInv, PriceInv, AverageInv, RatioInv
<1> QED BY <1>1, <1>2, <1>3, <1>4 DEF TypeOK

(* Every index PushMD, CalMovingAverage and CalADRatio compute is a slot of *)
(* the arrays they index with it, for every ring size.                     *)
THEOREM TypeCorrect == Spec => []TypeOK
BY InvTypes, Invariant, PTL

(* PushMD keeps the last RING_SIZE prices in their slots, whatever the      *)
(* number of times the ring has been filled.                               *)
THEOREM KeepsRecentTicks == Spec => []RecentTicksKept
<1>1. IndInv => RecentTicksKept
  <2> SUFFICES ASSUME IndInv PROVE RecentTicksKept
    OBVIOUS
  <2>1. /\ pushed \in Nat /\ md_index \in Slots \union {-1} /\ WriterInv /\ PriceInv
        /\ pushed > 0 => md_index \in Slots
    BY Constants DEF IndInv, WriterInv, Placed, Slots
  <2>2. PICK q \in Int : RING_SIZE * q + md_index + 1 = pushed
    BY <2>1, WriterLap
  <2>3. ASSUME NEW t \in 1 .. pushed, Kept(t)
        PROVE  price[Slot(t)] = t
    <3>1. t \in Int /\ 0 < t /\ t <= pushed /\ pushed - RING_SIZE < t
      BY <2>1, <2>3, Constants DEF Kept
    <3>2. /\ Slot(t) \in Slots
          /\ Holds(pushed, md_index, Slot(t)) = t
          /\ pushed + 1 - RING_SIZE < t => Holds(pushed + 1, Succ(md_index), Slot(t)) = t
      BY <2>1, <2>2, <3>1, SlotHolds
    <3>3. price[Slot(t)] = PriceOf(IF pcW = "idle" THEN Holds(pushed, md_index, Slot(t))
                                   ELSE Holds(pushed + 1, Succ(md_index), Slot(t)))
      BY <2>1, <3>2 DEF PriceInv
    <3>4. pcW # "idle" => pushed + 1 - RING_SIZE < t
      BY <2>1, <2>3, Constants DEF Kept
    <3> QED BY <3>1, <3>2, <3>3, <3>4 DEF PriceOf
  <2>4. pushed > 0 => md_index = Slot(pushed)
    <3> SUFFICES ASSUME pushed > 0 PROVE md_index = Slot(pushed)
      OBVIOUS
    <3>1. Slot(pushed) \in Slots /\ (pushed - md_index) - (pushed - Slot(pushed)) \in {0, RING_SIZE}
      <4>1. pushed \in Int /\ pushed - RING_SIZE < pushed /\ pushed <= pushed /\ 0 < pushed
        BY <2>1, Constants
      <4> QED BY <2>1, <2>2, <4>1, SlotOf
    <3> DEFINE i == Slot(pushed)
    <3> HIDE DEF i
    <3>2. i \in Slots /\ (pushed - md_index) - (pushed - i) \in {0, RING_SIZE}
      BY <3>1 DEF i
    <3>3. md_index = i
      BY <2>1, <3>2, Constants DEF Slots
    <3> QED BY <3>3 DEF i
  <2>5. pcW # "index" => RING_SIZE * cycle_cnt + md_index + 1 = pushed
    <3> SUFFICES ASSUME pcW # "index" PROVE RING_SIZE * cycle_cnt + md_index + 1 = pushed
      OBVIOUS
    <3>1. RING_SIZE * cycle_cnt + md_index + 1 = pushed + 0
      BY <2>1 DEF WriterInv, WrapPending
    <3> QED BY <2>1, <3>1
  <2> QED BY <2>3, <2>4, <2>5 DEF RecentTicksKept
<1> QED BY <1>1, Invariant, PTL

(* The test with which CalMovingAverage and CalADRatio return early is true *)
(* exactly when they have handled every tick.                              *)
THEOREM CaughtUp == Spec => []CaughtUpTest
<1>1. IndInv => CaughtUpTest
  BY Constants DEF IndInv, WriterInv, PhaseInv, Follows, Placed, Slots, CaughtUpTest
<1> QED BY <1>1, Invariant, PTL

(* The running totals of CalMovingAverage never drift from the window, and  *)
(* every stored average is the one of its tick.                            *)
THEOREM AveragesExact == Spec => []AverageExact
<1>1. IndInv => AverageExact
  <2> SUFFICES ASSUME IndInv, NEW a \in MAs
               PROVE  /\ pcC \notin AverageSteps => mt[a] = Window(maCnt, MAInterval[a])
                      /\ \A t \in MAInterval[a] + 1 .. maCnt :
                           t > maCnt + 1 - RING_SIZE => ma[a][Slot(t)] = Window(t, MAInterval[a])
    BY DEF AverageExact
  <2>1. /\ Follows(maCnt, cal_ma_index) /\ WriterInv /\ AverageInv
        /\ maCnt \in Nat /\ cal_ma_index \in Slots \union {-1}
        /\ MAInterval[a] \in Nat \ {0}
    BY Constants DEF IndInv, PhaseInv, Follows, Placed
  <2>2. PICK q \in Int : RING_SIZE * q + cal_ma_index + 1 = maCnt
    BY <2>1, FollowerLap
  <2>3. pcC \notin AverageSteps => mt[a] = Window(maCnt, MAInterval[a])
    BY <2>1 DEF AverageInv, AverageSteps, Windowed, Added
  <2>4. ASSUME NEW t \in MAInterval[a] + 1 .. maCnt, t > maCnt + 1 - RING_SIZE
        PROVE  ma[a][Slot(t)] = Window(t, MAInterval[a])
    <3>1. /\ t \in Int /\ 0 < t /\ t <= maCnt /\ maCnt - RING_SIZE < t
          /\ t > MAInterval[a] /\ maCnt + 1 - RING_SIZE < t
      BY <2>1, <2>4, Constants
    <3>2. /\ Slot(t) \in Slots
          /\ Holds(maCnt, cal_ma_index, Slot(t)) = t
          /\ Holds(maCnt + 1, Succ(cal_ma_index), Slot(t)) = t
      BY <2>1, <2>2, <3>1, SlotHolds
    <3>3. ma[a][Slot(t)] = AverageOf(t, MAInterval[a])
      BY <2>1, <3>2 DEF AverageInv
    <3> QED BY <3>1, <3>3 DEF AverageOf
  <2> QED BY <2>3, <2>4
<1> QED BY <1>1, Invariant, PTL

(* Every ratio CalADRatio publishes compares two prices that are exactly    *)
(* its look-back apart, before and after the ring is filled.               *)
THEOREM RatiosExact == Spec => []RatioExact
<1>1. IndInv => RatioExact
  <2> SUFFICES ASSUME IndInv, NEW r \in ADRs, NEW t \in 1 .. adrCnt,
                      t > adrCnt + 1 - RING_SIZE
               PROVE  adr[r][Slot(t)] = IF t > ADRInterval[r]
                                        THEN [cur |-> t, old |-> t - ADRInterval[r]]
                                        ELSE NoRatio
    BY DEF RatioExact
  <2>1. /\ Follows(adrCnt, cal_adr_index) /\ WriterInv /\ RatioInv
        /\ adrCnt \in Nat /\ cal_adr_index \in Slots \union {-1}
    BY DEF IndInv, PhaseInv, Follows, Placed
  <2>2. PICK q \in Int : RING_SIZE * q + cal_adr_index + 1 = adrCnt
    BY <2>1, FollowerLap
  <2>3. /\ t \in Int /\ 0 < t /\ t <= adrCnt /\ adrCnt - RING_SIZE < t
        /\ adrCnt + 1 - RING_SIZE < t
    BY <2>1, Constants
  <2>4. /\ Slot(t) \in Slots
        /\ Holds(adrCnt, cal_adr_index, Slot(t)) = t
        /\ Holds(adrCnt + 1, Succ(cal_adr_index), Slot(t)) = t
    BY <2>1, <2>2, <2>3, SlotHolds
  <2>5. adr[r][Slot(t)] = RatioOf(t, ADRInterval[r])
    BY <2>1, <2>4 DEF RatioInv
  <2> QED BY <2>5 DEF RatioOf
<1> QED BY <1>1, Invariant, PTL

(* A round of Calculator begins with the averages level with the ratios or  *)
(* one tick behind them, and never ahead.                                  *)
THEOREM TrailsByOne == Spec => []AverageTrailsByOne
<1>1. IndInv => AverageTrailsByOne
  BY DEF IndInv, PhaseInv, AverageTrailsByOne
<1> QED BY <1>1, Invariant, PTL
-----------------------------------------------------------------------------
(* A ring implements RingProgress.                                         *)

(* A step that leaves the three counters alone is a stutter of RingProgress. *)
LEMMA ProgressStutter ==
  UNCHANGED <<pushed, maCnt, adrCnt>> => [Progress!Next]_(Progress!counters)
BY DEF Progress!counters

(* The step that makes a tick visible pushes it.                           *)
LEMMA ProgressPush == IndInv /\ PushIndex => Progress!Push
<1> SUFFICES ASSUME IndInv, PushIndex PROVE Progress!Push
  OBVIOUS
<1>1. /\ pushed \in Nat /\ maCnt \in Nat /\ adrCnt \in Nat
      /\ pushed + 1 <= maCnt + MaxLag /\ pushed + 1 <= adrCnt + MaxLag
      /\ pushed < MaxTicks
  BY DEF IndInv, PushIndex, WriterInv, PhaseInv, Follows, Placed
<1>2. pushed < maCnt + MaxLag /\ pushed < adrCnt + MaxLag
  <2> HIDE DEF IndInv
  <2> QED BY <1>1, Constants
<1> QED BY <1>1, <1>2 DEF PushIndex, Progress!Push

(* The step that publishes an average averages a tick.                     *)
LEMMA ProgressAverage == IndInv /\ MaPublish => Progress!Average
<1> SUFFICES ASSUME IndInv, MaPublish PROVE Progress!Average
  OBVIOUS
<1>1. pcC \in AverageSteps
  BY DEF MaPublish, AverageSteps
<1>2. /\ pushed \in Nat /\ maCnt \in Nat /\ adrCnt \in Nat
      /\ maCnt < pushed /\ adrCnt - maCnt \in {0, 1}
  BY <1>1 DEF IndInv, WriterInv, PhaseInv, Follows, Placed
<1>3. maCnt <= adrCnt
  BY <1>2
<1> QED BY <1>2, <1>3 DEF MaPublish, Progress!Average

(* The step that publishes a ratio compares a tick.                        *)
LEMMA ProgressCompare == IndInv /\ AdrPublish => Progress!Compare
<1> SUFFICES ASSUME IndInv, AdrPublish PROVE Progress!Compare
  OBVIOUS
<1>1. pcC \in RatioSteps
  BY DEF AdrPublish, RatioSteps
<1>2. /\ pushed \in Nat /\ maCnt \in Nat /\ adrCnt \in Nat
      /\ adrCnt < pushed /\ maCnt - adrCnt \in {0, 1}
  BY <1>1 DEF IndInv, WriterInv, PhaseInv, Follows, Placed
<1>3. adrCnt <= maCnt
  BY <1>2
<1> QED BY <1>2, <1>3 DEF AdrPublish, Progress!Compare

(* What the threads of the ring do one memory access at a time is, seen     *)
(* from outside, one tick pushed, averaged or compared at a time, for every *)
(* ring size and look-back: Pipeline may take a ring for its counters.      *)
THEOREM RingImplementsProgress == Spec => ImplementsProgress
<1>1. Init => Progress!Init
  BY DEF Init, Progress!Init
<1>2. IndInv /\ [Next]_vars => [Progress!Next]_(Progress!counters)
  <2> SUFFICES ASSUME IndInv, [Next]_vars PROVE [Progress!Next]_(Progress!counters)
    OBVIOUS
  <2>1. CASE PushMD
    <3>1. PushPrice \/ PushCycle => UNCHANGED <<pushed, maCnt, adrCnt>>
      BY DEF PushPrice, PushCycle
    <3>2. PushIndex => Progress!Next
      BY ProgressPush DEF Progress!Next
    <3> QED BY <2>1, <3>1, <3>2, ProgressStutter DEF PushMD
  <2>2. CASE CalMovingAverage
    <3>1. MaTest \/ MaAdd \/ MaCycle \/ MaWindow => UNCHANGED <<pushed, maCnt, adrCnt>>
      BY DEF MaTest, MaAdd, MaCycle, MaWindow
    <3>2. MaPublish => Progress!Next
      BY ProgressAverage DEF Progress!Next
    <3> QED BY <2>2, <3>1, <3>2, ProgressStutter DEF CalMovingAverage
  <2>3. CASE CalADRatio
    <3>1. AdrTest \/ AdrCycle \/ AdrRatio => UNCHANGED <<pushed, maCnt, adrCnt>>
      BY DEF AdrTest, AdrCycle, AdrRatio
    <3>2. AdrPublish => Progress!Next
      BY ProgressCompare DEF Progress!Next
    <3> QED BY <2>3, <3>1, <3>2, ProgressStutter DEF CalADRatio
  <2>4. CASE UNCHANGED vars
    BY <2>4, ProgressStutter DEF vars
  <2> QED BY <2>1, <2>2, <2>3, <2>4 DEF Next, Calculator
<1> QED BY <1>1, <1>2, Invariant, PTL DEF Spec, ImplementsProgress, Progress!Spec
=============================================================================
