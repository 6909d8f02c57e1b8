----------------------------- MODULE MDRingInv -----------------------------
(***************************************************************************)
(* The inductive invariant of MDRing: what every slot, total and index is  *)
(* at every step of the two threads, as a function of the three history    *)
(* counters. MDRingProofs proves it; TLC checks it on the small instance.  *)
(***************************************************************************)
EXTENDS MDRing

(* The tick whose slot i is once n ticks have been handled, the last one in *)
(* slot idx. It is 0 or less when there is none.                            *)
Holds(n, idx, i) == IF i <= idx THEN n - idx + i ELSE n - idx + i - RING_SIZE

PriceOf(t)             == IF t > 0 THEN t ELSE 0
RatioOf(t, interval)   == IF t > interval
                          THEN [cur |-> t, old |-> t - interval] ELSE NoRatio
AverageOf(t, interval) == IF t > interval THEN Window(t, interval) ELSE ZeroSum

(* Counter n and index idx of one thread, on their own.                     *)
Placed(n, idx) ==
  /\ n \in Nat /\ idx \in Slots \union {-1}
  /\ n = 0 <=> idx = -1
  /\ n >= idx + 1

(* How a counter and its index stand to those of the writer: at most MaxLag *)
(* ticks behind, and in the same pass over the ring or in the one before.   *)
Follows(n, idx) ==
  /\ Placed(n, idx)
  /\ n <= pushed
  /\ pushed + (IF pcW = "idle" THEN 0 ELSE 1) <= n + MaxLag
  /\ (pushed - md_index) - (n - idx) \in {0, RING_SIZE}

WrapPending == pcW = "index" /\ md_index + 1 = RING_SIZE

WriterInv ==
  /\ pcW \in WriterSteps
  /\ cycle_cnt \in Nat
  /\ pushed <= MaxTicks /\ (pcW # "idle" => pushed < MaxTicks)
  /\ Placed(pushed, md_index)
  /\ RING_SIZE * cycle_cnt + md_index + 1
       = pushed + (IF WrapPending THEN RING_SIZE ELSE 0)

PriceInv ==
  /\ price \in [Slots -> Ticks]
  /\ \A i \in Slots :
       price[i] = PriceOf(IF pcW = "idle" THEN Holds(pushed, md_index, i)
                          ELSE Holds(pushed + 1, Succ(md_index), i))

(* Where Calculator is: one of its two calls has found a tick to handle, or *)
(* neither has; and what it found in cycle_cnt.                             *)
PhaseInv ==
  /\ pcC \in CalculatorSteps
  /\ k \in Nat \ {0} /\ wrapped \in BOOLEAN
  /\ pcC \in {"ma_add", "ma_window"} => k \in MAs
  /\ pcC = "ma_cycle" => k = 1
  /\ pcC = "adr_ratio" => k \in ADRs
  /\ Follows(maCnt, cal_ma_index) /\ Follows(adrCnt, cal_adr_index)
  /\ pcC \in AverageSteps => maCnt < pushed
  /\ pcC \in RatioSteps => adrCnt < pushed
  /\ pcC = "ma_test" \/ pcC \in AverageSteps => adrCnt - maCnt \in {0, 1}
  /\ pcC = "adr_test" \/ pcC \in RatioSteps => maCnt - adrCnt \in {0, 1}
  /\ pcC = "ma_window" =>
       IF wrapped THEN pushed >= RING_SIZE ELSE maCnt = Succ(cal_ma_index)
  /\ pcC = "adr_ratio" =>
       IF wrapped THEN pushed >= RING_SIZE ELSE adrCnt = Succ(cal_adr_index)

(* Which totals already have the next tick, and which no longer the oldest. *)
Added(a)    == (pcC = "ma_add" /\ a < k) \/ pcC \in {"ma_cycle", "ma_window", "ma_publish"}
Windowed(a) == (pcC = "ma_window" /\ a < k) \/ pcC = "ma_publish"
Compared(r) == (pcC = "adr_ratio" /\ r < k) \/ pcC = "adr_publish"

AverageInv ==
  /\ mt \in [MAs -> Totals]
  /\ ma \in [MAs -> [Slots -> Totals]]
  /\ \A a \in MAs :
       mt[a] = IF Windowed(a)   THEN Window(maCnt + 1, MAInterval[a])
               ELSE IF Added(a) THEN Window(maCnt + 1, MAInterval[a] + 1)
               ELSE Window(maCnt, MAInterval[a])
  /\ \A a \in MAs, i \in Slots :
       ma[a][i] = AverageOf(IF Windowed(a) THEN Holds(maCnt + 1, Succ(cal_ma_index), i)
                            ELSE Holds(maCnt, cal_ma_index, i), MAInterval[a])

RatioInv ==
  /\ adr \in [ADRs -> [Slots -> Ratios]]
  /\ \A r \in ADRs, i \in Slots :
       adr[r][i] = RatioOf(IF Compared(r) THEN Holds(adrCnt + 1, Succ(cal_adr_index), i)
                           ELSE Holds(adrCnt, cal_adr_index, i), ADRInterval[r])

(* Every property of MDRing follows from this one.                          *)
IndInv == WriterInv /\ PriceInv /\ PhaseInv /\ AverageInv /\ RatioInv
=============================================================================
