---------------------------- MODULE ReplayProofs ----------------------------
(***************************************************************************)
(* Proofs about the way of a tick, in both builds, for any number of       *)
(* symbols in any order, any ring size, warm-up, lag and number of lost    *)
(* connections.                                                            *)
(***************************************************************************)
EXTENDS Replay, WellFoundedInduction, TLAPS

(* Averages and ratios of a ring are level, or one ahead of the other: the  *)
(* ratios between the calls for its symbol, the averages within.            *)
TurnInv ==
  \A s \in Symbols :
    /\ maCnt[s] <= pushed[s] /\ adrCnt[s] <= pushed[s]
    /\ IF pcC = "adr" /\ s = Order[cAt]
       THEN adrCnt[s] <= maCnt[s] /\ maCnt[s] <= adrCnt[s] + 1
       ELSE maCnt[s] <= adrCnt[s] /\ adrCnt[s] <= maCnt[s] + 1

(* How many rows of the symbol at a place in Order have been pushed.        *)
Rows(at) == i + (IF pcR = "run" /\ at < rAt THEN 1 ELSE 0)

(* In the back test, and as long as the process lives, a ring holds the     *)
(* rows that Run has come to.                                               *)
RowInv ==
  /\ BACK_TEST <=> pcR # "none"
  /\ pcR = "load" => i = 0
  /\ pcR = "run" => i < RING_SIZE
  /\ BACK_TEST /\ ~died =>
       \A at \in DOMAIN Order :
         pushed[Order[at]] = IF fields[Order[at]] = Missing THEN 0 ELSE Rows(at)

(* As long as no ring comes round, the minimum is not below where the last  *)
(* ring was when the scan began; and it is not above any ring that was      *)
(* scanned and has not come round since.                                    *)
InRound(s) == GetCycleCnt(pushed[s]) = rounds[s]

ScanInv ==
  /\ wAt = 0 => md_index = RING_SIZE
  /\ wAt > 0 =>
       /\ (\A s \in Symbols : InRound(s)) => floor <= md_index
       /\ \A s \in Symbols :
            /\ rounds[s] <= GetCycleCnt(pushed[s])
            /\ InRound(s) => /\ floor <= GetIndex(pushed[s])
                             /\ Index[s] < wAt => md_index <= GetIndex(pushed[s])

RInv == RTypeOK /\ TurnInv /\ RowInv /\ SecondsTogether /\ ScanInv

(* The types, thread by thread.                                            *)
Counts == [Symbols -> 0 .. MaxTicks]
RingTypes == pushed \in Counts /\ maCnt \in Counts /\ adrCnt \in Counts
SocketTypes ==
  /\ pcM \in {"connect", "opening", "open", "reinit", "ended"} /\ drops \in 0 .. MaxDrops
  /\ died \in BOOLEAN
CalculatorTypes == cAt \in DOMAIN Order /\ pcC \in {"ma", "adr"}
StrategyTypes   == sAt \in DOMAIN Order /\ basis \in Counts
WatchDogTypes ==
  /\ wAt \in 0 .. SymbolMaxIndex + 1
  /\ md_index \in -1 .. RING_SIZE
  /\ floor \in -1 .. RING_SIZE /\ rounds \in Counts
ReplayerTypes ==
  /\ BACK_TEST \in BOOLEAN /\ pcR \in {"none", "load", "run", "over"}
  /\ fields \in [Symbols -> 0 .. RING_SIZE \union {Missing}]
  /\ i \in 0 .. RING_SIZE /\ rAt \in DOMAIN Order

-----------------------------------------------------------------------------
(* Minima.                                                                 *)

LEMMA MinOfTwo ==
  ASSUME NEW a \in Int, NEW b \in Int
  PROVE  Min({a, b}) \in {a, b} /\ Min({a, b}) <= a /\ Min({a, b}) <= b
BY DEF Min

(* The assumptions, and what they say of the places in Order.              *)
LEMMA Places ==
  /\ Len(Order) \in Nat \ {0} /\ DOMAIN Order = 1 .. Len(Order)
  /\ \A at \in DOMAIN Order : Order[at] \in Symbols /\ at \in Int
  /\ \A s \in Symbols : \E at \in DOMAIN Order : Order[at] = s
  /\ \A at, to \in DOMAIN Order : Order[at] = Order[to] => at = to
  /\ SymbolMaxIndex = Len(Order) - 1 /\ SymbolMaxIndex \in Nat
  /\ Index \in [Symbols -> 0 .. SymbolMaxIndex]
  /\ \A n \in 0 .. SymbolMaxIndex : \E s \in Symbols : Index[s] = n
  /\ \A s, t \in Symbols : Index[s] = Index[t] => s = t
  /\ RING_SIZE \in Nat \ {0} /\ MaxTicks \in Nat /\ RING_SIZE <= MaxTicks
  /\ MaxLag \in Nat \ {0} /\ Warmup \in Nat /\ MaxDrops \in Nat
BY PipelineAssumption, ReplayAssumption
   DEF PipelineAssumption, ReplayAssumption, Symbols, ToSet, SymbolMaxIndex, IsInjective

LEMMA Numbers ==
  /\ RING_SIZE \in Nat \ {0} /\ MaxTicks \in Nat /\ RING_SIZE <= MaxTicks
  /\ MaxLag \in Nat \ {0} /\ Warmup \in Nat /\ MaxDrops \in Nat /\ SymbolMaxIndex \in Nat
BY Places

(* Division by the size of the ring.                                       *)
LEMMA RoundIs ==
  ASSUME NEW x \in Int, NEW q \in Int, RING_SIZE * q <= x, x < RING_SIZE * q + RING_SIZE
  PROVE  x \div RING_SIZE = q /\ x % RING_SIZE = x - RING_SIZE * q
<1> DEFINE d == x \div RING_SIZE
           m == x % RING_SIZE
<1>1. /\ d \in Int /\ m \in 0 .. RING_SIZE - 1
      /\ x = RING_SIZE * d + m
  BY Numbers
<1>2. x \div RING_SIZE = d /\ x % RING_SIZE = m
  OBVIOUS
<1> HIDE DEF d, m
<1>3. RING_SIZE * (q - d) < RING_SIZE /\ RING_SIZE * (d - q) < RING_SIZE
  BY <1>1, Numbers
<1>4. d = q
  <2>1. \A r \in Nat \ {0}, y \in Int : r * y < r => y <= 0
    OBVIOUS
  <2>2. q - d <= 0 /\ d - q <= 0
    BY <2>1, <1>1, <1>3, Numbers
  <2> QED BY <2>2, <1>1
<1>5. m = x - RING_SIZE * d
  BY <1>1, Numbers
<1> QED BY <1>2, <1>4, <1>5

(* One more tick takes a ring to its next index, or into its next round.    *)
LEMMA NextTick ==
  ASSUME NEW n \in Nat
  PROVE  /\ GetIndex(n) \in -1 .. RING_SIZE - 1 /\ GetCycleCnt(n) \in 0 .. n
         /\ \/ GetCycleCnt(n + 1) = GetCycleCnt(n) /\ GetIndex(n + 1) = GetIndex(n) + 1
            \/ GetCycleCnt(n + 1) = GetCycleCnt(n) + 1
<1>1. CASE n = 0
  <2> DEFINE z == 0
  <2>1. RING_SIZE * z <= 0 /\ 0 < RING_SIZE * z + RING_SIZE /\ z \in Int /\ RING_SIZE * z = 0
    BY Numbers
  <2> HIDE DEF z
  <2>2. 0 \div RING_SIZE = z /\ 0 % RING_SIZE = 0 - RING_SIZE * z
    BY <2>1, RoundIs
  <2>3. n + 1 # 0 /\ (n + 1) - 1 = 0
    BY <1>1
  <2> QED BY <1>1, <2>1, <2>2, <2>3, Numbers DEF GetIndex, GetCycleCnt, z
<1>2. CASE n # 0
  <2> DEFINE x == n - 1
             d == x \div RING_SIZE
             m == x % RING_SIZE
             e == d + 1
  <2>1. x \in Nat /\ d \in Int /\ m \in 0 .. RING_SIZE - 1 /\ x = RING_SIZE * d + m
    BY <1>2, Numbers
  <2>2. GetIndex(n) = m /\ GetCycleCnt(n) = d
    BY <1>2 DEF GetIndex, GetCycleCnt
  <2>3. GetIndex(n + 1) = n % RING_SIZE /\ GetCycleCnt(n + 1) = n \div RING_SIZE
    <3>1. n + 1 # 0 /\ (n + 1) - 1 = n
      OBVIOUS
    <3> QED BY <3>1 DEF GetIndex, GetCycleCnt
  <2>4. n = x + 1 /\ n \in Int
    OBVIOUS
  <2> HIDE DEF x, d, m
  <2>5. d \in 0 .. n
    <3>1. \A r \in Nat \ {0}, y, z \in Int : z < r /\ 0 <= r * y + z => 0 <= y
      OBVIOUS
    <3>2. \A r \in Nat \ {0}, y, z \in Nat : y <= r * y + z
      OBVIOUS
    <3> QED BY <3>1, <3>2, <2>1, <2>4, Numbers
  <2>6. CASE m + 1 < RING_SIZE
    <3>1. RING_SIZE * d <= n /\ n < RING_SIZE * d + RING_SIZE
      BY <2>1, <2>4, <2>6, Numbers
    <3>2. n \div RING_SIZE = d /\ n % RING_SIZE = n - RING_SIZE * d
      BY <3>1, <2>1, <2>4, RoundIs
    <3> QED BY <3>2, <2>1, <2>2, <2>3, <2>4, <2>5, Numbers
  <2>7. CASE m + 1 = RING_SIZE
    <3>1. e \in Int /\ RING_SIZE * e = n
      BY <2>1, <2>4, <2>7, Numbers
    <3> HIDE DEF e
    <3>2. RING_SIZE * e <= n /\ n < RING_SIZE * e + RING_SIZE
      BY <3>1, Numbers
    <3>3. n \div RING_SIZE = e
      BY <3>1, <3>2, <2>4, RoundIs
    <3> QED BY <3>3, <2>1, <2>2, <2>3, <2>5, Numbers DEF e
  <2> QED BY <2>1, <2>6, <2>7, Numbers
<1> QED BY <1>1, <1>2

(* A set of numbers that is not empty has a least one.                     *)
LEMMA LeastNumber ==
  ASSUME NEW T, T \subseteq Nat, T # {}
  PROVE  \E x \in T : \A y \in T : x <= y
<1>1. PICK x \in T : \A y \in T : ~(<<y, x>> \in OpToRel(<, Nat))
  BY NatLessThanWellFounded, WFMin, Zenon
<1>2. ASSUME NEW y \in T PROVE ~(y < x)
  <2>1. <<y, x>> \in Nat \X Nat /\ <<y, x>>[1] = y /\ <<y, x>>[2] = x
    OBVIOUS
  <2> QED BY <1>1, <2>1, Zenon DEF OpToRel
<1> QED BY <1>2

(* What WatchDog compares with is the index of some ring, and the least.   *)
LEMMA SmallestIs ==
  ASSUME pushed \in [Symbols -> Nat]
  PROVE  /\ \A s \in Symbols : Smallest <= GetIndex(pushed[s])
         /\ \E s \in Symbols : Smallest = GetIndex(pushed[s])
<1> DEFINE T == {GetIndex(pushed[s]) + 1 : s \in Symbols}
           D == {GetIndex(pushed[s]) : s \in Symbols}
<1>0. \A s \in Symbols : GetIndex(pushed[s]) \in Int /\ GetIndex(pushed[s]) >= -1
  BY NextTick, Numbers
<1>1. T \subseteq Nat /\ T # {}
  BY <1>0, Places
<1>2. PICK x \in T : \A y \in T : x <= y
  BY <1>1, LeastNumber
<1>3. x - 1 \in D /\ \A y \in D : x - 1 <= y
  <2>1. PICK s \in Symbols : x = GetIndex(pushed[s]) + 1
    OBVIOUS
  <2>2. x - 1 = GetIndex(pushed[s])
    BY <2>1, <1>0
  <2>3. ASSUME NEW t \in Symbols PROVE x - 1 <= GetIndex(pushed[t])
    <3>1. x <= GetIndex(pushed[t]) + 1
      BY <1>2
    <3> QED BY <3>1, <2>1, <1>0
  <2> QED BY <2>2, <2>3
<1>4. Min(D) \in D /\ \A y \in D : Min(D) <= y
  BY <1>3 DEF Min
<1> QED BY <1>4 DEF Smallest

LEMMA AfterPlace ==
  ASSUME NEW at \in DOMAIN Order
  PROVE  After(at) \in DOMAIN Order /\ (at # Len(Order) => After(at) = at + 1)
         /\ (at = Len(Order) => After(at) = 1)
BY Places DEF After
-----------------------------------------------------------------------------
(* What a step leaves alone keeps its types, and so do the invariants that  *)
(* speak of nothing else.                                                  *)
LEMMA TypesByThread ==
  /\ RTypeOK <=> /\ RingTypes /\ SocketTypes /\ CalculatorTypes /\ StrategyTypes
                 /\ WatchDogTypes /\ ReplayerTypes
  /\ RTypeOK' <=> /\ RingTypes' /\ SocketTypes' /\ CalculatorTypes' /\ StrategyTypes'
                  /\ WatchDogTypes' /\ ReplayerTypes'
BY DEF RTypeOK, PTypeOK, Counts, RingTypes, SocketTypes, CalculatorTypes, StrategyTypes,
       WatchDogTypes, ReplayerTypes

LEMMA Unchanged ==
  /\ UNCHANGED rings /\ RingTypes => RingTypes'
  /\ UNCHANGED <<socket, died>> /\ SocketTypes => SocketTypes'
  /\ UNCHANGED calculator /\ CalculatorTypes => CalculatorTypes'
  /\ UNCHANGED strategy /\ StrategyTypes => StrategyTypes'
  /\ UNCHANGED watchdog /\ WatchDogTypes => WatchDogTypes'
  /\ UNCHANGED <<BACK_TEST, replayer>> /\ ReplayerTypes => ReplayerTypes'
  /\ UNCHANGED <<rings, calculator>> /\ TurnInv => TurnInv'
  /\ UNCHANGED <<pushed, watchdog>> /\ ScanInv => ScanInv'
  /\ UNCHANGED <<pushed, died, BACK_TEST, replayer>> /\ RowInv => RowInv'
  /\ UNCHANGED <<pushed, died, BACK_TEST, replayer>> /\ SecondsTogether => SecondsTogether'
<1>1. UNCHANGED rings /\ RingTypes => RingTypes'
  BY DEF rings, RingTypes
<1>2. UNCHANGED <<socket, died>> /\ SocketTypes => SocketTypes'
  BY DEF socket, SocketTypes
<1>3. UNCHANGED calculator /\ CalculatorTypes => CalculatorTypes'
  BY DEF calculator, CalculatorTypes
<1>4. UNCHANGED strategy /\ StrategyTypes => StrategyTypes'
  BY DEF strategy, StrategyTypes
<1>5. UNCHANGED watchdog /\ WatchDogTypes => WatchDogTypes'
  BY DEF watchdog, WatchDogTypes
<1>6. UNCHANGED <<BACK_TEST, replayer>> /\ ReplayerTypes => ReplayerTypes'
  BY DEF replayer, ReplayerTypes
<1>7. UNCHANGED <<rings, calculator>> /\ TurnInv => TurnInv'
  BY DEF rings, calculator, TurnInv
<1>8. UNCHANGED <<pushed, watchdog>> /\ ScanInv => ScanInv'
  BY DEF watchdog, ScanInv, InRound
<1>9. UNCHANGED <<pushed, died, BACK_TEST, replayer>> /\ RowInv => RowInv'
  BY DEF replayer, RowInv, Rows
<1>10. UNCHANGED <<pushed, died, BACK_TEST, replayer>> /\ SecondsTogether => SecondsTogether'
  BY DEF replayer, SecondsTogether, Given
<1> QED BY <1>1, <1>2, <1>3, <1>4, <1>5, <1>6, <1>7, <1>8, <1>9, <1>10

LEMMA InitRInv == RInit => RInv
<1> SUFFICES ASSUME RInit PROVE RInv
  OBVIOUS
<1> USE Places DEF RInit, Init
<1>1a. RingTypes
  BY DEF Counts, RingTypes
<1>1b. SocketTypes
  <2>1. pcM = "connect" /\ drops = 0 /\ died = FALSE
    OBVIOUS
  <2>2. 0 \in 0 .. MaxDrops
    BY Numbers
  <2> QED BY <2>1, <2>2 DEF SocketTypes
<1>1d. CalculatorTypes
  BY DEF CalculatorTypes
<1>1c. StrategyTypes
  BY DEF Counts, StrategyTypes
<1>1. RingTypes /\ SocketTypes /\ CalculatorTypes /\ StrategyTypes
  BY <1>1a, <1>1b, <1>1c, <1>1d
<1>2. WatchDogTypes
  BY DEF WatchDogTypes, NoRounds, Counts
<1>3. ReplayerTypes
  BY DEF ReplayerTypes
<1>4. TurnInv
  BY DEF TurnInv
<1>5. RowInv
  BY DEF RowInv, Rows
<1>6. SecondsTogether
  BY DEF SecondsTogether, Given
<1>7. ScanInv
  BY DEF ScanInv
<1> HIDE DEF RInit, Init
<1> QED BY <1>1, <1>2, <1>3, <1>4, <1>5, <1>6, <1>7, TypesByThread DEF RInv

(* A tick is pushed to the ring of s.                                      *)
Pushes(s) ==
  /\ pushed' = [pushed EXCEPT ![s] = @ + 1] /\ pushed[s] < MaxTicks
  /\ UNCHANGED <<maCnt, adrCnt, socket, calculator, strategy, watchdog, died>>

LEMMA PushKeeps ==
  ASSUME RInv, NEW s \in Symbols, Pushes(s)
  PROVE  /\ RingTypes' /\ SocketTypes' /\ CalculatorTypes' /\ StrategyTypes' /\ WatchDogTypes'
         /\ TurnInv' /\ ScanInv'
<1>1. /\ RingTypes /\ SocketTypes /\ CalculatorTypes /\ StrategyTypes /\ WatchDogTypes
      /\ TurnInv /\ ScanInv
  BY TypesByThread DEF RInv
<1>2. SocketTypes' /\ CalculatorTypes' /\ StrategyTypes' /\ WatchDogTypes'
  BY <1>1, Unchanged DEF Pushes
<1>3. \A t \in Symbols : pushed[t] \in Nat /\ pushed'[t] \in Nat /\ pushed[t] <= pushed'[t]
  BY <1>1, Numbers DEF RingTypes, Counts, Pushes
<1>4. RingTypes'
  BY <1>1, Numbers DEF RingTypes, Counts, Pushes
<1>5. TurnInv'
  <2>1. UNCHANGED <<maCnt, adrCnt, cAt, pcC>>
    BY DEF Pushes, calculator
  <2>2. \A t \in Symbols : maCnt[t] \in Nat /\ adrCnt[t] \in Nat
    BY <1>1, Numbers DEF RingTypes, Counts
  <2> QED BY <1>1, <1>3, <2>1, <2>2 DEF TurnInv
<1>6. ScanInv'
  <2>1. UNCHANGED <<wAt, md_index, floor, rounds>>
        /\ md_index \in Int /\ floor \in Int /\ rounds \in [Symbols -> Int]
    BY <1>1, Numbers DEF Pushes, watchdog, WatchDogTypes, Counts
  <2>2. ASSUME NEW t \in Symbols, wAt > 0
        PROVE  /\ rounds[t] <= GetCycleCnt(pushed'[t])
               /\ InRound(t)' => InRound(t) /\ GetIndex(pushed[t]) <= GetIndex(pushed'[t])
    <3>1. rounds[t] <= GetCycleCnt(pushed[t]) /\ rounds[t] \in Int
      BY <1>1, <2>1, <2>2 DEF ScanInv
    <3>2. pushed'[t] = pushed[t] \/ pushed'[t] = pushed[t] + 1
      BY <1>1 DEF Pushes, RingTypes, Counts
    <3>3. /\ GetIndex(pushed[t]) \in Int /\ GetCycleCnt(pushed[t]) \in Int
          /\ \/ GetCycleCnt(pushed'[t]) = GetCycleCnt(pushed[t])
                /\ GetIndex(pushed[t]) <= GetIndex(pushed'[t])
             \/ GetCycleCnt(pushed'[t]) = GetCycleCnt(pushed[t]) + 1
      BY <1>3, <3>2, NextTick, Numbers
    <3> QED BY <3>1, <3>3, <2>1 DEF InRound
  <2>3. \A t \in Symbols : GetIndex(pushed[t]) \in Int /\ GetIndex(pushed'[t]) \in Int
    BY <1>3, NextTick, Numbers
  <2> QED BY <1>1, <2>1, <2>2, <2>3 DEF ScanInv
<1> QED BY <1>2, <1>4, <1>5, <1>6

(* What MDSocket does leaves the rings, the scan and MDReplayer alone, but  *)
(* for OnMessage and the end of the process.                               *)
LEMMA MDSocketRInv ==
  ASSUME RInv, MDSocketRun, UNCHANGED <<BACK_TEST, replayer>>, ~BACK_TEST
  PROVE  RInv'
<1>1. /\ RingTypes /\ SocketTypes /\ CalculatorTypes /\ StrategyTypes /\ WatchDogTypes
      /\ ReplayerTypes' /\ TurnInv /\ ScanInv
  BY TypesByThread, Unchanged DEF RInv
<1>2. RowInv' /\ SecondsTogether'
  BY DEF RInv, RowInv, SecondsTogether, replayer
<1>3. CASE \E s \in Symbols : OnMessage(s)
  <2>1. PICK s \in Symbols : OnMessage(s)
    BY <1>3
  <2>2. Pushes(s)
    BY <2>1 DEF OnMessage, Pushes
  <2> QED BY <2>2, <1>1, <1>2, PushKeeps, TypesByThread DEF RInv
<1>4. CASE Connect \/ OnOpen \/ Drop \/ ReInit \/ OnUnexpected
  <2>1. UNCHANGED <<rings, calculator, strategy, watchdog>>
    BY <1>4 DEF Connect, OnOpen, Drop, ReInit, OnUnexpected
  <2>2. SocketTypes'
    <3>1. CASE Drop
      BY <3>1, <1>1, Numbers DEF SocketTypes, Drop
    <3>2. CASE Connect \/ OnOpen \/ ReInit \/ OnUnexpected
      BY <3>2, <1>1 DEF SocketTypes, Connect, OnOpen, ReInit, OnUnexpected, socket
    <3> QED BY <3>1, <3>2, <1>4
  <2>3. UNCHANGED <<pushed, watchdog>>
    BY <2>1 DEF rings
  <2> QED BY <2>1, <2>2, <2>3, <1>1, <1>2, Unchanged, TypesByThread DEF RInv
<1> QED BY <1>3, <1>4 DEF MDSocketRun

(* WatchDog: the scan of a ring, and the report.                           *)
LEMMA ScanRInv ==
  ASSUME RInv, Scan, UNCHANGED <<BACK_TEST, replayer>>
  PROVE  RInv'
<1> DEFINE s == CHOOSE x \in Symbols : Index[x] = wAt
<1>1. /\ RingTypes /\ SocketTypes /\ CalculatorTypes /\ StrategyTypes /\ WatchDogTypes
      /\ ReplayerTypes /\ TurnInv /\ ScanInv
  BY TypesByThread DEF RInv
<1>2. UNCHANGED <<rings, socket, calculator, strategy, died>> /\ wAt \in 0 .. SymbolMaxIndex
  BY <1>1, Places DEF Scan, WatchDogTypes
<1>3. s \in Symbols /\ Index[s] = wAt
  BY <1>2, Places
<1>4. /\ md_index' = Min({md_index, GetIndex(pushed[s])})
      /\ floor' = (IF wAt = 0 THEN Smallest ELSE floor) /\ wAt' = wAt + 1
      /\ rounds' = (IF wAt = 0 THEN Rounds ELSE rounds)
  BY DEF Scan
<1> HIDE DEF s
<1>5. \A t \in Symbols :
        /\ GetIndex(pushed[t]) \in -1 .. RING_SIZE /\ GetIndex(pushed[t]) < RING_SIZE
        /\ GetCycleCnt(pushed[t]) \in 0 .. MaxTicks
  <2> SUFFICES ASSUME NEW t \in Symbols
               PROVE  /\ GetIndex(pushed[t]) \in -1 .. RING_SIZE /\ GetIndex(pushed[t]) < RING_SIZE
                      /\ GetCycleCnt(pushed[t]) \in 0 .. MaxTicks
    OBVIOUS
  <2>1. pushed[t] \in Nat /\ pushed[t] <= MaxTicks
    BY <1>1, Numbers DEF RingTypes, Counts
  <2>2. /\ GetIndex(pushed[t]) \in -1 .. RING_SIZE - 1
        /\ GetCycleCnt(pushed[t]) \in 0 .. pushed[t]
    BY <2>1, NextTick
  <2> QED BY <2>1, <2>2, Numbers
<1>6. md_index \in -1 .. RING_SIZE /\ GetIndex(pushed[s]) \in -1 .. RING_SIZE
  BY <1>1, <1>3, <1>5 DEF WatchDogTypes
<1>7. /\ md_index' \in -1 .. RING_SIZE /\ md_index' \in {md_index, GetIndex(pushed[s])}
      /\ md_index' <= md_index /\ md_index' <= GetIndex(pushed[s])
  <2>1. md_index \in Int /\ GetIndex(pushed[s]) \in Int
    BY <1>6, Numbers
  <2> QED BY <2>1, <1>4, <1>6, MinOfTwo
<1>8. (\A t \in Symbols : Smallest <= GetIndex(pushed[t])) /\ Smallest \in -1 .. RING_SIZE
  <2>1. pushed \in [Symbols -> Nat]
    BY <1>1, Places DEF RingTypes, Counts
  <2> QED BY <2>1, <1>5, SmallestIs
<1>9. WatchDogTypes'
  <2>1. Rounds \in Counts
    BY <1>5 DEF Rounds, Counts
  <2> QED BY <2>1, <1>1, <1>2, <1>4, <1>7, <1>8, Places DEF WatchDogTypes
<1>10. ScanInv'
  <2>1. wAt' > 0 /\ wAt' # 0 /\ UNCHANGED pushed
    BY <1>2, <1>4, Places DEF rings
  <2>2. CASE wAt = 0
    <3>1. \A t \in Symbols : rounds'[t] = GetCycleCnt(pushed[t])
      BY <2>2, <1>4 DEF Rounds
    <3>2. floor' = Smallest /\ md_index = RING_SIZE /\ floor' \in Int
      BY <2>2, <1>1, <1>4, <1>8 DEF ScanInv
    <3>3. md_index' = GetIndex(pushed[s])
      BY <3>2, <1>3, <1>5, <1>6, <1>7, Numbers
    <3>4. ASSUME NEW t \in Symbols, Index[t] < wAt' PROVE t = s
      BY <3>4, <2>2, <1>3, <1>4, Places
    <3>5. floor' <= md_index' /\ \A t \in Symbols : floor' <= GetIndex(pushed[t])
      BY <3>2, <3>3, <1>3, <1>8
    <3>6. /\ \A t \in Symbols : GetCycleCnt(pushed[t]) \in Int
          /\ GetIndex(pushed[s]) \in Int
      BY <1>3, <1>5, Numbers
    <3> QED BY <2>1, <3>1, <3>3, <3>4, <3>5, <3>6 DEF ScanInv, InRound
  <2>3. CASE wAt > 0
    <3>1. rounds' = rounds /\ floor' = floor
      BY <2>3, <1>2, <1>4, Places
    <3>2. \A t \in Symbols : InRound(t)' <=> InRound(t)
      BY <2>1, <3>1 DEF InRound
    <3>3. (\A t \in Symbols : InRound(t)) => floor <= md_index'
      BY <2>3, <1>1, <1>3, <1>7 DEF ScanInv
    <3>4. ASSUME NEW t \in Symbols, InRound(t), Index[t] < wAt'
          PROVE  md_index' <= GetIndex(pushed[t])
      <4>1. Index[t] \in Nat /\ GetIndex(pushed[t]) \in Int
        BY <1>5, Places
      <4>2. CASE Index[t] = wAt
        <5>1. t = s
          BY <4>2, <1>3, Places
        <5> QED BY <5>1, <1>7
      <4>3. CASE Index[t] < wAt
        <5>1. md_index <= GetIndex(pushed[t])
          BY <4>3, <3>4, <2>3, <1>1 DEF ScanInv
        <5> QED BY <5>1, <4>1, <1>6, <1>7, Numbers
      <4> QED BY <4>1, <4>2, <4>3, <3>4, <1>2, <1>4, Places
    <3>5. \A t \in Symbols : /\ rounds[t] <= GetCycleCnt(pushed[t])
                             /\ InRound(t) => floor <= GetIndex(pushed[t])
      BY <2>3, <1>1 DEF ScanInv
    <3> QED BY <2>1, <3>1, <3>2, <3>3, <3>4, <3>5 DEF ScanInv
  <2> QED BY <2>2, <2>3, <1>2, Places
<1>11. TurnInv' /\ RowInv' /\ SecondsTogether'
  <2>1. UNCHANGED <<pushed, died>>
    BY <1>2 DEF rings
  <2> QED BY <1>2, <2>1, Unchanged DEF RInv, rings, calculator
<1> QED BY <1>1, <1>2, <1>9, <1>10, <1>11, Unchanged, TypesByThread DEF RInv

LEMMA ReportRInv ==
  ASSUME RInv, Report, UNCHANGED <<BACK_TEST, replayer>>
  PROVE  RInv'
<1>1. /\ RingTypes /\ SocketTypes /\ CalculatorTypes /\ StrategyTypes
      /\ ReplayerTypes /\ TurnInv /\ RowInv /\ SecondsTogether
  BY TypesByThread DEF RInv
<1>2. UNCHANGED <<rings, socket, calculator, strategy, died>> /\ UNCHANGED pushed
  BY DEF Report, rings
<1>3. WatchDogTypes'
  BY Places DEF Report, WatchDogTypes, NoRounds, Counts
<1>4. ScanInv'
  BY DEF Report, ScanInv
<1> QED BY <1>1, <1>2, <1>3, <1>4, Unchanged, TypesByThread DEF RInv

-----------------------------------------------------------------------------
(* Calculator and StrategyBOX, in either build.                            *)

LEMMA AverageRInv ==
  ASSUME RInv, CalMovingAverage, UNCHANGED <<BACK_TEST, replayer>>
  PROVE  RInv'
<1> DEFINE s == Order[cAt]
<1>1. /\ RingTypes /\ SocketTypes /\ CalculatorTypes /\ StrategyTypes /\ WatchDogTypes
      /\ ReplayerTypes /\ TurnInv /\ ScanInv /\ RowInv /\ SecondsTogether
  BY TypesByThread DEF RInv
<1>2. /\ pcC = "ma" /\ pcC' = "adr" /\ cAt' = cAt
      /\ maCnt' = [maCnt EXCEPT ![s] = IF @ < pushed[s] THEN @ + 1 ELSE @]
      /\ UNCHANGED <<pushed, adrCnt, socket, strategy, watchdog, died>>
  BY DEF CalMovingAverage
<1>3. s \in Symbols
  BY <1>1, Places DEF CalculatorTypes
<1> HIDE DEF s
<1>4. \A t \in Symbols : pushed[t] \in 0 .. MaxTicks /\ maCnt[t] \in 0 .. MaxTicks
                         /\ adrCnt[t] \in 0 .. MaxTicks
  BY <1>1 DEF RingTypes, Counts
<1>5. /\ \A t \in Symbols \ {s} : maCnt'[t] = maCnt[t]
      /\ maCnt'[s] = IF maCnt[s] < pushed[s] THEN maCnt[s] + 1 ELSE maCnt[s]
      /\ maCnt' \in [Symbols -> Int]
  BY <1>1, <1>2, <1>3, <1>4, Numbers DEF RingTypes, Counts
<1>6. RingTypes'
  BY <1>1, <1>2, <1>3, <1>4, <1>5, Numbers DEF RingTypes, Counts
<1>7. CalculatorTypes'
  BY <1>1, <1>2 DEF CalculatorTypes
<1>8. TurnInv'
  <2>1. /\ maCnt[s] <= adrCnt[s] /\ adrCnt[s] <= maCnt[s] + 1
        /\ maCnt[s] <= pushed[s] /\ adrCnt[s] <= pushed[s]
    BY <1>1, <1>2, <1>3 DEF TurnInv
  <2>2. /\ adrCnt[s] <= maCnt'[s] /\ maCnt'[s] <= adrCnt[s] + 1 /\ maCnt'[s] <= pushed[s]
    BY <2>1, <1>3, <1>4, <1>5, Numbers
  <2>3. \A t \in Symbols \ {s} : /\ maCnt[t] <= adrCnt[t] /\ adrCnt[t] <= maCnt[t] + 1
                                 /\ maCnt[t] <= pushed[t] /\ adrCnt[t] <= pushed[t]
    BY <1>1, <1>2 DEF TurnInv
  <2> QED BY <2>1, <2>2, <2>3, <1>2, <1>5 DEF TurnInv, s
<1>9. ScanInv' /\ RowInv' /\ SecondsTogether'
  BY <1>1, <1>2, Unchanged
<1> QED BY <1>1, <1>2, <1>6, <1>7, <1>8, <1>9, Unchanged, TypesByThread DEF RInv

LEMMA RatioRInv ==
  ASSUME RInv, CalADRatio, UNCHANGED <<BACK_TEST, replayer>>
  PROVE  RInv'
<1> DEFINE s == Order[cAt]
<1>1. /\ RingTypes /\ SocketTypes /\ CalculatorTypes /\ StrategyTypes /\ WatchDogTypes
      /\ ReplayerTypes /\ TurnInv /\ ScanInv /\ RowInv /\ SecondsTogether
  BY TypesByThread DEF RInv
<1>2. /\ pcC = "adr" /\ pcC' = "ma" /\ cAt' = After(cAt)
      /\ adrCnt' = [adrCnt EXCEPT ![s] = IF @ < pushed[s] THEN @ + 1 ELSE @]
      /\ UNCHANGED <<pushed, maCnt, socket, strategy, watchdog, died>>
  BY DEF CalADRatio
<1>3. s \in Symbols
  BY <1>1, Places DEF CalculatorTypes
<1> HIDE DEF s
<1>4. \A t \in Symbols : pushed[t] \in 0 .. MaxTicks /\ maCnt[t] \in 0 .. MaxTicks
                         /\ adrCnt[t] \in 0 .. MaxTicks
  BY <1>1 DEF RingTypes, Counts
<1>5. /\ \A t \in Symbols \ {s} : adrCnt'[t] = adrCnt[t]
      /\ adrCnt'[s] = IF adrCnt[s] < pushed[s] THEN adrCnt[s] + 1 ELSE adrCnt[s]
      /\ adrCnt' \in [Symbols -> Int]
  BY <1>1, <1>2, <1>3, <1>4, Numbers DEF RingTypes, Counts
<1>6. RingTypes'
  BY <1>1, <1>2, <1>3, <1>4, <1>5, Numbers DEF RingTypes, Counts
<1>7. CalculatorTypes'
  BY <1>1, <1>2, AfterPlace DEF CalculatorTypes
<1>8. TurnInv'
  <2>1. /\ adrCnt[s] <= maCnt[s] /\ maCnt[s] <= adrCnt[s] + 1
        /\ maCnt[s] <= pushed[s] /\ adrCnt[s] <= pushed[s]
    BY <1>1, <1>2, <1>3 DEF TurnInv, s
  <2>2. /\ maCnt[s] <= adrCnt'[s] /\ adrCnt'[s] <= maCnt[s] + 1 /\ adrCnt'[s] <= pushed[s]
    BY <2>1, <1>3, <1>4, <1>5, Numbers
  <2>3. \A t \in Symbols \ {s} : /\ maCnt[t] <= adrCnt[t] /\ adrCnt[t] <= maCnt[t] + 1
                                 /\ maCnt[t] <= pushed[t] /\ adrCnt[t] <= pushed[t]
    BY <1>1, <1>2 DEF TurnInv, s
  <2> QED BY <2>1, <2>2, <2>3, <1>2, <1>5 DEF TurnInv
<1>9. ScanInv' /\ RowInv' /\ SecondsTogether'
  BY <1>1, <1>2, Unchanged
<1> QED BY <1>1, <1>2, <1>6, <1>7, <1>8, <1>9, Unchanged, TypesByThread DEF RInv

LEMMA JudgeRInv ==
  ASSUME RInv, Judge, UNCHANGED <<BACK_TEST, replayer>>
  PROVE  RInv'
<1>1. /\ RingTypes /\ SocketTypes /\ CalculatorTypes /\ StrategyTypes /\ WatchDogTypes
      /\ ReplayerTypes /\ TurnInv /\ ScanInv /\ RowInv /\ SecondsTogether
  BY TypesByThread DEF RInv
<1>2. UNCHANGED <<rings, socket, calculator, watchdog, died>> /\ UNCHANGED pushed
  BY DEF Judge, rings
<1>3. StrategyTypes'
  <2> DEFINE s == Order[sAt]
  <2>1. s \in Symbols /\ adrCnt[s] \in 0 .. MaxTicks /\ basis[s] \in 0 .. MaxTicks
    BY <1>1, Places DEF StrategyTypes, RingTypes, Counts
  <2>2. /\ basis' = [basis EXCEPT ![s] = IF Warm(s) THEN adrCnt[s] ELSE @]
        /\ sAt' = IF Warm(s) THEN After(sAt) ELSE 1
    BY DEF Judge
  <2>3. sAt' \in DOMAIN Order
    BY <1>1, <2>2, AfterPlace, Places DEF StrategyTypes
  <2> HIDE DEF s
  <2>4. basis' \in Counts
    BY <1>1, <2>1, <2>2 DEF StrategyTypes, Counts
  <2> QED BY <2>3, <2>4 DEF StrategyTypes
<1> QED BY <1>1, <1>2, <1>3, Unchanged, TypesByThread DEF RInv

-----------------------------------------------------------------------------
(* MDReplayer.                                                             *)

LEMMA LoadRInv ==
  ASSUME RInv, LoadHistoryMD, UNCHANGED BACK_TEST, ~died
  PROVE  RInv'
<1>1. /\ RingTypes /\ SocketTypes /\ CalculatorTypes /\ StrategyTypes /\ WatchDogTypes
      /\ ReplayerTypes /\ TurnInv /\ ScanInv /\ RowInv /\ SecondsTogether
  BY TypesByThread DEF RInv
<1>2. /\ UNCHANGED <<rings, socket, calculator, strategy, watchdog, died, i>>
      /\ UNCHANGED pushed /\ pcR = "load" /\ rAt \in DOMAIN Order
      /\ rAt' = After(rAt) /\ pcR' = IF rAt = Len(Order) THEN "run" ELSE "load"
  BY <1>1 DEF LoadHistoryMD, vars, rings, NextSymbol, ReplayerTypes
<1>3. PICK lines \in 0 .. RING_SIZE \union {Missing} :
        fields' = [fields EXCEPT ![Order[rAt]] = lines]
  BY DEF LoadHistoryMD
<1>4. Order[rAt] \in Symbols /\ After(rAt) \in DOMAIN Order
      /\ (rAt = Len(Order) => After(rAt) = 1)
  BY <1>2, Places, AfterPlace
<1>5. ReplayerTypes'
  BY <1>1, <1>2, <1>3, <1>4 DEF ReplayerTypes
<1>6. BACK_TEST /\ i = 0 /\ \A s \in Symbols : pushed[s] = 0
  <2>1. BACK_TEST /\ i = 0
    BY <1>1, <1>2 DEF RowInv
  <2>2. \A at \in DOMAIN Order : pushed[Order[at]] = 0
    BY <2>1, <1>1, <1>2 DEF RowInv, Rows
  <2> QED BY <2>1, <2>2, Places
<1>7. RowInv'
  <2>1. \A at \in DOMAIN Order : Rows(at)' = 0
    <3>1. i' = 0 /\ (pcR' = "run" => rAt' = 1)
      BY <1>2, <1>4, <1>6
    <3>2. \A at \in DOMAIN Order : ~(at < 1)
      BY Places
    <3> QED BY <3>1, <3>2 DEF Rows
  <2>2. \A at \in DOMAIN Order : pushed'[Order[at]] = 0
    BY <1>2, <1>6, Places
  <2>3. pcR' # "none" /\ BACK_TEST' /\ i' = 0 /\ i' < RING_SIZE
    BY <1>2, <1>6, Numbers
  <2> QED BY <2>1, <2>2, <2>3 DEF RowInv
<1>8. SecondsTogether'
  <2>1. \A s \in Symbols : pushed'[s] = 0
    BY <1>2, <1>6
  <2> QED BY <2>1, <1>2 DEF SecondsTogether, Given
<1> QED BY <1>1, <1>2, <1>5, <1>7, <1>8, Unchanged, TypesByThread DEF RInv

(* The place Run is at has one row fewer than the places before it, and     *)
(* gets its own.                                                           *)
LEMMA RowsOfStep ==
  ASSUME RInv, ReplayRow
  PROVE  /\ pcR' \in {"run", "over"} /\ (pcR' = "run" => i' < RING_SIZE) /\ i' \in 0 .. RING_SIZE
         /\ rAt \in DOMAIN Order /\ rAt' \in DOMAIN Order /\ UNCHANGED fields
         /\ \A at \in DOMAIN Order :
              /\ Rows(at)' \in {i', i' + 1}
              /\ IF at = rAt THEN Rows(at) = i /\ Rows(at)' = i + 1
                             ELSE Rows(at)' = Rows(at)
<1>1. /\ pcR = "run" /\ i \in 0 .. RING_SIZE /\ i < RING_SIZE /\ rAt \in DOMAIN Order
  BY TypesByThread DEF RInv, RowInv, ReplayRow, ReplayerTypes
<1>2. /\ i' = IF rAt = Len(Order) THEN i + 1 ELSE i
      /\ rAt' = After(rAt) /\ UNCHANGED fields
      /\ pcR' = IF rAt = Len(Order) THEN (IF i = RING_SIZE - 1 THEN "over" ELSE "run") ELSE "run"
  BY <1>1 DEF ReplayRow, NextSymbol, LastRow
<1>3. /\ rAt' \in DOMAIN Order /\ rAt \in 1 .. Len(Order)
      /\ rAt # Len(Order) => rAt' = rAt + 1
      /\ rAt = Len(Order) => rAt' = 1
  BY <1>1, <1>2, AfterPlace, Places
<1>4. Len(Order) \in Nat \ {0} /\ DOMAIN Order = 1 .. Len(Order)
  BY Places
<1>5. CASE rAt # Len(Order)
  <2>1. i' = i /\ rAt' = rAt + 1 /\ pcR' = "run"
    BY <1>2, <1>3, <1>5
  <2>2. \A at \in DOMAIN Order : at < rAt' <=> at < rAt \/ at = rAt
    <3>1. rAt \in Int /\ \A at \in DOMAIN Order : at \in Int
      BY <1>1, Places, Zenon
    <3>2. \A n, r \in Int : n < r + 1 <=> n < r \/ n = r
      OBVIOUS
    <3> QED BY <3>1, <3>2, <2>1
  <2>3. \A at \in DOMAIN Order : Rows(at)' = IF at < rAt \/ at = rAt THEN i + 1 ELSE i
    BY <2>1, <2>2, <1>1, Numbers DEF Rows
  <2>4. \A at \in DOMAIN Order : Rows(at) = IF at < rAt THEN i + 1 ELSE i
    BY <1>1, Numbers DEF Rows
  <2> QED BY <2>1, <2>3, <2>4, <1>1, <1>2, <1>3, <1>4
<1>6. CASE rAt = Len(Order)
  <2>1. i' = i + 1 /\ rAt' = 1
    BY <1>2, <1>3, <1>6
  <2>2. \A at \in DOMAIN Order : ~(at < 1)
    BY <1>4
  <2>3. \A at \in DOMAIN Order : Rows(at)' = i + 1
    BY <2>1, <2>2, <1>1, Numbers DEF Rows
  <2>4. \A at \in DOMAIN Order \ {rAt} : at < rAt
    BY <1>4, <1>6
  <2>5. \A at \in DOMAIN Order : Rows(at) = IF at = rAt THEN i ELSE i + 1
    BY <2>4, <1>1, <1>3, <1>4, Numbers DEF Rows
  <2>6. pcR' \in {"run", "over"} /\ (pcR' = "run" => i' < RING_SIZE) /\ i' \in 0 .. RING_SIZE
    BY <2>1, <1>1, <1>2, Numbers
  <2> QED BY <2>1, <2>3, <2>5, <2>6, <1>1, <1>2, <1>3
<1> QED BY <1>5, <1>6

(* If the process lives on, RowInv says what SecondsTogether does.         *)
LEMMA RowsTogether ==
  ASSUME RowInv', ~died', BACK_TEST', i' \in Nat,
         \A at \in DOMAIN Order : Rows(at)' \in {i', i' + 1}
  PROVE  SecondsTogether'
<1>1. \A s \in Symbols : fields'[s] = Missing => pushed'[s] = 0
  BY Places DEF RowInv
<1>2. \A s \in Symbols : fields'[s] # Missing => pushed'[s] \in {i', i' + 1}
  BY Places DEF RowInv
<1>3. \A s, t \in Symbols :
        fields'[s] # Missing /\ fields'[t] # Missing => pushed'[s] - pushed'[t] \in -1 .. 1
  BY <1>2
<1> QED BY <1>1, <1>3 DEF SecondsTogether, Given

LEMMA RowPushes ==
  ASSUME RInv, ReplayRow, ~died, fields[Order[rAt]] # Missing, Push(Order[rAt])
  PROVE  pushed[Order[rAt]] = i /\ i \in Nat /\ i < RING_SIZE /\ Pushes(Order[rAt])
<1>1. i \in 0 .. RING_SIZE /\ i < RING_SIZE /\ rAt \in DOMAIN Order
  BY TypesByThread DEF RInv, RowInv, ReplayRow, ReplayerTypes
<1>2. pushed[Order[rAt]] = i
  <2>1. \A at \in DOMAIN Order : at = rAt => Rows(at) = i
    BY RowsOfStep
  <2> QED BY <2>1, <1>1 DEF RInv, RowInv, ReplayRow
<1> QED BY <1>1, <1>2, Numbers DEF Push, Pushes

LEMMA RowRInv ==
  ASSUME RInv, ReplayRow, UNCHANGED BACK_TEST, ~died
  PROVE  RInv'
<1> DEFINE s == Order[rAt]
<1>1. /\ RingTypes /\ SocketTypes /\ CalculatorTypes /\ StrategyTypes /\ WatchDogTypes
      /\ ReplayerTypes /\ TurnInv /\ ScanInv /\ RowInv /\ SecondsTogether
  BY TypesByThread DEF RInv
<1>2. /\ pcR' \in {"run", "over"} /\ (pcR' = "run" => i' < RING_SIZE) /\ i' \in 0 .. RING_SIZE
      /\ rAt \in DOMAIN Order /\ rAt' \in DOMAIN Order /\ UNCHANGED fields
      /\ \A at \in DOMAIN Order :
           /\ Rows(at)' \in {i', i' + 1}
           /\ IF at = rAt THEN Rows(at) = i /\ Rows(at)' = i + 1
                          ELSE Rows(at)' = Rows(at)
  BY RowsOfStep
<1>3. /\ BACK_TEST /\ BACK_TEST' /\ pcR = "run" /\ i < RING_SIZE /\ i \in 0 .. RING_SIZE
      /\ \A at \in DOMAIN Order :
           pushed[Order[at]] = IF fields[Order[at]] = Missing THEN 0 ELSE Rows(at)
  BY <1>1 DEF ReplayRow, RowInv, ReplayerTypes
<1>4. s \in Symbols
  BY <1>2, Places
<1>5. ReplayerTypes'
  BY <1>1, <1>2 DEF ReplayerTypes
<1>6. CASE fields[s] = Missing /\ UNCHANGED vars
  <2>1. UNCHANGED <<rings, socket, calculator, strategy, watchdog, died>> /\ UNCHANGED pushed
    BY <1>6 DEF vars, rings
  <2>2. RowInv'
    BY <1>2, <1>3, <1>6, <2>1, Zenon DEF RowInv
  <2>3. SecondsTogether'
    BY <2>1, <2>2, <1>2, <1>3, RowsTogether, Numbers
  <2> QED BY <2>1, <2>2, <2>3, <1>1, <1>5, Unchanged, TypesByThread DEF RInv
<1>7. CASE fields[s] # Missing /\ Push(s)
  <2>1. pushed[s] = i /\ Pushes(s)
    BY <1>7, RowPushes
  <2>2. Pushes(s) /\ ~died'
    BY <2>1 DEF Pushes
  <2>3. pushed'[s] = i + 1 /\ \A t \in Symbols \ {s} : pushed'[t] = pushed[t]
    BY <2>1, <2>2, <1>1, <1>4 DEF Pushes, RingTypes, Counts
  <2>4. ASSUME NEW at \in DOMAIN Order
        PROVE  pushed'[Order[at]] = IF fields'[Order[at]] = Missing THEN 0 ELSE Rows(at)'
    <3>1. CASE at = rAt
      BY <3>1, <2>3, <1>2, <1>7
    <3>2. CASE at # rAt
      <4>1. Order[at] \in Symbols \ {s}
        BY <3>2, <1>2, Places
      <4> QED BY <4>1, <3>2, <2>3, <1>2, <1>3
    <3> QED BY <3>1, <3>2
  <2>5. RowInv'
    BY <2>4, <1>2, <1>3 DEF RowInv
  <2>6. SecondsTogether'
    BY <2>2, <2>5, <1>2, <1>3, RowsTogether, Numbers
  <2>7. /\ RingTypes' /\ SocketTypes' /\ CalculatorTypes' /\ StrategyTypes' /\ WatchDogTypes'
        /\ TurnInv' /\ ScanInv'
    BY <2>2, <1>4, PushKeeps
  <2> QED BY <2>5, <2>6, <2>7, <1>5, TypesByThread DEF RInv
<1>8. CASE /\ fields[s] # Missing /\ ~(i < fields[s])
           /\ died' = TRUE /\ UNCHANGED <<rings, socket, calculator, strategy, watchdog>>
  <2>1. UNCHANGED pushed /\ fields[s] <= pushed[s]
    <3>1. fields[s] \in 0 .. RING_SIZE
      BY <1>1, <1>4, <1>8 DEF ReplayerTypes
    <3> QED BY <3>1, <1>2, <1>3, <1>8 DEF rings
  <2>2. SocketTypes'
    BY <1>1, <1>8 DEF SocketTypes, socket
  <2>3. RowInv'
    BY <1>2, <1>3, <1>8 DEF RowInv
  <2>4. SecondsTogether'
    BY <2>1, <1>1, <1>2, <1>3, <1>4, <1>8 DEF SecondsTogether, Given
  <2> QED BY <2>1, <2>2, <2>3, <2>4, <1>1, <1>5, <1>8, Unchanged, TypesByThread DEF RInv
<1> QED BY <1>6, <1>7, <1>8 DEF ReplayRow, PushStray

-----------------------------------------------------------------------------
LEMMA StepRInv == RInv /\ [RNext]_rVars => RInv'
<1> SUFFICES ASSUME RInv, [RNext]_rVars PROVE RInv'
  OBVIOUS
<1>1. CASE UNCHANGED rVars
  BY <1>1, Unchanged, TypesByThread DEF rVars, vars, RInv, rings
<1>2. CASE UNCHANGED BACK_TEST /\ BACK_TEST /\ MDReplayerRun
  BY <1>2, LoadRInv, RowRInv DEF MDReplayerRun
<1>3. CASE /\ UNCHANGED <<BACK_TEST, replayer>> /\ ~BACK_TEST
           /\ MDSocketRun \/ WatchDogRun
  BY <1>3, MDSocketRInv, ScanRInv, ReportRInv DEF WatchDogRun
<1>4. CASE UNCHANGED <<BACK_TEST, replayer>> /\ (CalculatorRun \/ StrategyRun)
  BY <1>4, AverageRInv, RatioRInv, JudgeRInv DEF CalculatorRun, StrategyRun
<1> QED BY <1>1, <1>2, <1>3, <1>4 DEF RNext, Feed, Running

LEMMA Invariant == RSpec => []RInv
<1> QED BY InitRInv, StepRInv, PTL DEF RSpec

(* Types, of both builds: no thread leaves the list of symbols in its loop, *)
(* none counts beyond the ticks there are, no row beyond the day is pushed. *)
THEOREM TypeCorrect == RSpec => []RTypeOK
<1>1. RInv => RTypeOK
  BY DEF RInv
<1> QED BY <1>1, Invariant, PTL

(* Of the rings that have not come round while they were scanned, none is   *)
(* behind what WatchDog reports as the smallest MDIndex; and that is not    *)
(* behind where the last ring was when the scan began, unless a ring has    *)
(* come round (WatchDog.cpp:78-88), for any number of symbols and rounds.   *)
THEOREM ReportIsOfScan == RSpec => []ReportOfScan
<1>1. RInv => ReportOfScan
  <2> SUFFICES ASSUME RInv, wAt > SymbolMaxIndex
               PROVE  /\ \A s \in SameRound : md_index <= GetIndex(pushed[s])
                      /\ SameRound = Symbols => floor <= md_index
    BY DEF ReportOfScan
  <2>1. WatchDogTypes /\ ScanInv
    BY TypesByThread DEF RInv
  <2>2. wAt \in Nat /\ wAt > 0 /\ \A s \in Symbols : Index[s] < wAt
    BY <2>1, Places DEF WatchDogTypes
  <2>3. SameRound = {s \in Symbols : InRound(s)}
    BY DEF SameRound, InRound
  <2> QED BY <2>1, <2>2, <2>3 DEF ScanInv
<1> QED BY <1>1, Invariant, PTL

(* The back test brings the symbols' prices of one second together, leaves  *)
(* out no other symbol than those without a file, and dies of none but a   *)
(* short or bad file (MDReplayer.cpp:54-82, 97-103), for any number of      *)
(* symbols and any length of the day.                                      *)
THEOREM ReplayTogether == RSpec => []SecondsTogether
<1>1. RInv => SecondsTogether
  BY DEF RInv
<1> QED BY <1>1, Invariant, PTL

(* Each call of another thread's symbol leaves the ring alone, and its own  *)
(* is a step of the ring (Calculator.cpp:87-94, MDSocket.cpp:233,           *)
(* MDReplayer.cpp:71), for any number of symbols in any order.              *)
RingStep ==
  \A s \in Symbols :
    IF BACK_TEST
    THEN [Progress(s, RING_SIZE + 1)!Next]_(Progress(s, MaxLag)!counters)
    ELSE [Progress(s, MaxLag)!Next]_(Progress(s, MaxLag)!counters)


LEMMA AverageRing ==
  ASSUME RInv, CalMovingAverage, NEW t \in Symbols, NEW lag
  PROVE  [Progress(t, lag)!Average]_(Progress(t, lag)!counters)
<1> DEFINE s == Order[cAt]
<1>1. /\ maCnt \in Counts /\ s \in Symbols /\ UNCHANGED <<pushed, adrCnt>>
      /\ maCnt' = [maCnt EXCEPT ![s] = IF @ < pushed[s] THEN @ + 1 ELSE @]
      /\ maCnt[s] <= adrCnt[s]
  BY TypesByThread, Places
     DEF RInv, RingTypes, CalculatorTypes, TurnInv, CalMovingAverage
<1> HIDE DEF s
<1> QED BY <1>1 DEF Progress!Average, Progress!counters, Counts

LEMMA RatioRing ==
  ASSUME RInv, CalADRatio, NEW t \in Symbols, NEW lag
  PROVE  [Progress(t, lag)!Compare]_(Progress(t, lag)!counters)
<1> DEFINE s == Order[cAt]
<1>1. /\ adrCnt \in Counts /\ s \in Symbols /\ UNCHANGED <<pushed, maCnt>>
      /\ adrCnt' = [adrCnt EXCEPT ![s] = IF @ < pushed[s] THEN @ + 1 ELSE @]
      /\ adrCnt[s] <= maCnt[s]
  BY TypesByThread, Places
     DEF RInv, RingTypes, CalculatorTypes, TurnInv, CalADRatio
<1> HIDE DEF s
<1> QED BY <1>1 DEF Progress!Compare, Progress!counters, Counts

LEMMA PushRing ==
  ASSUME RInv, NEW s \in Symbols, Pushes(s), NEW t \in Symbols, NEW lag \in Nat,
         pushed[s] < maCnt[s] + lag, pushed[s] < adrCnt[s] + lag
  PROVE  [Progress(t, lag)!Push]_(Progress(t, lag)!counters)
<1>1. pushed \in Counts
  BY TypesByThread DEF RInv, RingTypes
<1> QED BY <1>1 DEF Pushes, Progress!Push, Progress!counters, Counts

LEMMA StepRings == RInv /\ RNext => RingStep
<1> SUFFICES ASSUME RInv, RNext, NEW t \in Symbols
             PROVE  IF BACK_TEST
                    THEN [Progress(t, RING_SIZE + 1)!Next]_(Progress(t, MaxLag)!counters)
                    ELSE [Progress(t, MaxLag)!Next]_(Progress(t, MaxLag)!counters)
  BY DEF RingStep
<1> USE DEF Progress!Next, Progress!counters
<1>1. CASE CalculatorRun
  BY <1>1, AverageRing, RatioRing DEF CalculatorRun
<1>2. CASE UNCHANGED rings
  BY <1>2 DEF rings
<1>3. RingTypes
  BY TypesByThread DEF RInv
<1>4. ASSUME NEW s \in Symbols, OnMessage(s), ~BACK_TEST
      PROVE  [Progress(t, MaxLag)!Next]_(Progress(t, MaxLag)!counters)
  <2>1. pushed[s] \in Int /\ maCnt[s] \in Int /\ adrCnt[s] \in Int
    BY <1>3, Numbers DEF RingTypes, Counts
  <2>2. pushed[s] < maCnt[s] + MaxLag /\ pushed[s] < adrCnt[s] + MaxLag
    BY <2>1, <1>4, Numbers DEF OnMessage
  <2>3. Pushes(s)
    BY <1>4 DEF OnMessage, Pushes
  <2> QED BY <2>2, <2>3, PushRing, Numbers
<1>5. ASSUME NEW s \in Symbols, Pushes(s), BACK_TEST, pushed[s] < RING_SIZE
      PROVE  [Progress(t, RING_SIZE + 1)!Next]_(Progress(t, MaxLag)!counters)
  <2>1. pushed[s] \in Nat /\ maCnt[s] \in Nat /\ adrCnt[s] \in Nat
    BY <1>3, Numbers DEF RingTypes, Counts
  <2>2. /\ RING_SIZE + 1 \in Nat
        /\ pushed[s] < maCnt[s] + (RING_SIZE + 1) /\ pushed[s] < adrCnt[s] + (RING_SIZE + 1)
    BY <2>1, <1>5, Numbers
  <2> QED BY <2>2, <1>5, PushRing
<1>6. CASE ~BACK_TEST /\ (MDSocketRun \/ WatchDogRun)
  <2>1. CASE \E s \in Symbols : OnMessage(s)
    BY <2>1, <1>4, <1>6
  <2>2. CASE Connect \/ OnOpen \/ Drop \/ ReInit \/ OnUnexpected \/ Scan \/ Report
    <3>1. UNCHANGED rings
      BY <2>2 DEF Connect, OnOpen, Drop, ReInit, OnUnexpected, Scan, Report
    <3> QED BY <3>1, <1>2
  <2> QED BY <2>1, <2>2, <1>6 DEF MDSocketRun, WatchDogRun
<1>7. CASE BACK_TEST /\ MDReplayerRun
  <2>1. CASE LoadHistoryMD \/ (\E s \in Symbols : died' = TRUE /\ UNCHANGED rings)
             \/ UNCHANGED vars
    <3>1. UNCHANGED rings
      BY <2>1 DEF LoadHistoryMD, vars
    <3> QED BY <3>1, <1>2
  <2>2. CASE ReplayRow /\ Push(Order[rAt]) /\ fields[Order[rAt]] # Missing
    <3>1. Pushes(Order[rAt]) /\ pushed[Order[rAt]] < RING_SIZE
      BY <2>2, <1>7, RowPushes DEF MDReplayerRun
    <3>2. Order[rAt] \in Symbols
      BY Places, TypesByThread DEF RInv, ReplayerTypes
    <3> QED BY <3>1, <3>2, <1>5, <1>7
  <2> QED BY <2>1, <2>2, <1>7 DEF MDReplayerRun, ReplayRow, PushStray
<1>8. CASE StrategyRun
  BY <1>8, <1>2 DEF StrategyRun, Judge
<1> QED BY <1>1, <1>6, <1>7, <1>8 DEF RNext, Feed, Running

(* A ring goes through what MDRing allows it, in both builds.              *)
THEOREM RingsGoOn == RSpec => RingsProgress
<1>1. RInit => \A s \in Symbols : Progress(s, MaxLag)!Init
  BY DEF RInit, Init, Progress!Init
<1>2. RInv /\ [RNext]_rVars => [RingStep]_rings
  BY StepRings DEF rVars, vars
<1>3. RingStep <=>
        \A s \in Symbols :
           IF BACK_TEST
           THEN [Progress(s, RING_SIZE + 1)!Next]_(Progress(s, MaxLag)!counters)
           ELSE [Progress(s, MaxLag)!Next]_(Progress(s, MaxLag)!counters)
  BY DEF RingStep
<1>4. RSpec => [][RingStep]_rings
  BY <1>2, Invariant, PTL DEF RSpec
<1> QED BY <1>1, <1>3, <1>4, PTL DEF RSpec, RingsProgress
=============================================================================
