------------------------- MODULE OrderManagerProofs -------------------------
(***************************************************************************)
(* Proofs about the order manager, for any strategies, symbols, prices and  *)
(* filters, and whatever the exchange answers.                             *)
(***************************************************************************)
EXTENDS OrderManager, WellFoundedInduction, TLAPS

(* While a signal is served it is at the head of the queue, and the queue   *)
(* holds no more than has been decided.                                    *)
ServeInv ==
  /\ pcO \in {"serve", "buy", "sell", "pop"} => signalQueue # <<>>
  /\ pcO = "buy" => sig_block.side = BUY
  /\ pcO = "sell" => sig_block.side = SELL
  /\ Len(signalQueue) + (IF pcP = "push" THEN 1 ELSE 0) <= signals
  /\ \A st \in Strategies : \A n \in DOMAIN strategyOrders[st] :
       strategyOrders[st][n].commissionQty <= strategyOrders[st][n].totalQty

TInv == TypeOK /\ ServeInv

(* What an order may result in.                                            *)
Answer == [ret : BOOLEAN, exe : Nat, comm : Nat, moved : Int,
           fault : {"none", "failed", "rejected", "partial", "lost"}]

LEMMA OrderQtyInt == \A amount \in Nat : OrderQty(amount) \in Int
BY TraderAssumption DEF OrderQty, TraderAssumption

LEMMA FillTypes ==
  ASSUME NEW amount \in Nat, NEW r
  PROVE  /\ r \in Buys(amount) => /\ r \in Answer /\ r.comm <= r.exe /\ r.moved >= 0
                               /\ r.ret = TRUE
         /\ r \in Sells(amount) => /\ r \in Answer /\ r.comm = 0 /\ r.moved <= 0
                                /\ r.moved >= -OrderQty(amount) /\ r.ret = TRUE
<1>1. \A n \in Executions(amount) : n \in Nat \ {0} /\ n <= OrderQty(amount)
  BY OrderQtyInt DEF Executions
<1>2. \A n : Part(n, amount) \in {"none", "partial"}
  BY DEF Part
<1>3. ASSUME r \in Buys(amount)
      PROVE  r \in Answer /\ r.comm <= r.exe /\ r.moved >= 0 /\ r.ret = TRUE
  <2>1. PICK n \in Executions(amount), comm \in {0, 1} :
          r = [ret |-> TRUE, exe |-> n, comm |-> comm, moved |-> n - comm,
               fault |-> Part(n, amount)]
    BY <1>3 DEF Buys, Result
  <2>2. n \in Nat \ {0} /\ Part(n, amount) \in {"none", "partial"}
    BY <1>1, <1>2
  <2> QED BY <2>1, <2>2 DEF Answer
<1>4. ASSUME r \in Sells(amount)
      PROVE  /\ r \in Answer /\ r.comm = 0 /\ r.moved <= 0
             /\ r.moved >= -OrderQty(amount) /\ r.ret = TRUE
  <2>1. PICK n \in Executions(amount) : r = Result(TRUE, n, 0, -n, Part(n, amount))
    BY <1>4 DEF Sells
  <2>2. n \in Nat \ {0} /\ n <= OrderQty(amount) /\ Part(n, amount) \in {"none", "partial"}
    BY <1>1, <1>2
  <2> QED BY <2>1, <2>2, OrderQtyInt DEF Result, Answer
<1> QED BY <1>3, <1>4

(* A lost answer reports nothing, and may be called a success or not.       *)
LEMMA LostAnswer ==
  ASSUME NEW fills, NEW r \in Lost(fills)
  PROVE  \E ret \in BOOLEAN, f \in fills : r = Result(ret, 0, 0, f.moved, "lost")
BY DEF Lost

LEMMA AnswerTypes ==
  ASSUME NEW side \in {BUY, SELL}, NEW price \in Nat, NEW amount \in Nat, NEW held \in Nat,
         NEW r \in InsertOrder(side, price, amount, held)
  PROVE  /\ r \in Answer /\ r.comm <= r.exe /\ held + r.moved \in Nat
         /\ side = SELL => r.moved <= 0 /\ (r.exe # 0 => r.ret)
<1> USE DEF BUY, SELL
<1>1. CASE r \in {NotSent, Refused, Failed, Rejected}
  <2>1. r \in Answer
    <3>1. NotSent \in Answer /\ Failed \in Answer
      BY DEF NotSent, Failed, Result, Answer
    <3>2. Refused \in Answer /\ Rejected \in Answer
      BY DEF Refused, Rejected, Result, Answer
    <3> QED BY <1>1, <3>1, <3>2
  <2>2. r.exe = 0 /\ r.comm = 0 /\ r.moved = 0
    BY <1>1 DEF NotSent, Refused, Failed, Rejected, Result
  <2> QED BY <2>1, <2>2
<1>2. ASSUME Covered(side, amount, held),
             NEW f \in (IF side = 1 THEN Buys(amount) ELSE Sells(amount))
      PROVE  /\ f \in Answer /\ f.ret = TRUE /\ f.comm <= f.exe
             /\ held + f.moved \in Nat /\ (side = SELL => f.moved <= 0)
  <2>1. CASE side = 1
    <3>1. f \in Answer /\ f.comm <= f.exe /\ f.moved >= 0 /\ f.ret = TRUE
      BY <1>2, <2>1, FillTypes
    <3>2. f.moved \in Int
      BY <3>1 DEF Answer
    <3> QED BY <2>1, <3>1, <3>2
  <2>2. CASE side = 2
    <3>1. /\ f \in Answer /\ f.comm = 0 /\ f.moved <= 0 /\ f.moved >= -OrderQty(amount)
          /\ f.ret = TRUE
      <4>1. f \in Sells(amount)
        BY <1>2, <2>2
      <4> QED BY <4>1, FillTypes, Zenon
    <3>2. f.moved \in Int /\ f.exe \in Nat
      BY <3>1 DEF Answer
    <3>3. OrderQty(amount) <= held /\ OrderQty(amount) \in Int
      BY <1>2, <2>2, OrderQtyInt DEF Covered
    <3> QED BY <3>1, <3>2, <3>3
  <2> QED BY <2>1, <2>2
<1>3. ASSUME Covered(side, amount, held),
             NEW f \in (IF side = 1 THEN Buys(amount) ELSE Sells(amount)),
             NEW ret \in BOOLEAN, r = Result(ret, 0, 0, f.moved, "lost")
      PROVE  /\ r \in Answer /\ r.comm <= r.exe /\ held + r.moved \in Nat
             /\ side = SELL => r.moved <= 0 /\ (r.exe # 0 => r.ret)
  <2>1. f \in Answer /\ held + f.moved \in Nat /\ (side = SELL => f.moved <= 0)
    BY <1>2, <1>3
  <2>2. f.moved \in Int
    BY <2>1 DEF Answer
  <2>3. r.exe = 0 /\ r.comm = 0 /\ r.moved = f.moved
    BY <1>3 DEF Result
  <2>4. r \in Answer
    BY <1>3, <2>2 DEF Result, Answer
  <2> QED BY <2>1, <2>3, <2>4
<1>4. CASE Covered(side, amount, held)
  <2> DEFINE fills == IF side = 1 THEN Buys(amount) ELSE Sells(amount)
  <2>1. r \in {NotSent, Failed, Rejected} \/ r \in fills \/ r \in Lost(fills)
    BY <1>4 DEF InsertOrder
  <2>2. CASE r \in {NotSent, Failed, Rejected}
    BY <2>2, <1>1
  <2>3. CASE r \in fills
    BY <2>3, <1>2, <1>4
  <2>4. CASE r \in Lost(fills)
    <3>1. PICK ret \in BOOLEAN, f \in fills : r = Result(ret, 0, 0, f.moved, "lost")
      <4> HIDE DEF fills
      <4> QED BY <2>4, LostAnswer
    <3> QED BY <3>1, <1>3, <1>4
  <2> QED BY <2>1, <2>2, <2>3, <2>4
<1>5. CASE ~Covered(side, amount, held)
  BY <1>1, <1>5 DEF InsertOrder
<1> QED BY <1>4, <1>5
-----------------------------------------------------------------------------
(* Types.                                                                  *)

LEMMA InitTInv == Init => TInv
<1> SUFFICES ASSUME Init PROVE TInv
  OBVIOUS
<1> USE OrderAssumption DEF Init, OrderAssumption
<1>1. TypeOK
  BY DEF TypeOK
<1>2. ServeInv
  BY DEF ServeInv
<1> QED BY <1>1, <1>2 DEF TInv

LEMMA DecideTInv ==
  ASSUME TInv, NEW st \in Strategies, NEW s \in Symbols, NEW price \in Prices,
         Decide(st, s, price)
  PROVE  TInv'
<1> USE DEF TInv
<1>1. TypeOK'
  <2> DEFINE side == IF pointType[st][s] = 1 THEN SELL ELSE BUY
  <2>1. /\ pcP = "run" /\ pcP' = "push" /\ signals < MaxSignals /\ signals' = signals + 1
        /\ signal' = [strategyId |-> st, symbol |-> s, side |-> side, price |-> price]
        /\ pointType' = [pointType EXCEPT ![st][s] = side]
        /\ UNCHANGED <<signalQueue, orders, lock, pcO, account>>
    BY DEF Decide
  <2>2. side \in {BUY, SELL}
    OBVIOUS
  <2> HIDE DEF side
  <2>3. signal' \in Signal
    BY <2>1, <2>2 DEF Signal
  <2>4. pointType' \in [Strategies -> [Symbols -> {0, BUY, SELL}]]
    BY <2>1, <2>2 DEF TypeOK
  <2>5. signals' \in 0 .. MaxSignals
    BY <2>1, OrderAssumption DEF TypeOK, OrderAssumption
  <2> QED BY <2>1, <2>3, <2>4, <2>5 DEF TypeOK, orders, account
<1>2. ServeInv'
  BY DEF ServeInv, TypeOK, Decide, orders, account, sig_block
<1> QED BY <1>1, <1>2

LEMMA PushTInv == TInv /\ PushSignal => TInv'
<1> SUFFICES ASSUME TInv, PushSignal PROVE TInv'
  OBVIOUS
<1> USE DEF TInv
<1>1. TypeOK'
  BY OrderAssumption DEF OrderAssumption, TypeOK, ServeInv, PushSignal, orders, account
<1>2. ServeInv'
  BY DEF ServeInv, TypeOK, PushSignal, orders, account, sig_block
<1> QED BY <1>1, <1>2

LEMMA LockTInv == TInv /\ Lock => TInv'
<1> SUFFICES ASSUME TInv, Lock PROVE TInv'
  OBVIOUS
<1> USE DEF TInv
<1>1. TypeOK'
  BY DEF TypeOK, Lock, orders, producer, account
<1>2. ServeInv'
  BY DEF ServeInv, TypeOK, Lock, orders, producer, account, sig_block
<1> QED BY <1>1, <1>2

LEMMA ServeBuyTInv == TInv /\ ServeBuy => TInv'
<1> SUFFICES ASSUME TInv, ServeBuy PROVE TInv'
  OBVIOUS
<1> USE DEF TInv
<1>1. TypeOK'
  BY DEF TypeOK, ServeBuy, orders, producer, account
<1>2. ServeInv'
  BY DEF ServeInv, TypeOK, ServeBuy, orders, producer, account, sig_block
<1> QED BY <1>1, <1>2

LEMMA SleepTInv == TInv /\ SleepAndUnlock => TInv'
<1> SUFFICES ASSUME TInv, SleepAndUnlock PROVE TInv'
  OBVIOUS
<1> USE DEF TInv
<1>1. TypeOK'
  BY DEF TypeOK, SleepAndUnlock, orders, producer, account
<1>2. ServeInv'
  BY DEF ServeInv, TypeOK, SleepAndUnlock, orders, producer, account, sig_block
<1> QED BY <1>1, <1>2

LEMMA PopTInv == TInv /\ Pop => TInv'
<1> SUFFICES ASSUME TInv, Pop PROVE TInv'
  OBVIOUS
<1> USE DEF TInv
<1>1. signalQueue \in Seq(Signal) /\ signalQueue # <<>>
  BY DEF TypeOK, ServeInv, Pop
<1>2. Tail(signalQueue) \in Seq(Signal) /\ Len(Tail(signalQueue)) = Len(signalQueue) - 1
  BY <1>1
<1>3. TypeOK'
  BY <1>2, OrderAssumption DEF OrderAssumption, TypeOK, Pop, orders, producer
<1>4. ServeInv'
  BY <1>2 DEF ServeInv, TypeOK, Pop, orders, producer, sig_block
<1> QED BY <1>3, <1>4

(* A set of numbers that is not empty has a least one.                     *)
LEMMA LeastNumber ==
  ASSUME NEW T, T \subseteq Nat, T # {}
  PROVE  \E x \in T : \A y \in T : x <= y
<1>1. PICK x \in T : \A y \in T : ~(<<y, x>> \in OpToRel(<, Nat))
  BY NatLessThanWellFounded, WFMin, Zenon
<1>2. ASSUME NEW y \in T PROVE ~(y < x)
  <2>1. <<y, x>> \in Nat \X Nat /\ <<y, x>>[1] = y /\ <<y, x>>[2] = x
    OBVIOUS
  <2> QED BY <1>1, <2>1, Zenon DEF OpToRel
<1> QED BY <1>2

(* And, when it has a bound, a greatest one.                               *)
LEMMA GreatestNumber ==
  ASSUME NEW bound \in Nat, NEW T, T \subseteq 0 .. bound, T # {}
  PROVE  \E x \in T : \A y \in T : y <= x
<1> DEFINE D == {d \in 0 .. bound : bound - d \in T}
<1>1. D \subseteq Nat
  OBVIOUS
<1>2. D # {}
  <2>1. PICK n \in T : TRUE
    OBVIOUS
  <2>2. n \in 0 .. bound /\ bound - n \in 0 .. bound /\ bound - (bound - n) = n
    OBVIOUS
  <2>3. bound - n \in D
    BY <2>2
  <2> QED BY <2>3
<1>3. PICK d \in D : \A y \in D : d <= y
  <2> HIDE DEF D
  <2> QED BY <1>1, <1>2, LeastNumber
<1>4. ASSUME NEW y \in T PROVE y <= bound - d
  <2>1. y \in 0 .. bound /\ bound - y \in 0 .. bound /\ bound - (bound - y) = y
    OBVIOUS
  <2>2. d \in 0 .. bound
    OBVIOUS
  <2>3. d <= bound - y
    <3>1. bound - y \in D
      BY <2>1
    <3> HIDE DEF D
    <3> QED BY <3>1, <1>3
  <2> HIDE DEF D
  <2> QED BY <2>1, <2>2, <2>3
<1> QED BY <1>3, <1>4

(* The first and the last order of a symbol are in the book.               *)
LEMMA EndsOfBook ==
  ASSUME NEW len \in Nat, NEW T, T \subseteq 1 .. len, T # {}
  PROVE  Min(T) \in T /\ Max(T) \in T
<1>1. T \subseteq Nat /\ T \subseteq 0 .. len
  OBVIOUS
<1>2. \E x \in T : \A y \in T : x <= y
  BY <1>1, LeastNumber
<1>3. \E x \in T : \A y \in T : y <= x
  BY <1>1, GreatestNumber
<1>4. \E x \in T : \A y \in T : x >= y
  BY <1>1, <1>3
<1> QED BY <1>2, <1>4 DEF Min, Max

(* The signal that is served, and its book.                                *)
LEMMA Served ==
  ASSUME TInv, pcO \in {"serve", "buy", "sell", "pop"}
  PROVE  /\ signalQueue # <<>> /\ sig_block = signalQueue[1] /\ sig_block \in Signal
         /\ sig_block.strategyId \in Strategies /\ sig_block.symbol \in Symbols
         /\ sig_block.price \in Prices /\ sig_block.price \in Nat \ {0}
         /\ sig_block.side \in {BUY, SELL}
         /\ strategyOrders[sig_block.strategyId] \in Seq(OrderBlock)
         /\ stock[sig_block.symbol] \in Nat
<1>1. signalQueue # <<>> /\ signalQueue \in Seq(Signal)
  BY DEF TInv, TypeOK, ServeInv
<1>2. sig_block = signalQueue[1] /\ sig_block \in Signal
  BY <1>1 DEF sig_block
<1> QED BY <1>1, <1>2, OrderAssumption DEF OrderAssumption, TInv, TypeOK, Signal

LEMMA ServeSellTInv == TInv /\ ServeSell => TInv'
<1> SUFFICES ASSUME TInv, ServeSell PROVE TInv'
  OBVIOUS
<1> USE DEF TInv
<1> DEFINE st == sig_block.strategyId
           s == sig_block.symbol
<1>1. /\ pcO = "serve" /\ pcO' = "sell" /\ sold' = 0 /\ sig_block.side = SELL
      /\ qty' = IF Orders(st, s) = {} THEN 0 ELSE Booked(Newest(st, s))
      /\ UNCHANGED <<signalQueue, strategyOrders, orderCnt, lock, producer, stock, faults>>
  BY DEF ServeSell
<1>2. st \in Strategies /\ strategyOrders[st] \in Seq(OrderBlock)
  BY <1>1, Served
<1>3. qty' \in Nat
  <2>1. CASE Orders(st, s) = {}
    BY <2>1, <1>1
  <2>2. CASE Orders(st, s) # {}
    <3>1. Max(Orders(st, s)) \in DOMAIN strategyOrders[st]
      <4>1. Orders(st, s) \subseteq 1 .. Len(strategyOrders[st])
        BY <1>2 DEF Orders, Places
      <4>2. Max(Orders(st, s)) \in Orders(st, s)
        BY <4>1, <2>2, <1>2, EndsOfBook
      <4> QED BY <4>1, <4>2, <1>2
    <3>2. Newest(st, s) \in OrderBlock /\ Newest(st, s).commissionQty <= Newest(st, s).totalQty
      BY <3>1, <1>2 DEF Newest, ServeInv
    <3> QED BY <3>2, <2>2, <1>1 DEF Booked, OrderBlock
  <2> QED BY <2>1, <2>2
<1>4. TypeOK'
  BY <1>1, <1>3 DEF TypeOK, producer
<1>5. ServeInv'
  BY <1>1, <1>2 DEF ServeInv, producer, sig_block
<1> QED BY <1>4, <1>5

(* One order moves coins that are there.                                   *)
LEMMA OrderTypes ==
  ASSUME TInv, pcO \in {"buy", "sell"}, NEW side \in {BUY, SELL}, NEW amount \in Nat,
         NEW result, Order(side, amount, result)
  PROVE  /\ result \in Answer /\ result.comm <= result.exe
         /\ side = SELL => result.moved <= 0 /\ (result.exe # 0 => result.ret)
         /\ stock' \in [Symbols -> Nat]
         /\ faults' \in Seq(Fault) /\ Len(faults') <= MaxFaults
<1>1. sig_block.symbol \in Symbols /\ sig_block.price \in Nat /\ stock[sig_block.symbol] \in Nat
  BY Served
<1>2. /\ result \in Answer /\ result.comm <= result.exe
      /\ stock[sig_block.symbol] + result.moved \in Nat
      /\ side = SELL => result.moved <= 0 /\ (result.exe # 0 => result.ret)
  BY <1>1, AnswerTypes DEF Order
<1>3. stock' \in [Symbols -> Nat]
  BY <1>1, <1>2 DEF Order, TInv, TypeOK
<1>4. faults' \in Seq(Fault) /\ Len(faults') <= MaxFaults
  <2>1. faults \in Seq(Fault) /\ Len(faults) <= MaxFaults /\ Len(faults) \in Nat
    BY DEF TInv, TypeOK
  <2>2. CASE result.fault = "none"
    BY <2>1, <2>2 DEF Order
  <2>3. CASE result.fault # "none"
    <3>1. /\ faults' = Append(faults, [side |-> side, fault |-> result.fault])
          /\ Len(faults) < MaxFaults
      BY <2>3 DEF Order
    <3>2. [side |-> side, fault |-> result.fault] \in Fault
      BY <2>3, <1>2 DEF Fault, Answer
    <3> QED BY <2>1, <3>1, <3>2, OrderAssumption DEF OrderAssumption
  <2> QED BY <2>2, <2>3
<1> QED BY <1>2, <1>3, <1>4

LEMMA BuyTInv ==
  ASSUME TInv, NEW result, StrategyBuySignal(result)
  PROVE  TInv'
<1> USE DEF TInv
<1> DEFINE st == sig_block.strategyId
           order == [symbol |-> sig_block.symbol, oriPrice |-> sig_block.price,
                     totalQty |-> result.exe, commissionQty |-> result.comm]
<1>1. /\ pcO = "buy" /\ pcO' = "pop"
      /\ Order(BUY, unitCaptical \div sig_block.price, result)
      /\ strategyOrders' = IF result.ret
                           THEN [strategyOrders EXCEPT ![st] = Append(@, order)]
                           ELSE strategyOrders
      /\ UNCHANGED <<signalQueue, orderCnt, qty, lock, producer, sold>>
  BY DEF StrategyBuySignal
<1>2. /\ st \in Strategies /\ strategyOrders[st] \in Seq(OrderBlock) /\ signalQueue # <<>>
      /\ sig_block.symbol \in Symbols /\ sig_block.price \in Prices
      /\ sig_block.price \in Nat \ {0}
  BY <1>1, Served
<1>3. unitCaptical \div sig_block.price \in Nat
  BY <1>2, OrderAssumption DEF OrderAssumption
<1>4. /\ result \in Answer /\ result.comm <= result.exe
      /\ stock' \in [Symbols -> Nat] /\ faults' \in Seq(Fault) /\ Len(faults') <= MaxFaults
  BY <1>1, <1>3, OrderTypes
<1>5. order \in OrderBlock /\ order.commissionQty <= order.totalQty
  BY <1>2, <1>4 DEF OrderBlock, Answer
<1> HIDE DEF st, order
<1>6. /\ strategyOrders' \in [Strategies -> Seq(OrderBlock)]
      /\ \A t \in Strategies : \A n \in DOMAIN strategyOrders'[t] :
           strategyOrders'[t][n].commissionQty <= strategyOrders'[t][n].totalQty
  <2>1. CASE result.ret
    <3>1. strategyOrders' = [strategyOrders EXCEPT ![st] = Append(@, order)]
      BY <1>1, <2>1
    <3>2. Append(strategyOrders[st], order) \in Seq(OrderBlock)
      BY <1>2, <1>5
    <3>3. strategyOrders' \in [Strategies -> Seq(OrderBlock)]
      BY <3>1, <3>2 DEF TypeOK
    <3>4. ASSUME NEW t \in Strategies, NEW n \in DOMAIN strategyOrders'[t]
          PROVE  strategyOrders'[t][n].commissionQty <= strategyOrders'[t][n].totalQty
      <4>1. CASE t # st
        BY <4>1, <3>1 DEF TypeOK, ServeInv
      <4>2. CASE t = st
        <5>1. strategyOrders'[t] = Append(strategyOrders[st], order)
          BY <4>2, <3>1, <1>2 DEF TypeOK
        <5>2. n \in 1 .. Len(strategyOrders[st]) + 1
          BY <5>1, <1>2
        <5>3. \/ n \in DOMAIN strategyOrders[st] /\ strategyOrders'[t][n] = strategyOrders[st][n]
              \/ strategyOrders'[t][n] = order
          BY <5>1, <5>2, <1>2
        <5> QED BY <5>3, <1>2, <1>5 DEF ServeInv
      <4> QED BY <4>1, <4>2
    <3> QED BY <3>3, <3>4
  <2>2. CASE ~result.ret
    BY <1>1, <2>2 DEF TypeOK, ServeInv
  <2> QED BY <2>1, <2>2
<1>7. TypeOK'
  BY <1>1, <1>4, <1>6 DEF TypeOK, producer
<1>8. ServeInv'
  BY <1>1, <1>2, <1>6 DEF ServeInv, producer, sig_block
<1> QED BY <1>7, <1>8

(* Erasing an order keeps the others, in their order.                      *)
LEMMA Erased ==
  ASSUME NEW open \in Seq(OrderBlock), NEW s \in Symbols, Places(open, s) # {}
  PROVE  \E at \in Places(open, s) :
           /\ at \in 1 .. Len(open)
           /\ EraseFirst(open, s) \in Seq(OrderBlock)
           /\ Len(EraseFirst(open, s)) = Len(open) - 1
           /\ \A n \in 1 .. Len(open) - 1 :
                EraseFirst(open, s)[n] = open[IF n < at THEN n ELSE n + 1]
<1> DEFINE at == Min(Places(open, s))
<1>1. at \in Places(open, s) /\ at \in 1 .. Len(open)
  <2>1. Places(open, s) \subseteq 1 .. Len(open) /\ Len(open) \in Nat
    BY DEF Places
  <2> QED BY <2>1, EndsOfBook
<1> DEFINE front == SubSeq(open, 1, at - 1)
           back  == SubSeq(open, at + 1, Len(open))
<1>2. EraseFirst(open, s) = front \o back
  BY DEF EraseFirst, RemoveAt
<1> HIDE DEF at
<1>3. /\ front \in Seq(OrderBlock) /\ Len(front) = at - 1
      /\ \A n \in 1 .. at - 1 : front[n] = open[n]
  BY <1>1
<1>4. /\ back \in Seq(OrderBlock) /\ Len(back) = Len(open) - at
      /\ \A n \in 1 .. Len(open) - at : back[n] = open[at + n]
  BY <1>1
<1> HIDE DEF front, back
<1>5. /\ front \o back \in Seq(OrderBlock) /\ Len(front \o back) = Len(open) - 1
      /\ \A n \in 1 .. Len(open) - 1 :
           (front \o back)[n] = IF n <= at - 1 THEN front[n] ELSE back[n - (at - 1)]
  <2>1. Len(open) \in Nat
    OBVIOUS
  <2> QED BY <2>1, <1>1, <1>3, <1>4
<1>6. ASSUME NEW n \in 1 .. Len(open) - 1
      PROVE  (front \o back)[n] = open[IF n < at THEN n ELSE n + 1]
  <2>1. CASE n < at
    BY <2>1, <1>1, <1>3, <1>5
  <2>2. CASE ~(n < at)
    <3>1. n - (at - 1) \in 1 .. Len(open) - at /\ at + (n - (at - 1)) = n + 1
      BY <2>2, <1>1
    <3>2. (front \o back)[n] = back[n - (at - 1)]
      BY <2>2, <1>1, <1>5
    <3> QED BY <2>2, <3>1, <3>2, <1>4
  <2> QED BY <2>1, <2>2
<1> QED BY <1>1, <1>2, <1>5, <1>6

LEMMA SellTInv ==
  ASSUME TInv, NEW result, StrategySellSignal(result)
  PROVE  TInv'
<1> USE DEF TInv
<1> DEFINE st == sig_block.strategyId
           s == sig_block.symbol
<1>1. /\ pcO = "sell" /\ Order(SELL, qty, result) /\ sold' = sold - result.moved
      /\ UNCHANGED <<signalQueue, lock, producer>>
      /\ IF result.exe = 0
         THEN /\ qty' = IF qty > 0 THEN qty - 1 ELSE 0
              /\ UNCHANGED <<strategyOrders, orderCnt, pcO>>
         ELSE /\ strategyOrders' =
                   IF result.ret THEN [strategyOrders EXCEPT ![st] = EraseFirst(@, s)]
                   ELSE strategyOrders
              /\ orderCnt' = orderCnt - 1 /\ qty' = 0 /\ pcO' = "pop"
  BY DEF StrategySellSignal
<1>2. /\ st \in Strategies /\ s \in Symbols /\ strategyOrders[st] \in Seq(OrderBlock)
      /\ signalQueue # <<>>
  BY <1>1, Served
<1>3. /\ result \in Answer /\ result.moved <= 0
      /\ stock' \in [Symbols -> Nat] /\ faults' \in Seq(Fault) /\ Len(faults') <= MaxFaults
  BY <1>1, OrderTypes DEF TypeOK
<1>4. sold' \in Nat /\ qty' \in Nat /\ orderCnt' \in Int /\ pcO' \in {"sell", "pop"}
  <2>1. sold \in Nat /\ qty \in Nat /\ orderCnt \in Int
    BY DEF TypeOK
  <2>2. result.moved \in Int /\ result.moved <= 0
    BY <1>3 DEF Answer
  <2>3. sold' \in Nat
    BY <1>1, <2>1, <2>2
  <2>4. CASE result.exe = 0
    BY <1>1, <2>1, <2>3, <2>4
  <2>5. CASE result.exe # 0
    BY <1>1, <2>1, <2>3, <2>5
  <2> QED BY <2>4, <2>5
<1> HIDE DEF st, s
<1>5. /\ strategyOrders' \in [Strategies -> Seq(OrderBlock)]
      /\ \A t \in Strategies : \A n \in DOMAIN strategyOrders'[t] :
           strategyOrders'[t][n].commissionQty <= strategyOrders'[t][n].totalQty
  <2>1. CASE UNCHANGED strategyOrders
    BY <2>1 DEF TypeOK, ServeInv
  <2>2. CASE strategyOrders' = [strategyOrders EXCEPT ![st] = EraseFirst(@, s)]
    <3>1. EraseFirst(strategyOrders[st], s) \in Seq(OrderBlock)
      BY <1>2, Erased DEF EraseFirst
    <3>2. strategyOrders' \in [Strategies -> Seq(OrderBlock)]
      BY <2>2, <3>1 DEF TypeOK
    <3>3. ASSUME NEW t \in Strategies, NEW n \in DOMAIN strategyOrders'[t]
          PROVE  strategyOrders'[t][n].commissionQty <= strategyOrders'[t][n].totalQty
      <4>1. CASE t # st \/ Places(strategyOrders[st], s) = {}
        <5>1. strategyOrders'[t] = strategyOrders[t]
          BY <2>2, <4>1, <1>2 DEF TypeOK, EraseFirst
        <5> QED BY <5>1 DEF ServeInv
      <4>2. CASE t = st /\ Places(strategyOrders[st], s) # {}
        <5>1. strategyOrders'[t] = EraseFirst(strategyOrders[st], s)
          BY <2>2, <4>2, <1>2 DEF TypeOK
        <5>2. \E k \in 1 .. Len(strategyOrders[st]) : strategyOrders'[t][n] = strategyOrders[st][k]
          <6>1. PICK at \in Places(strategyOrders[st], s) :
                  /\ at \in 1 .. Len(strategyOrders[st])
                  /\ Len(EraseFirst(strategyOrders[st], s)) = Len(strategyOrders[st]) - 1
                  /\ \A m \in 1 .. Len(strategyOrders[st]) - 1 :
                       EraseFirst(strategyOrders[st], s)[m]
                         = strategyOrders[st][IF m < at THEN m ELSE m + 1]
            BY <1>2, <4>2, Erased
          <6>2. n \in 1 .. Len(strategyOrders[st]) - 1 /\ Len(strategyOrders[st]) \in Nat
            BY <5>1, <6>1, <3>1, <1>2
          <6>3. (IF n < at THEN n ELSE n + 1) \in 1 .. Len(strategyOrders[st])
            BY <6>1, <6>2
          <6> QED BY <5>1, <6>1, <6>2, <6>3
        <5> QED BY <5>2, <1>2 DEF ServeInv
      <4> QED BY <4>1, <4>2
    <3> QED BY <3>2, <3>3
  <2> QED BY <2>1, <2>2, <1>1
<1>6. TypeOK'
  BY <1>1, <1>3, <1>4, <1>5 DEF TypeOK, producer
<1>7. ServeInv'
  BY <1>1, <1>2, <1>4, <1>5 DEF ServeInv, producer, sig_block
<1> QED BY <1>6, <1>7

LEMMA StepTInv == TInv /\ [Next]_vars => TInv'
<1> SUFFICES ASSUME TInv, [Next]_vars PROVE TInv'
  OBVIOUS
<1>1. CASE UNCHANGED vars
  BY <1>1 DEF vars, orders, producer, account, TInv, TypeOK, ServeInv, sig_block
<1>2. CASE OrderManagerRun
  <2>1. (pcO = "buy" /\ BuyOrder => TInv') /\ (pcO = "sell" /\ SellOrder => TInv')
    BY BuyTInv, SellTInv DEF BuyOrder, SellOrder
  <2> QED BY <1>2, <2>1, LockTInv, ServeBuyTInv, ServeSellTInv, PopTInv, SleepTInv
          DEF OrderManagerRun
<1> QED BY <1>1, <1>2, DecideTInv, PushTInv DEF Next

(* Types, with any filters and whatever the exchange answers: the mutex is  *)
(* held in the scope of its lock_guard only, no quantity is negative, and   *)
(* no coin is sold that is not there.                                      *)
THEOREM TypeCorrect == Spec => []TypeOK
<1>1. TInv => TypeOK
  BY DEF TInv
<1> QED BY <1>1, InitTInv, StepTInv, PTL DEF Spec
-----------------------------------------------------------------------------
(* One order per position.                                                 *)
(*                                                                         *)
(* Pending are the signals that are decided and not popped; Of(q, st, s)    *)
(* the places of those of a strategy and a symbol in a queue of signals.    *)
(* Buys and sales alternate in it, the last agrees with pointType, and as   *)
(* long as there is an order in the book the next is a sale.               *)

Pending == IF pcP = "push" THEN Append(signalQueue, signal) ELSE signalQueue

Of(q, st, s) == {k \in DOMAIN q : q[k].strategyId = st /\ q[k].symbol = s}

Alternate(q, st, s) ==
  \A j, k \in Of(q, st, s) :
    j < k /\ (\A n \in Of(q, st, s) : ~(j < n /\ n < k)) => q[j].side # q[k].side

LastIs(q, st, s, side) ==
  \A k \in Of(q, st, s) : (\A n \in Of(q, st, s) : n <= k) => q[k].side = side

FirstIs(q, st, s, side) ==
  \A k \in Of(q, st, s) : (\A n \in Of(q, st, s) : k <= n) => q[k].side = side

(* The signal that is popped next has been served.                         *)
IsServed(st, s) == pcO = "pop" /\ sig_block.strategyId = st /\ sig_block.symbol = s

PositionInv ==
  \A st \in Strategies, s \in Symbols :
    /\ Alternate(Pending, st, s)
    /\ LastIs(Pending, st, s, pointType[st][s])
    /\ \A n, m \in Orders(st, s) : n = m
    /\ Orders(st, s) # {} =>
         /\ Of(Pending, st, s) = {} => pointType[st][s] = BUY
         /\ FirstIs(Pending, st, s, IF IsServed(st, s) THEN BUY ELSE SELL)

PInv == TInv /\ PositionInv

LEMMA AppendAlternates ==
  ASSUME NEW q \in Seq(Signal), NEW x \in Signal, NEW st \in Strategies, NEW s \in Symbols,
         NEW side, Alternate(q, st, s), LastIs(q, st, s, side),
         x.strategyId = st /\ x.symbol = s => x.side # side
  PROVE  /\ Alternate(Append(q, x), st, s)
         /\ IF x.strategyId = st /\ x.symbol = s
            THEN /\ LastIs(Append(q, x), st, s, x.side)
                 /\ Of(Append(q, x), st, s) = Of(q, st, s) \union {Len(q) + 1}
            ELSE Of(Append(q, x), st, s) = Of(q, st, s) /\ LastIs(Append(q, x), st, s, side)
<1>1. /\ Len(q) \in Nat /\ DOMAIN q = 1 .. Len(q)
      /\ DOMAIN Append(q, x) = 1 .. Len(q) + 1
      /\ \A k \in 1 .. Len(q) : Append(q, x)[k] = q[k]
      /\ Append(q, x)[Len(q) + 1] = x
  OBVIOUS
<1>2. CASE x.strategyId = st /\ x.symbol = s
  <2>1. Of(Append(q, x), st, s) = Of(q, st, s) \union {Len(q) + 1}
    BY <1>1, <1>2 DEF Of
  <2>2. \A k \in Of(q, st, s) : k \in Int /\ k < Len(q) + 1 /\ Append(q, x)[k] = q[k]
    BY <1>1 DEF Of
  <2>3. LastIs(Append(q, x), st, s, x.side)
    BY <1>1, <2>1, <2>2 DEF LastIs
  <2>4. ASSUME NEW j \in Of(Append(q, x), st, s), NEW k \in Of(Append(q, x), st, s), j < k,
               \A n \in Of(Append(q, x), st, s) : ~(j < n /\ n < k)
        PROVE  Append(q, x)[j].side # Append(q, x)[k].side
    <3>1. j \in Of(q, st, s)
      BY <2>1, <2>2, <2>4, <1>1
    <3>2. CASE k \in Of(q, st, s)
      BY <3>1, <3>2, <2>1, <2>2, <2>4 DEF Alternate
    <3>3. CASE k = Len(q) + 1
      <4>1. ASSUME NEW n \in Of(q, st, s) PROVE n <= j
        <5>1. n \in Of(Append(q, x), st, s) /\ n \in Int /\ j \in Int /\ n < k
          BY <3>1, <3>3, <2>1, <2>2
        <5> QED BY <5>1, <2>4
      <4>2. q[j].side = side
        BY <4>1, <3>1 DEF LastIs
      <4> QED BY <4>2, <3>1, <3>3, <2>2, <1>1, <1>2
    <3> QED BY <3>2, <3>3, <2>1, <2>4
  <2> QED BY <2>1, <2>3, <2>4, <1>2 DEF Alternate
<1>3. CASE ~(x.strategyId = st /\ x.symbol = s)
  <2>1. Of(Append(q, x), st, s) = Of(q, st, s)
    BY <1>1, <1>3 DEF Of
  <2>2. \A k \in Of(q, st, s) : Append(q, x)[k] = q[k]
    BY <1>1 DEF Of
  <2>3. Alternate(Append(q, x), st, s)
    BY <2>1, <2>2 DEF Alternate
  <2>4. LastIs(Append(q, x), st, s, side)
    BY <2>1, <2>2 DEF LastIs
  <2> QED BY <2>1, <2>3, <2>4, <1>3
<1> QED BY <1>2, <1>3

LEMMA TailAlternates ==
  ASSUME NEW q \in Seq(Signal), q # <<>>, NEW st \in Strategies, NEW s \in Symbols,
         NEW side, Alternate(q, st, s), LastIs(q, st, s, side)
  PROVE  /\ Alternate(Tail(q), st, s) /\ LastIs(Tail(q), st, s, side)
         /\ \A k : k \in Of(Tail(q), st, s) <=> k \in Nat \ {0} /\ k + 1 \in Of(q, st, s)
         /\ \A k \in Of(Tail(q), st, s) : Tail(q)[k] = q[k + 1]
<1>1. /\ Len(q) \in Nat \ {0} /\ DOMAIN q = 1 .. Len(q)
      /\ DOMAIN Tail(q) = 1 .. Len(q) - 1
      /\ \A k \in 1 .. Len(q) - 1 : Tail(q)[k] = q[k + 1]
  OBVIOUS
<1>2. \A k : k \in Of(Tail(q), st, s) <=> k \in Nat \ {0} /\ k + 1 \in Of(q, st, s)
  <2> SUFFICES ASSUME NEW k
               PROVE  k \in Of(Tail(q), st, s) <=> k \in Nat \ {0} /\ k + 1 \in Of(q, st, s)
    OBVIOUS
  <2>1. k \in 1 .. Len(q) - 1 <=> k \in Nat \ {0} /\ k + 1 \in 1 .. Len(q)
    BY <1>1
  <2> QED BY <2>1, <1>1 DEF Of
<1>3. \A k \in Of(Tail(q), st, s) : Tail(q)[k] = q[k + 1]
  BY <1>1 DEF Of
<1>4. \A k \in Of(q, st, s) : k \in Nat \ {0}
  BY <1>1 DEF Of
<1>5. ASSUME NEW j \in Of(Tail(q), st, s), NEW k \in Of(Tail(q), st, s), j < k,
             \A n \in Of(Tail(q), st, s) : ~(j < n /\ n < k)
      PROVE  Tail(q)[j].side # Tail(q)[k].side
  <2>1. /\ j \in Nat \ {0} /\ k \in Nat \ {0}
        /\ j + 1 \in Of(q, st, s) /\ k + 1 \in Of(q, st, s) /\ j + 1 < k + 1
    BY <1>2, <1>5
  <2>2. ASSUME NEW n \in Of(q, st, s), j + 1 < n, n < k + 1 PROVE FALSE
    <3>1. n - 1 \in Nat \ {0} /\ n - 1 + 1 = n
      BY <2>1, <2>2, <1>4
    <3>2. n - 1 \in Of(Tail(q), st, s)
      BY <3>1, <1>2
    <3> QED BY <3>1, <3>2, <2>1, <2>2, <1>4, <1>5
  <2>3. q[j + 1].side # q[k + 1].side
    BY <2>1, <2>2 DEF Alternate
  <2> QED BY <2>3, <1>3
<1>6. ASSUME NEW k \in Of(Tail(q), st, s), \A n \in Of(Tail(q), st, s) : n <= k
      PROVE  Tail(q)[k].side = side
  <2>1. k \in Nat \ {0} /\ k + 1 \in Of(q, st, s)
    BY <1>2
  <2>2. ASSUME NEW n \in Of(q, st, s) PROVE n <= k + 1
    <3>1. CASE n = 1
      BY <3>1, <2>1
    <3>2. CASE n # 1
      <4>1. n - 1 \in Nat \ {0} /\ n - 1 + 1 = n /\ n \in Nat
        BY <3>2, <1>4
      <4>2. n - 1 \in Of(Tail(q), st, s)
        BY <4>1, <1>2
      <4> QED BY <4>1, <4>2, <2>1, <1>6
    <3> QED BY <3>1, <3>2
  <2> QED BY <2>1, <2>2, <1>3 DEF LastIs
<1> QED BY <1>2, <1>3, <1>5, <1>6 DEF Alternate, LastIs

(* The first of a queue is left out: what is next, and what is last.        *)
Other(side) == IF side = BUY THEN SELL ELSE BUY

LEMMA TailTurns ==
  ASSUME NEW q \in Seq(Signal), q # <<>>, NEW st \in Strategies, NEW s \in Symbols,
         NEW side \in {BUY, SELL}, NEW last,
         Alternate(q, st, s), LastIs(q, st, s, last), FirstIs(q, st, s, side)
  PROVE  IF 1 \in Of(q, st, s)
         THEN /\ Of(Tail(q), st, s) = {} => last = side
              /\ FirstIs(Tail(q), st, s, Other(side))
         ELSE /\ Of(Tail(q), st, s) = {} => Of(q, st, s) = {}
              /\ FirstIs(Tail(q), st, s, side)
<1>1. /\ \A k : k \in Of(Tail(q), st, s) <=> k \in Nat \ {0} /\ k + 1 \in Of(q, st, s)
      /\ \A k \in Of(Tail(q), st, s) : Tail(q)[k] = q[k + 1]
  BY TailAlternates, ZenonT(60)
<1>2. \A k \in Of(q, st, s) : k \in Nat \ {0} /\ q[k].side \in {BUY, SELL}
  <2>1. \A k \in DOMAIN q : q[k] \in Signal /\ k \in Nat \ {0}
    OBVIOUS
  <2> QED BY <2>1 DEF Of, Signal
<1>3. \A n \in Of(q, st, s) : n # 1 => n - 1 \in Nat \ {0} /\ n - 1 \in Of(Tail(q), st, s)
  <2> SUFFICES ASSUME NEW n \in Of(q, st, s), n # 1
               PROVE  n - 1 \in Nat \ {0} /\ n - 1 \in Of(Tail(q), st, s)
    OBVIOUS
  <2>1. n - 1 \in Nat \ {0} /\ n - 1 + 1 = n
    BY <1>2
  <2> QED BY <2>1, <1>1
<1>4. CASE 1 \in Of(q, st, s)
  <2>1. q[1].side = side
    BY <1>2, <1>4 DEF FirstIs
  <2>2. ASSUME Of(Tail(q), st, s) = {} PROVE last = side
    <3>1. \A n \in Of(q, st, s) : n <= 1
      BY <1>2, <1>3, <2>2
    <3> QED BY <3>1, <2>1, <1>4 DEF LastIs
  <2>3. ASSUME NEW k \in Of(Tail(q), st, s), \A n \in Of(Tail(q), st, s) : k <= n
        PROVE  Tail(q)[k].side = Other(side)
    <3>1. k \in Nat \ {0} /\ k + 1 \in Of(q, st, s) /\ Tail(q)[k] = q[k + 1]
      BY <1>1
    <3>2. ASSUME NEW n \in Of(q, st, s), 1 < n, n < k + 1 PROVE FALSE
      <4>1. n - 1 \in Nat \ {0} /\ k <= n - 1
        BY <1>3, <2>3, <3>2
      <4> QED BY <4>1, <3>1, <3>2
    <3>3. q[k + 1].side # side
      BY <3>1, <3>2, <2>1, <1>4 DEF Alternate
    <3> QED BY <3>1, <3>3, <1>2 DEF Other
  <2> QED BY <2>2, <2>3, <1>4 DEF FirstIs
<1>5. CASE 1 \notin Of(q, st, s)
  <2>1. Of(Tail(q), st, s) = {} => Of(q, st, s) = {}
    BY <1>3, <1>5
  <2>2. ASSUME NEW k \in Of(Tail(q), st, s), \A n \in Of(Tail(q), st, s) : k <= n
        PROVE  Tail(q)[k].side = side
    <3>1. k \in Nat \ {0} /\ k + 1 \in Of(q, st, s) /\ Tail(q)[k] = q[k + 1]
      BY <1>1
    <3>2. ASSUME NEW n \in Of(q, st, s) PROVE k + 1 <= n
      <4>1. n - 1 \in Nat \ {0} /\ k <= n - 1
        BY <1>3, <1>5, <2>2
      <4> QED BY <4>1, <3>1, <1>2
    <3> QED BY <3>1, <3>2 DEF FirstIs
  <2> QED BY <2>1, <2>2, <1>5 DEF FirstIs
<1> QED BY <1>4, <1>5

LEMMA PendingType ==
  ASSUME TInv
  PROVE  /\ Pending \in Seq(Signal)
         /\ signalQueue # <<>> => Pending # <<>> /\ Pending[1] = sig_block
                                  /\ DOMAIN Pending = 1 .. Len(Pending)
<1>1. /\ signalQueue \in Seq(Signal) /\ (pcP = "push" => signal \in Signal)
      /\ sig_block = Head(signalQueue)
  BY DEF TInv, TypeOK, sig_block
<1>2. CASE pcP = "push"
  BY <1>1, <1>2 DEF Pending
<1>3. CASE pcP # "push"
  BY <1>1, <1>3 DEF Pending
<1> QED BY <1>2, <1>3

LEMMA InitPInv == Init => PInv
<1> SUFFICES ASSUME Init PROVE PInv
  OBVIOUS
<1>1. \A st, s : Of(Pending, st, s) = {}
  BY DEF Init, Of, Pending
<1>2. \A st \in Strategies, s \in Symbols : Orders(st, s) = {}
  BY DEF Init, Orders, Places
<1>3. PositionInv
  BY <1>1, <1>2 DEF PositionInv, Alternate, LastIs
<1> QED BY <1>3, InitTInv DEF PInv

(* A decision is for the other side than the one before it.                *)
LEMMA DecidePInv ==
  ASSUME PInv, NEW st \in Strategies, NEW s \in Symbols, NEW price \in Prices,
         Decide(st, s, price)
  PROVE  PositionInv'
<1> DEFINE side == IF pointType[st][s] = 1 THEN SELL ELSE BUY
<1>1. /\ pcP = "run" /\ pcP' = "push"
      /\ signal' = [strategyId |-> st, symbol |-> s, side |-> side, price |-> price]
      /\ pointType' = [pointType EXCEPT ![st][s] = side]
      /\ UNCHANGED <<signalQueue, strategyOrders, pcO>>
  BY DEF Decide, orders
<1>2. /\ side \in {BUY, SELL} /\ side # pointType[st][s]
      /\ (pointType[st][s] = BUY => side = SELL)
  BY DEF BUY, SELL
<1> HIDE DEF side
<1>3. /\ signal' \in Signal /\ signal'.strategyId = st /\ signal'.symbol = s
      /\ signal'.side = side
  BY <1>1, <1>2 DEF Signal
<1>4. Pending = signalQueue /\ Pending \in Seq(Signal) /\ Pending' = Append(Pending, signal')
  BY <1>1, PendingType DEF Pending, PInv
<1>5. pointType'[st][s] = side
      /\ \A t \in Strategies, r \in Symbols :
           ~(t = st /\ r = s) => pointType'[t][r] = pointType[t][r]
  BY <1>1 DEF PInv, TInv, TypeOK
<1> SUFFICES ASSUME NEW t \in Strategies, NEW r \in Symbols
             PROVE  /\ Alternate(Pending, t, r)'
                    /\ LastIs(Pending, t, r, pointType[t][r])'
                    /\ (\A n, m \in Orders(t, r) : n = m)'
                    /\ (Orders(t, r) # {} =>
                         /\ Of(Pending, t, r) = {} => pointType[t][r] = BUY
                         /\ FirstIs(Pending, t, r, IF IsServed(t, r) THEN BUY ELSE SELL))'
  BY DEF PositionInv
<1>6. /\ Alternate(Pending, t, r) /\ LastIs(Pending, t, r, pointType[t][r])
      /\ \A n, m \in Orders(t, r) : n = m
      /\ Orders(t, r) # {} =>
           /\ Of(Pending, t, r) = {} => pointType[t][r] = BUY
           /\ FirstIs(Pending, t, r, IF IsServed(t, r) THEN BUY ELSE SELL)
  BY DEF PInv, PositionInv
<1>7. Orders(t, r)' = Orders(t, r) /\ (IsServed(t, r)' <=> IsServed(t, r))
  BY <1>1 DEF Orders, Places, IsServed, sig_block
<1>8. CASE t = st /\ r = s
  <2>1. /\ Alternate(Pending', t, r) /\ LastIs(Pending', t, r, side)
        /\ Of(Pending', t, r) = Of(Pending, t, r) \union {Len(Pending) + 1}
    BY <1>2, <1>3, <1>4, <1>6, <1>8, AppendAlternates
  <2>2. ASSUME Orders(t, r) # {}
        PROVE  FirstIs(Pending', t, r, IF IsServed(t, r) THEN BUY ELSE SELL)
    <3>1. /\ \A k \in Of(Pending, t, r) : k \in Int /\ k < Len(Pending) + 1 /\ Pending'[k] = Pending[k]
          /\ Pending'[Len(Pending) + 1].side = side
      BY <1>3, <1>4 DEF Of
    <3>2. CASE Of(Pending, t, r) = {}
      <4>1. ~IsServed(t, r)
        <5> SUFFICES ASSUME IsServed(t, r) PROVE FALSE
          OBVIOUS
        <5>1. signalQueue # <<>>
          BY DEF IsServed, PInv, TInv, ServeInv
        <5>2. 1 \in Of(Pending, t, r)
          BY <5>1, PendingType DEF Of, IsServed, PInv
        <5> QED BY <5>2, <3>2
      <4>2. side = SELL
        BY <2>2, <3>2, <1>2, <1>6, <1>8
      <4> QED BY <4>1, <4>2, <3>1, <3>2, <2>1 DEF FirstIs
    <3>3. CASE Of(Pending, t, r) # {}
      <4> SUFFICES ASSUME NEW k \in Of(Pending', t, r),
                          \A n \in Of(Pending', t, r) : k <= n
                   PROVE  Pending'[k].side = IF IsServed(t, r) THEN BUY ELSE SELL
        BY DEF FirstIs
      <4>1. k \in Of(Pending, t, r)
        BY <2>1, <3>1, <3>3
      <4> QED BY <4>1, <2>1, <2>2, <3>1, <1>6 DEF FirstIs
    <3> QED BY <3>2, <3>3
  <2> QED BY <2>1, <2>2, <1>5, <1>6, <1>7, <1>8
<1>9. CASE ~(t = st /\ r = s)
  <2>1. /\ Alternate(Pending', t, r) /\ LastIs(Pending', t, r, pointType[t][r])
        /\ Of(Pending', t, r) = Of(Pending, t, r)
    BY <1>3, <1>4, <1>6, <1>9, AppendAlternates
  <2>2. \A k \in Of(Pending, t, r) : Pending'[k] = Pending[k]
    BY <1>3, <1>4 DEF Of
  <2> QED BY <2>1, <2>2, <1>5, <1>6, <1>7, <1>9 DEF FirstIs
<1> QED BY <1>8, <1>9

(* Steps that change neither the signals nor the book.                     *)
LEMMA SamePInv ==
  ASSUME PInv, Pending' = Pending, UNCHANGED <<pointType, strategyOrders>>,
         \A st \in Strategies, s \in Symbols :
           Orders(st, s) # {} => (IsServed(st, s)' <=> IsServed(st, s))
  PROVE  PositionInv'
<1> SUFFICES ASSUME NEW t \in Strategies, NEW r \in Symbols
             PROVE  /\ Alternate(Pending, t, r)'
                    /\ LastIs(Pending, t, r, pointType[t][r])'
                    /\ (\A n, m \in Orders(t, r) : n = m)'
                    /\ (Orders(t, r) # {} =>
                         /\ Of(Pending, t, r) = {} => pointType[t][r] = BUY
                         /\ FirstIs(Pending, t, r, IF IsServed(t, r) THEN BUY ELSE SELL))'
  BY DEF PositionInv
<1>1. Orders(t, r)' = Orders(t, r)
  BY DEF Orders
<1> QED BY <1>1 DEF PInv, PositionInv

LEMMA QuietPInv ==
  ASSUME PInv, PushSignal \/ Lock \/ ServeSell \/ SleepAndUnlock
  PROVE  PositionInv'
<1>1. Pending' = Pending
  BY DEF PushSignal, Lock, ServeSell, SleepAndUnlock, Pending, producer
<1>2. UNCHANGED <<pointType, strategyOrders>>
  BY DEF PushSignal, Lock, ServeSell, SleepAndUnlock, producer, orders
<1>3. pcO # "pop" /\ pcO' # "pop"
  BY DEF PInv, TInv, TypeOK, PushSignal, Lock, ServeSell, SleepAndUnlock
<1> QED BY <1>1, <1>2, <1>3, SamePInv DEF IsServed

(* A buy is served for a position there is none of.                        *)
LEMMA BuyOfNothing ==
  ASSUME PInv, pcO \in {"serve", "buy"}, sig_block.side = BUY
  PROVE  Orders(sig_block.strategyId, sig_block.symbol) = {}
<1> DEFINE st == sig_block.strategyId
           s == sig_block.symbol
<1>1. st \in Strategies /\ s \in Symbols /\ signalQueue # <<>>
  BY Served DEF PInv
<1>2. 1 \in Of(Pending, st, s) /\ Pending[1] = sig_block
  BY <1>1, PendingType DEF PInv, Of
<1>3. \A n \in Of(Pending, st, s) : 1 <= n
  BY PendingType DEF PInv, Of
<1>4. ~IsServed(st, s)
  BY DEF IsServed
<1>5. Orders(st, s) # {} => FirstIs(Pending, st, s, SELL)
  BY <1>1, <1>4 DEF PInv, PositionInv
<1> QED BY <1>2, <1>3, <1>5 DEF FirstIs, BUY, SELL

LEMMA ServeBuyPInv == PInv /\ ServeBuy => PositionInv'
<1> SUFFICES ASSUME PInv, ServeBuy PROVE PositionInv'
  OBVIOUS
<1>1. Pending' = Pending /\ UNCHANGED <<pointType, strategyOrders, signalQueue>>
  BY DEF ServeBuy, Pending, producer, orders
<1>2. Orders(sig_block.strategyId, sig_block.symbol) = {}
  BY BuyOfNothing DEF ServeBuy
<1>3. pcO # "pop" /\ sig_block' = sig_block
  BY <1>1 DEF ServeBuy, sig_block
<1> QED BY <1>1, <1>2, <1>3, SamePInv DEF IsServed

(* The order that is booked is the only one of its position.               *)
LEMMA BuyPInv ==
  ASSUME PInv, NEW result, StrategyBuySignal(result)
  PROVE  PositionInv'
<1> DEFINE st == sig_block.strategyId
           s == sig_block.symbol
           order == [symbol |-> sig_block.symbol, oriPrice |-> sig_block.price,
                     totalQty |-> result.exe, commissionQty |-> result.comm]
<1>1. /\ pcO = "buy" /\ pcO' = "pop" /\ UNCHANGED <<signalQueue, producer>>
      /\ strategyOrders' = IF result.ret
                           THEN [strategyOrders EXCEPT ![st] = Append(@, order)]
                           ELSE strategyOrders
  BY DEF StrategyBuySignal
<1>2. Pending' = Pending /\ UNCHANGED pointType /\ sig_block' = sig_block
  BY <1>1 DEF Pending, producer, sig_block
<1>3. /\ st \in Strategies /\ s \in Symbols /\ strategyOrders[st] \in Seq(OrderBlock)
      /\ signalQueue # <<>> /\ sig_block.side = BUY /\ order.symbol = s
  BY <1>1, Served DEF PInv, TInv, ServeInv
<1>4. Orders(st, s) = {}
  BY <1>1, <1>3, BuyOfNothing
<1> HIDE DEF order
<1> SUFFICES ASSUME NEW t \in Strategies, NEW r \in Symbols
             PROVE  /\ Alternate(Pending, t, r)'
                    /\ LastIs(Pending, t, r, pointType[t][r])'
                    /\ (\A n, m \in Orders(t, r) : n = m)'
                    /\ (Orders(t, r) # {} =>
                         /\ Of(Pending, t, r) = {} => pointType[t][r] = BUY
                         /\ FirstIs(Pending, t, r, IF IsServed(t, r) THEN BUY ELSE SELL))'
  BY DEF PositionInv
<1>5. /\ Alternate(Pending, t, r) /\ LastIs(Pending, t, r, pointType[t][r])
      /\ \A n, m \in Orders(t, r) : n = m
      /\ Orders(t, r) # {} =>
           /\ Of(Pending, t, r) = {} => pointType[t][r] = BUY
           /\ FirstIs(Pending, t, r, IF IsServed(t, r) THEN BUY ELSE SELL)
  BY DEF PInv, PositionInv
<1>6. CASE t = st /\ r = s
  <2>1. Orders(t, r)' \subseteq {Len(strategyOrders[st]) + 1}
    <3>1. CASE result.ret
      <4>1. strategyOrders'[t] = Append(strategyOrders[t], order)
        BY <3>1, <1>1, <1>6 DEF PInv, TInv, TypeOK
      <4>2. /\ DOMAIN strategyOrders'[t] = 1 .. Len(strategyOrders[t]) + 1
            /\ \A n \in DOMAIN strategyOrders[t] : strategyOrders'[t][n] = strategyOrders[t][n]
            /\ DOMAIN strategyOrders[t] = 1 .. Len(strategyOrders[t])
            /\ Len(strategyOrders[t]) \in Nat
        BY <4>1, <1>3, <1>6
      <4> QED BY <4>2, <1>4, <1>6 DEF Orders, Places
    <3>2. CASE ~result.ret
      BY <3>2, <1>1, <1>4, <1>6 DEF Orders
    <3> QED BY <3>1, <3>2
  <2>2. IsServed(t, r)'
    BY <1>1, <1>2, <1>6 DEF IsServed
  <2>3. 1 \in Of(Pending, t, r) /\ Pending[1].side = BUY
        /\ \A n \in Of(Pending, t, r) : n \in Nat \ {0}
    BY <1>3, <1>6, PendingType DEF PInv, Of
  <2>4. FirstIs(Pending, t, r, BUY)
    BY <2>3 DEF FirstIs
  <2> QED BY <2>1, <2>2, <2>3, <2>4, <1>2, <1>5
<1>7. CASE ~(t = st /\ r = s)
  <2>1. Orders(t, r)' = Orders(t, r)
    <3>1. CASE t # st \/ ~result.ret
      <4>1. strategyOrders'[t] = strategyOrders[t]
        BY <3>1, <1>1 DEF PInv, TInv, TypeOK
      <4> QED BY <4>1 DEF Orders, Places
    <3>2. CASE t = st /\ r # s /\ result.ret
      <4>1. strategyOrders'[t] = Append(strategyOrders[t], order)
        BY <3>2, <1>1 DEF PInv, TInv, TypeOK
      <4>2. /\ DOMAIN strategyOrders'[t] = 1 .. Len(strategyOrders[t]) + 1
            /\ \A n \in DOMAIN strategyOrders[t] : strategyOrders'[t][n] = strategyOrders[t][n]
            /\ strategyOrders'[t][Len(strategyOrders[t]) + 1] = order
            /\ DOMAIN strategyOrders[t] = 1 .. Len(strategyOrders[t])
            /\ Len(strategyOrders[t]) \in Nat
        BY <4>1, <1>3, <3>2
      <4> QED BY <4>2, <1>3, <3>2 DEF Orders, Places
    <3> QED BY <3>1, <3>2, <1>7
  <2>2. ~IsServed(t, r)' /\ ~IsServed(t, r)
    BY <1>1, <1>2, <1>7 DEF IsServed
  <2> QED BY <2>1, <2>2, <1>2, <1>5
<1> QED BY <1>6, <1>7

(* A sale takes its order out of the book, and leaves the others.          *)
LEMMA ErasedPlaces ==
  ASSUME NEW open \in Seq(OrderBlock), NEW s \in Symbols,
         \A r \in Symbols : \A n, m \in Places(open, r) : n = m
  PROVE  /\ Places(EraseFirst(open, s), s) = {}
         /\ \A r \in Symbols \ {s} :
              /\ \A n, m \in Places(EraseFirst(open, s), r) : n = m
              /\ Places(EraseFirst(open, s), r) # {} <=> Places(open, r) # {}
<1>1. CASE Places(open, s) = {}
  BY <1>1 DEF EraseFirst
<1>2. CASE Places(open, s) # {}
  <2>1. PICK at \in Places(open, s) :
          /\ at \in 1 .. Len(open)
          /\ EraseFirst(open, s) \in Seq(OrderBlock)
          /\ Len(EraseFirst(open, s)) = Len(open) - 1
          /\ \A n \in 1 .. Len(open) - 1 :
               EraseFirst(open, s)[n] = open[IF n < at THEN n ELSE n + 1]
    BY <1>2, Erased
  <2> DEFINE From(n) == IF n < at THEN n ELSE n + 1
  <2>2. \A n \in DOMAIN EraseFirst(open, s) :
          /\ From(n) \in DOMAIN open \ {at} /\ EraseFirst(open, s)[n] = open[From(n)]
          /\ n \in Int
    <3>1. DOMAIN EraseFirst(open, s) = 1 .. Len(open) - 1 /\ DOMAIN open = 1 .. Len(open)
          /\ Len(open) \in Nat
      BY <2>1
    <3>2. \A n \in 1 .. Len(open) - 1 : From(n) \in 1 .. Len(open) /\ From(n) # at
      BY <2>1, <3>1
    <3> QED BY <2>1, <3>1, <3>2
  <2>3. \A n, m \in Int : From(n) = From(m) => n = m
    BY <2>1
  <2>7. \A r \in Symbols \ {s} : Places(open, r) # {} => Places(EraseFirst(open, s), r) # {}
    <3> SUFFICES ASSUME NEW r \in Symbols \ {s}, NEW m \in Places(open, r)
                 PROVE  \E n : n \in Places(EraseFirst(open, s), r)
      BY Zenon
    <3> DEFINE n == IF m < at THEN m ELSE m - 1
    <3>1. m \in 1 .. Len(open) /\ m # at /\ open[m].symbol = r /\ Len(open) \in Nat
      BY <2>1 DEF Places
    <3>2. n \in 1 .. Len(open) - 1 /\ From(n) = m
      BY <2>1, <3>1
    <3> HIDE DEF n
    <3>3. DOMAIN EraseFirst(open, s) = 1 .. Len(open) - 1
      BY <2>1, <3>1
    <3> QED BY <2>2, <3>1, <3>2, <3>3 DEF Places
  <2> HIDE DEF From
  <2>4. \A r \in Symbols : \A n \in Places(EraseFirst(open, s), r) :
          n \in Int /\ From(n) \in Places(open, r) \ {at}
    BY <2>2 DEF Places
  <2>5. Places(EraseFirst(open, s), s) = {}
    <3> SUFFICES ASSUME NEW n \in Places(EraseFirst(open, s), s) PROVE FALSE
      OBVIOUS
    <3>1. From(n) \in Places(open, s) /\ From(n) # at
      BY <2>4
    <3> QED BY <3>1, <2>1
  <2>6. \A r \in Symbols : \A n, m \in Places(EraseFirst(open, s), r) : n = m
    BY <2>3, <2>4
  <2> QED BY <2>4, <2>5, <2>6, <2>7
<1> QED BY <1>1, <1>2

LEMMA SellPInv ==
  ASSUME PInv, NEW result, StrategySellSignal(result)
  PROVE  PositionInv'
<1> DEFINE st == sig_block.strategyId
           s == sig_block.symbol
<1>1. /\ pcO = "sell" /\ Order(SELL, qty, result) /\ UNCHANGED <<signalQueue, producer>>
      /\ IF result.exe = 0
         THEN UNCHANGED <<strategyOrders, pcO>>
         ELSE /\ strategyOrders' =
                   IF result.ret THEN [strategyOrders EXCEPT ![st] = EraseFirst(@, s)]
                   ELSE strategyOrders
              /\ pcO' = "pop"
  BY DEF StrategySellSignal
<1>2. Pending' = Pending /\ UNCHANGED pointType /\ sig_block' = sig_block
  BY <1>1 DEF Pending, producer, sig_block
<1>3. /\ st \in Strategies /\ s \in Symbols /\ strategyOrders[st] \in Seq(OrderBlock)
  BY <1>1, Served DEF PInv
<1>4. CASE result.exe = 0
  BY <1>1, <1>2, <1>4, SamePInv DEF IsServed
<1>5. CASE result.exe # 0
  <2>1. result.ret = TRUE
    BY <1>1, <1>5, OrderTypes DEF PInv, TInv, TypeOK, Answer
  <2>2. strategyOrders' = [strategyOrders EXCEPT ![st] = EraseFirst(@, s)] /\ pcO' = "pop"
    BY <1>1, <1>5, <2>1
  <2>3. \A r \in Symbols : \A n, m \in Places(strategyOrders[st], r) : n = m
    BY <1>3 DEF PInv, PositionInv, Orders
  <2> SUFFICES ASSUME NEW t \in Strategies, NEW r \in Symbols
               PROVE  /\ Alternate(Pending, t, r)'
                      /\ LastIs(Pending, t, r, pointType[t][r])'
                      /\ (\A n, m \in Orders(t, r) : n = m)'
                      /\ (Orders(t, r) # {} =>
                           /\ Of(Pending, t, r) = {} => pointType[t][r] = BUY
                           /\ FirstIs(Pending, t, r, IF IsServed(t, r) THEN BUY ELSE SELL))'
    BY DEF PositionInv
  <2>4. /\ Alternate(Pending, t, r) /\ LastIs(Pending, t, r, pointType[t][r])
        /\ \A n, m \in Orders(t, r) : n = m
        /\ Orders(t, r) # {} =>
             /\ Of(Pending, t, r) = {} => pointType[t][r] = BUY
             /\ FirstIs(Pending, t, r, IF IsServed(t, r) THEN BUY ELSE SELL)
    BY DEF PInv, PositionInv
  <2>5. CASE t = st /\ r = s
    <3>1. Orders(t, r)' = {}
      <4>1. strategyOrders'[t] = EraseFirst(strategyOrders[st], s)
        BY <2>2, <2>5, <1>3 DEF PInv, TInv, TypeOK
      <4> QED BY <4>1, <2>3, <2>5, <1>3, ErasedPlaces DEF Orders
    <3> QED BY <3>1, <2>4, <1>2
  <2>6. CASE ~(t = st /\ r = s)
    <3>1. /\ (\A n, m \in Orders(t, r) : n = m)'
          /\ Orders(t, r)' # {} => Orders(t, r) # {}
      <4>1. CASE t = st
        <5>1. strategyOrders'[t] = EraseFirst(strategyOrders[st], s)
          BY <2>2, <4>1, <1>3 DEF PInv, TInv, TypeOK
        <5> QED BY <5>1, <4>1, <2>3, <2>6, <1>3, ErasedPlaces DEF Orders
      <4>2. CASE t # st
        <5>1. strategyOrders'[t] = strategyOrders[t]
          BY <2>2, <4>2 DEF PInv, TInv, TypeOK
        <5> QED BY <5>1, <2>4 DEF Orders
      <4> QED BY <4>1, <4>2
    <3>2. ~IsServed(t, r)' /\ ~IsServed(t, r)
      BY <2>6, <1>1, <1>2 DEF IsServed
    <3> QED BY <3>1, <3>2, <2>4, <1>2
  <2> QED BY <2>5, <2>6
<1> QED BY <1>4, <1>5

(* When a signal is popped the next of its position is for the other side. *)
LEMMA PopPInv == PInv /\ Pop => PositionInv'
<1> SUFFICES ASSUME PInv, Pop PROVE PositionInv'
  OBVIOUS
<1>1. /\ pcO = "pop" /\ pcO' = "sleep" /\ signalQueue' = Tail(signalQueue)
      /\ UNCHANGED <<strategyOrders, producer, pointType>>
  BY DEF Pop, orders, producer
<1>2. /\ signalQueue # <<>> /\ signalQueue \in Seq(Signal) /\ (pcP = "push" => signal \in Signal)
      /\ Pending \in Seq(Signal) /\ Pending # <<>> /\ Pending[1] = sig_block
      /\ DOMAIN Pending = 1 .. Len(Pending) /\ sig_block.side \in {BUY, SELL}
  BY <1>1, Served, PendingType DEF PInv, TInv, TypeOK
<1>3. Pending' = Tail(Pending)
  <2>1. \A x \in Signal : Tail(Append(signalQueue, x)) = Append(Tail(signalQueue), x)
    BY <1>2
  <2> QED BY <1>1, <1>2, <2>1 DEF Pending, producer
<1> SUFFICES ASSUME NEW t \in Strategies, NEW r \in Symbols
             PROVE  /\ Alternate(Pending, t, r)'
                    /\ LastIs(Pending, t, r, pointType[t][r])'
                    /\ (\A n, m \in Orders(t, r) : n = m)'
                    /\ (Orders(t, r) # {} =>
                         /\ Of(Pending, t, r) = {} => pointType[t][r] = BUY
                         /\ FirstIs(Pending, t, r, IF IsServed(t, r) THEN BUY ELSE SELL))'
  BY DEF PositionInv
<1>4. /\ Alternate(Pending, t, r) /\ LastIs(Pending, t, r, pointType[t][r])
      /\ \A n, m \in Orders(t, r) : n = m
      /\ Orders(t, r) # {} =>
           /\ Of(Pending, t, r) = {} => pointType[t][r] = BUY
           /\ FirstIs(Pending, t, r, IF IsServed(t, r) THEN BUY ELSE SELL)
  BY DEF PInv, PositionInv
<1>5. Alternate(Pending', t, r) /\ LastIs(Pending', t, r, pointType[t][r])
  <2>1. Alternate(Tail(Pending), t, r) /\ LastIs(Tail(Pending), t, r, pointType[t][r])
    BY <1>2, <1>4, TailAlternates, ZenonT(60)
  <2> QED BY <2>1, <1>3
<1>6. ~IsServed(t, r)' /\ Orders(t, r)' = Orders(t, r)
  BY <1>1 DEF IsServed, Orders
<1>7. 1 \in Of(Pending, t, r) <=> IsServed(t, r)
  BY <1>1, <1>2 DEF Of, IsServed
<1>8. ASSUME Orders(t, r) # {}
      PROVE  /\ Of(Pending', t, r) = {} => pointType[t][r] = BUY
             /\ FirstIs(Pending', t, r, SELL)
  <2> DEFINE side == IF IsServed(t, r) THEN BUY ELSE SELL
             last == pointType[t][r]
  <2>1. FirstIs(Pending, t, r, side) /\ side \in {BUY, SELL} /\ LastIs(Pending, t, r, last)
    BY <1>4, <1>8
  <2> HIDE DEF side, last
  <2>2. IF 1 \in Of(Pending, t, r)
        THEN /\ Of(Pending', t, r) = {} => last = side
             /\ FirstIs(Pending', t, r, Other(side))
        ELSE /\ Of(Pending', t, r) = {} => Of(Pending, t, r) = {}
             /\ FirstIs(Pending', t, r, side)
    BY <2>1, <1>2, <1>3, <1>4, TailTurns
  <2> QED BY <2>2, <1>4, <1>7, <1>8 DEF side, last, Other, BUY, SELL
<1> QED BY <1>1, <1>4, <1>5, <1>6, <1>8

LEMMA StepPInv == PInv /\ [Next]_vars => PInv'
<1> SUFFICES ASSUME PInv, [Next]_vars PROVE PositionInv'
  BY StepTInv DEF PInv
<1>1. CASE UNCHANGED vars
  <2>1. Pending' = Pending /\ UNCHANGED <<pointType, strategyOrders, pcO, signalQueue>>
    BY <1>1 DEF vars, orders, producer, Pending
  <2> QED BY <2>1, SamePInv DEF IsServed, sig_block
<1>2. CASE OrderManagerRun
  <2>1. (pcO = "buy" /\ BuyOrder => PositionInv') /\ (pcO = "sell" /\ SellOrder => PositionInv')
    BY BuyPInv, SellPInv DEF BuyOrder, SellOrder
  <2> QED BY <1>2, <2>1, QuietPInv, ServeBuyPInv, PopPInv DEF OrderManagerRun
<1> QED BY <1>1, <1>2, DecidePInv, QuietPInv DEF Next

LEMMA Positions == Spec => []PInv
<1> QED BY InitPInv, StepPInv, PTL DEF Spec

(* A strategy has at most one order of a symbol in the book, so that the    *)
(* last one, whose quantity is sold, is the first one, which is erased      *)
(* (OrderManager.cpp:161-165, 185-192); and none that it does not hold      *)
(* once its signals are served: for any strategies, symbols and filters,    *)
(* however far the strategies are ahead, and whatever the exchange answers. *)
THEOREM OneOrder == Spec => []OneOrderPerPosition
<1>1. PInv => OneOrderPerPosition
  <2> SUFFICES ASSUME PInv, NEW st \in Strategies, NEW s \in Symbols
               PROVE  /\ \A n, m \in Orders(st, s) : n = m
                      /\ Quiet /\ Orders(st, s) # {} => pointType[st][s] = BUY
    BY DEF OneOrderPerPosition
  <2>1. Quiet => Of(Pending, st, s) = {}
    BY DEF Quiet, Pending, Of
  <2> QED BY <2>1 DEF PInv, PositionInv
<1> QED BY <1>1, Positions, PTL
-----------------------------------------------------------------------------
(* What a sale sells, and what the book is worth.                          *)

(* A position is a whole number of steps before its commission, a sale      *)
(* never tries more than the position, and it has sold nothing as long as   *)
(* no answer was lost.                                                     *)
SaleInv ==
  /\ \A st \in Strategies : \A n \in DOMAIN strategyOrders[st] :
       \E k \in Nat : strategyOrders[st][n].totalQty = STEP * k
  /\ pcO = "sell" =>
       /\ LostSale \/ sold = 0
       /\ LET st == sig_block.strategyId   s == sig_block.symbol IN
            IF Orders(st, s) = {} THEN qty = 0 ELSE qty <= Newest(st, s).totalQty

SInv == TInv /\ SaleInv

LEMMA WholeSteps ==
  ASSUME NEW amount \in Nat, NEW n \in Executions(amount)
  PROVE  \E k \in Nat : n = STEP * k
<1>1. n \in Nat /\ n % STEP = 0
  BY OrderQtyInt DEF Executions
<1>2. STEP \in Nat \ {0}
  BY TraderAssumption DEF TraderAssumption
<1>3. n \div STEP \in Nat /\ n = STEP * (n \div STEP)
  BY <1>1, <1>2, Z3
<1> QED BY <1>3

(* Rounding to the nearest step does not pass a whole number of steps.     *)
LEMMA RoundsWithin ==
  ASSUME NEW q \in Nat, NEW k \in Nat, q <= STEP * k
  PROVE  OrderQty(q) <= STEP * k
<1> DEFINE h == STEP \div 2
           d == (q + h) \div STEP
<1>1. STEP \in Nat \ {0}
  BY TraderAssumption DEF TraderAssumption
<1>2. h \in Nat /\ h < STEP
  BY <1>1
<1> HIDE DEF h
<1>3. d \in Nat /\ STEP * d <= q + h
  BY <1>1, <1>2
<1> HIDE DEF d
<1>4. STEP * k \in Nat /\ STEP * d \in Nat
  BY <1>1, <1>3
<1>5. d <= k
  <2> SUFFICES ASSUME d >= k + 1 PROVE FALSE
    BY <1>3
  <2>1. STEP * d >= STEP * (k + 1)
    BY <1>1, <1>3
  <2>2. STEP * (k + 1) = STEP * k + STEP
    BY <1>1
  <2> QED BY <2>1, <2>2, <1>1, <1>2, <1>3, <1>4
<1>6. STEP * d <= STEP * k
  BY <1>1, <1>3, <1>5
<1> QED BY <1>6 DEF OrderQty, d, h

(* What an order that was filled did.                                    *)
LEMMA BuyFills ==
  ASSUME NEW amount \in Nat, NEW f, f \in Buys(amount)
  PROVE  \E k \in Nat \ {0} : f.exe = STEP * k /\ f.moved = f.exe - f.comm
<1>1. PICK n \in Executions(amount), comm \in {0, 1} :
        f = [ret |-> TRUE, exe |-> n, comm |-> comm, moved |-> n - comm,
             fault |-> Part(n, amount)]
  BY DEF Buys, Result
<1>2. PICK k \in Nat : n = STEP * k
  BY WholeSteps
<1>3. n # 0
  BY OrderQtyInt DEF Executions
<1>4. k # 0
  BY <1>2, <1>3, TraderAssumption DEF TraderAssumption
<1> QED BY <1>1, <1>2, <1>4

LEMMA SellFills ==
  ASSUME NEW amount \in Nat, NEW f \in Sells(amount)
  PROVE  -f.moved <= OrderQty(amount) /\ f.exe # 0
<1>1. PICK n \in Executions(amount) :
        f = [ret |-> TRUE, exe |-> n, comm |-> 0, moved |-> -n, fault |-> Part(n, amount)]
  <2>1. f \in Sells(amount)
    OBVIOUS
  <2> QED BY <2>1 DEF Sells, Result
<1>2. n \in Nat \ {0} /\ n <= OrderQty(amount)
  BY OrderQtyInt DEF Executions
<1> QED BY <1>1, <1>2

(* What is bought comes in whole steps, whatever the answer says.          *)
LEMMA BuysWholeSteps ==
  ASSUME NEW price \in Nat, NEW amount \in Nat, NEW held \in Nat,
         NEW r \in InsertOrder(BUY, price, amount, held)
  PROVE  \E k \in Nat : r.exe = STEP * k
<1>1. 0 = STEP * 0
  BY TraderAssumption DEF TraderAssumption
<1>2. \/ r \in {NotSent, Refused, Failed, Rejected} \/ r \in Buys(amount)
      \/ \E ret \in BOOLEAN, f \in Buys(amount) : r = Result(ret, 0, 0, f.moved, "lost")
  BY LostAnswer, Zenon DEF InsertOrder, BUY
<1>3. CASE r \in {NotSent, Refused, Failed, Rejected}
  <2>1. r.exe = 0
    BY <1>3 DEF NotSent, Refused, Failed, Rejected, Result
  <2> QED BY <2>1, <1>1
<1>4. CASE r \in Buys(amount)
  BY <1>4, BuyFills
<1>5. ASSUME NEW f \in Buys(amount), NEW ret \in BOOLEAN, r = Result(ret, 0, 0, f.moved, "lost")
      PROVE  r.exe = 0
  BY <1>5 DEF Result
<1> QED BY <1>1, <1>2, <1>3, <1>4, <1>5

(* A sale takes no more than its quantity, rounded, out of the account,     *)
(* nothing when its quantity is zero, and nothing without an answer that    *)
(* says so, unless the answer is lost.                                     *)
LEMMA SellsWithin ==
  ASSUME NEW price \in Nat, NEW amount \in Nat, NEW held \in Nat,
         NEW r \in InsertOrder(SELL, price, amount, held)
  PROVE  /\ r.exe = 0 => r.moved = 0 \/ r.fault = "lost"
         /\ r.moved = 0 \/ (-r.moved <= OrderQty(amount) /\ amount # 0)
<1>1. CASE r \in {NotSent, Refused, Failed, Rejected}
  <2>1. r.moved = 0
    BY <1>1 DEF NotSent, Refused, Failed, Rejected, Result
  <2> QED BY <2>1, Zenon
<1>2. CASE r \notin {NotSent, Refused, Failed, Rejected}
  <2>1. PassesFilter(price, amount)
    BY <1>2, Zenon DEF InsertOrder
  <2>2. amount # 0
    BY <2>1, TraderAssumption DEF PassesFilter, TraderAssumption
  <2>3. SELL # 1
    BY DEF SELL
  <2>4. r \in Sells(amount) \/ r \in Lost(Sells(amount))
    BY <1>2, <2>3, Zenon DEF InsertOrder
  <2>5. CASE r \in Sells(amount)
    BY <2>2, <2>5, SellFills
  <2>6. CASE r \in Lost(Sells(amount))
    <3>1. PICK f \in Sells(amount), ret \in BOOLEAN : r = Result(ret, 0, 0, f.moved, "lost")
      BY <2>6 DEF Lost
    <3>2. r.fault = "lost" /\ r.moved = f.moved
      BY <3>1 DEF Result
    <3>3. -f.moved <= OrderQty(amount)
      BY SellFills
    <3> QED BY <3>2, <3>3, <2>2
  <2> QED BY <2>4, <2>5, <2>6
<1> QED BY <1>1, <1>2

LEMMA InitSaleInv == Init => SaleInv
BY DEF Init, SaleInv

(* The strategies, and the steps of Run that leave the book and the sale.  *)
LEMMA SameSale ==
  ASSUME SInv, UNCHANGED <<strategyOrders, faults>>,
         \/ pcO' # "sell"
         \/ UNCHANGED <<pcO, qty, sold>> /\ sig_block' = sig_block
  PROVE  SaleInv'
<1>1. \A st \in Strategies : \A n \in DOMAIN strategyOrders'[st] :
        \E k \in Nat : strategyOrders'[st][n].totalQty = STEP * k
  BY DEF SInv, SaleInv
<1>2. CASE pcO' # "sell"
  BY <1>1, <1>2 DEF SaleInv
<1>3. CASE UNCHANGED <<pcO, qty, sold>> /\ sig_block' = sig_block
  BY <1>1, <1>3 DEF SInv, SaleInv, Orders, Newest, LostSale
<1> QED BY <1>2, <1>3

LEMMA QuietSaleInv ==
  ASSUME SInv,
         \/ \E st \in Strategies, s \in Symbols, price \in Prices : Decide(st, s, price)
         \/ PushSignal \/ Lock \/ ServeBuy \/ Pop \/ SleepAndUnlock
         \/ UNCHANGED vars
  PROVE  SaleInv'
<1>1. UNCHANGED <<strategyOrders, faults>>
  BY DEF Decide, PushSignal, Lock, ServeBuy, Pop, SleepAndUnlock, vars, orders, account
<1>2. CASE Lock \/ ServeBuy \/ Pop \/ SleepAndUnlock
  <2>1. pcO' # "sell"
    BY <1>2 DEF Lock, ServeBuy, Pop, SleepAndUnlock
  <2> QED BY <1>1, <2>1, SameSale
<1>3. CASE PushSignal
  <2>1. UNCHANGED <<pcO, qty, sold>> /\ signalQueue' = Append(signalQueue, signal)
    BY <1>3 DEF PushSignal, orders, account
  <2>2. CASE pcO = "sell"
    <3>1. signalQueue \in Seq(Signal) /\ signalQueue # <<>> /\ signal \in Signal
      BY <2>2, <1>3 DEF SInv, TInv, TypeOK, ServeInv, PushSignal
    <3>2. sig_block' = sig_block
      BY <3>1, <2>1 DEF sig_block
    <3> QED BY <1>1, <2>1, <3>2, SameSale
  <2> QED BY <1>1, <2>1, <2>2, SameSale
<1>4. CASE \/ \E st \in Strategies, s \in Symbols, price \in Prices : Decide(st, s, price)
           \/ UNCHANGED vars
  <2>1. UNCHANGED <<pcO, qty, sold>> /\ sig_block' = sig_block
    BY <1>4 DEF Decide, vars, orders, account, sig_block
  <2> QED BY <1>1, <2>1, SameSale
<1> QED BY <1>2, <1>3, <1>4

(* The order whose quantity is sold.                                       *)
LEMMA NewestInBook ==
  ASSUME SInv, NEW st \in Strategies, NEW s \in Symbols, Orders(st, s) # {}
  PROVE  /\ Newest(st, s).totalQty \in Nat /\ Newest(st, s).commissionQty \in Nat
         /\ Newest(st, s).commissionQty <= Newest(st, s).totalQty
         /\ \E k \in Nat : Newest(st, s).totalQty = STEP * k
<1>1. strategyOrders[st] \in Seq(OrderBlock)
  BY DEF SInv, TInv, TypeOK
<1>2. Max(Orders(st, s)) \in DOMAIN strategyOrders[st]
  <2>1. Orders(st, s) \subseteq 1 .. Len(strategyOrders[st]) /\ Len(strategyOrders[st]) \in Nat
    BY <1>1 DEF Orders, Places
  <2>2. Max(Orders(st, s)) \in Orders(st, s)
    BY <2>1, EndsOfBook
  <2> QED BY <2>1, <2>2, <1>1
<1>3. Newest(st, s) \in OrderBlock
  BY <1>1, <1>2 DEF Newest
<1> QED BY <1>2, <1>3 DEF Newest, OrderBlock, SInv, TInv, ServeInv, SaleInv

LEMMA ServeSellSaleInv == SInv /\ ServeSell => SaleInv'
<1> SUFFICES ASSUME SInv, ServeSell PROVE SaleInv'
  OBVIOUS
<1> DEFINE st == sig_block.strategyId
           s == sig_block.symbol
<1>1. /\ pcO = "serve" /\ sold' = 0
      /\ qty' = IF Orders(st, s) = {} THEN 0 ELSE Booked(Newest(st, s))
      /\ UNCHANGED <<signalQueue, strategyOrders>>
  BY DEF ServeSell
<1>2. st \in Strategies /\ s \in Symbols
  BY <1>1, Served DEF SInv
<1>3. Orders(st, s) # {} => Booked(Newest(st, s)) <= Newest(st, s).totalQty
  BY <1>2, NewestInBook DEF Booked
<1>4. IF Orders(st, s) = {} THEN qty' = 0 ELSE qty' <= Newest(st, s).totalQty
  BY <1>1, <1>3
<1> QED BY <1>1, <1>4 DEF SInv, SaleInv, sig_block, Orders, Newest

LEMMA BuySaleInv ==
  ASSUME SInv, NEW result, StrategyBuySignal(result)
  PROVE  SaleInv'
<1> DEFINE st == sig_block.strategyId
           order == [symbol |-> sig_block.symbol, oriPrice |-> sig_block.price,
                     totalQty |-> result.exe, commissionQty |-> result.comm]
<1>1. /\ pcO = "buy" /\ pcO' = "pop"
      /\ result \in InsertOrder(BUY, sig_block.price, unitCaptical \div sig_block.price,
                                stock[sig_block.symbol])
      /\ strategyOrders' = IF result.ret
                           THEN [strategyOrders EXCEPT ![st] = Append(@, order)]
                           ELSE strategyOrders
  BY DEF StrategyBuySignal, Order
<1>2. /\ st \in Strategies /\ strategyOrders[st] \in Seq(OrderBlock)
      /\ sig_block.price \in Nat \ {0} /\ stock[sig_block.symbol] \in Nat
  BY <1>1, Served DEF SInv
<1>3. unitCaptical \div sig_block.price \in Nat
  BY <1>2, OrderAssumption DEF OrderAssumption
<1>4. \E k \in Nat : order.totalQty = STEP * k
  BY <1>1, <1>2, <1>3, BuysWholeSteps
<1> HIDE DEF st, order
<1>5. ASSUME NEW t \in Strategies, NEW n \in DOMAIN strategyOrders'[t]
      PROVE  \E k \in Nat : strategyOrders'[t][n].totalQty = STEP * k
  <2>1. CASE t = st /\ result.ret
    <3>1. strategyOrders'[t] = Append(strategyOrders[st], order)
      BY <2>1, <1>1, <1>2 DEF SInv, TInv, TypeOK
    <3>2. n \in 1 .. Len(strategyOrders[st]) + 1
      BY <3>1, <1>2
    <3>3. \/ n \in DOMAIN strategyOrders[st] /\ strategyOrders'[t][n] = strategyOrders[st][n]
          \/ strategyOrders'[t][n] = order
      BY <3>1, <3>2, <1>2
    <3> QED BY <3>3, <1>2, <1>4 DEF SInv, SaleInv
  <2>2. CASE ~(t = st /\ result.ret)
    <3>1. strategyOrders'[t] = strategyOrders[t]
      BY <2>2, <1>1 DEF SInv, TInv, TypeOK
    <3> QED BY <3>1 DEF SInv, SaleInv
  <2> QED BY <2>1, <2>2
<1> QED BY <1>1, <1>5 DEF SaleInv

(* Every order that is left after an erasure was there before.             *)
LEMMA SellKeepsOrders ==
  ASSUME SInv, NEW st \in Strategies, NEW s \in Symbols,
         \/ UNCHANGED strategyOrders
         \/ strategyOrders' = [strategyOrders EXCEPT ![st] = EraseFirst(@, s)],
         NEW t \in Strategies, NEW n \in DOMAIN strategyOrders'[t]
  PROVE  \E m \in DOMAIN strategyOrders[t] : strategyOrders'[t][n] = strategyOrders[t][m]
<1>1. strategyOrders[st] \in Seq(OrderBlock) /\ strategyOrders \in [Strategies -> Seq(OrderBlock)]
  BY DEF SInv, TInv, TypeOK
<1>2. CASE strategyOrders'[t] = strategyOrders[t]
  BY <1>2
<1>3. CASE /\ t = st /\ Places(strategyOrders[st], s) # {}
           /\ strategyOrders' = [strategyOrders EXCEPT ![st] = EraseFirst(@, s)]
  <2>1. strategyOrders'[t] = EraseFirst(strategyOrders[st], s)
    BY <1>1, <1>3
  <2>2. PICK at \in Places(strategyOrders[st], s) :
          /\ at \in 1 .. Len(strategyOrders[st])
          /\ EraseFirst(strategyOrders[st], s) \in Seq(OrderBlock)
          /\ Len(EraseFirst(strategyOrders[st], s)) = Len(strategyOrders[st]) - 1
          /\ \A m \in 1 .. Len(strategyOrders[st]) - 1 :
               EraseFirst(strategyOrders[st], s)[m]
                 = strategyOrders[st][IF m < at THEN m ELSE m + 1]
    BY <1>1, <1>3, Erased
  <2>3. n \in 1 .. Len(strategyOrders[st]) - 1 /\ Len(strategyOrders[st]) \in Nat
    BY <2>1, <2>2, <1>1
  <2>4. (IF n < at THEN n ELSE n + 1) \in DOMAIN strategyOrders[st]
    BY <2>2, <2>3, <1>1
  <2> QED BY <1>3, <2>1, <2>2, <2>3, <2>4
<1>4. CASE t # st \/ Places(strategyOrders[st], s) = {} \/ UNCHANGED strategyOrders
  <2>1. strategyOrders'[t] = strategyOrders[t]
    BY <1>1, <1>4 DEF EraseFirst
  <2> QED BY <2>1
<1> QED BY <1>3, <1>4

(* A lost answer is remembered.                                            *)
LEMMA FaultsStay ==
  ASSUME SInv, pcO \in {"buy", "sell"}, NEW side \in {BUY, SELL}, NEW amount \in Nat,
         NEW result, Order(side, amount, result), LostSale
  PROVE  LostSale'
<1>1. faults \in Seq(Fault) /\ faults' \in Seq(Fault) /\ Len(faults) \in Nat
  BY OrderTypes DEF SInv, TInv, TypeOK
<1>2. PICK n \in DOMAIN faults : faults[n].side = SELL /\ faults[n].fault = "lost"
  BY DEF LostSale, ToSet
<1>3. faults' = faults \/ faults' = Append(faults, [side |-> side, fault |-> result.fault])
  BY DEF Order
<1>4. n \in DOMAIN faults' /\ faults'[n] = faults[n]
  <2>1. CASE faults' = faults
    BY <2>1
  <2>2. CASE faults' = Append(faults, [side |-> side, fault |-> result.fault])
    <3> DEFINE f == [side |-> side, fault |-> result.fault]
    <3>1. Len(faults') = Len(faults) + 1 /\ \A m \in 1 .. Len(faults) : faults'[m] = faults[m]
      <4> HIDE DEF f
      <4> QED BY <2>2, <1>1
    <3> QED BY <3>1, <1>1
  <2> QED BY <2>1, <2>2, <1>3
<1> QED BY <1>2, <1>4 DEF LostSale, ToSet

(* One pass of the loop.                                                   *)
LEMMA SellPass ==
  ASSUME SInv, NEW result, StrategySellSignal(result)
  PROVE  /\ pcO = "sell" /\ UNCHANGED signalQueue
         /\ result.fault = "lost" => LostSale'
         /\ LostSale => LostSale'
         /\ result.moved \in Int /\ sold' = sold - result.moved
         /\ result.exe = 0 => result.moved = 0 \/ result.fault = "lost"
         /\ result.moved = 0 \/ (-result.moved <= OrderQty(qty) /\ qty # 0)
<1>1. /\ pcO = "sell" /\ UNCHANGED signalQueue /\ Order(SELL, qty, result)
      /\ sold' = sold - result.moved
  BY DEF StrategySellSignal
<1>2. /\ sig_block.price \in Nat /\ stock[sig_block.symbol] \in Nat
      /\ faults \in Seq(Fault) /\ qty \in Nat
  BY <1>1, Served DEF SInv, TInv, TypeOK
<1>3. result \in InsertOrder(SELL, sig_block.price, qty, stock[sig_block.symbol])
  BY <1>1 DEF Order
<1>4. result.moved \in Int /\ (result.fault # "none" => [side |-> SELL, fault |-> result.fault] \in Fault)
  <2>1. result \in Answer
    BY <1>2, <1>3, AnswerTypes
  <2> QED BY <2>1 DEF Answer, Fault
<1>5. result.fault = "lost" => LostSale'
  <2>1. SUFFICES ASSUME result.fault = "lost" PROVE LostSale'
    OBVIOUS
  <2> DEFINE f == [side |-> SELL, fault |-> "lost"]
  <2>2. faults' = Append(faults, f) /\ f \in Fault
    BY <2>1, <1>1, <1>4 DEF Order
  <2>3. Len(faults) + 1 \in DOMAIN faults' /\ faults'[Len(faults) + 1] = f
    <3> HIDE DEF f
    <3> QED BY <2>2, <1>2
  <2> QED BY <2>3 DEF LostSale, ToSet
<1>6. LostSale => LostSale'
  <2>1. SELL \in {BUY, SELL}
    OBVIOUS
  <2> QED BY <1>1, <1>2, <2>1, FaultsStay
<1>7. /\ result.exe = 0 => result.moved = 0 \/ result.fault = "lost"
      /\ result.moved = 0 \/ (-result.moved <= OrderQty(qty) /\ qty # 0)
  BY <1>2, <1>3, SellsWithin
<1> QED BY <1>1, <1>4, <1>5, <1>6, <1>7

LEMMA SellSaleInv ==
  ASSUME SInv, NEW result, StrategySellSignal(result)
  PROVE  SaleInv'
<1> DEFINE st == sig_block.strategyId
           s == sig_block.symbol
<1>1. /\ pcO = "sell" /\ UNCHANGED signalQueue
      /\ IF result.exe = 0
         THEN /\ qty' = IF qty > 0 THEN qty - 1 ELSE 0
              /\ UNCHANGED <<strategyOrders, pcO>>
         ELSE /\ strategyOrders' =
                   IF result.ret THEN [strategyOrders EXCEPT ![st] = EraseFirst(@, s)]
                   ELSE strategyOrders
              /\ pcO' = "pop"
  BY DEF StrategySellSignal
<1>2. st \in Strategies /\ s \in Symbols /\ sig_block' = sig_block
  BY <1>1, Served DEF SInv, sig_block
<1>3. ASSUME NEW t \in Strategies, NEW n \in DOMAIN strategyOrders'[t]
      PROVE  \E k \in Nat : strategyOrders'[t][n].totalQty = STEP * k
  <2>1. \/ UNCHANGED strategyOrders
        \/ strategyOrders' = [strategyOrders EXCEPT ![st] = EraseFirst(@, s)]
    BY <1>1
  <2>2. \E m \in DOMAIN strategyOrders[t] : strategyOrders'[t][n] = strategyOrders[t][m]
    BY <1>2, <2>1, SellKeepsOrders
  <2> QED BY <2>2 DEF SInv, SaleInv
<1>4. CASE result.exe # 0
  BY <1>1, <1>3, <1>4 DEF SaleInv
<1>5. CASE result.exe = 0
  <2>1. LostSale' \/ sold' = 0
    BY <1>1, <1>5, SellPass DEF SInv, SaleInv
  <2>2. IF Orders(st, s) = {} THEN qty = 0 ELSE qty <= Newest(st, s).totalQty
    BY <1>1 DEF SInv, SaleInv
  <2>3. qty \in Nat /\ (Orders(st, s) # {} => Newest(st, s).totalQty \in Nat)
    BY <1>2, NewestInBook DEF SInv, TInv, TypeOK
  <2>4. IF Orders(st, s) = {} THEN qty' = 0 ELSE qty' <= Newest(st, s).totalQty
    BY <1>1, <1>5, <2>2, <2>3
  <2>5. strategyOrders' = strategyOrders
    BY <1>1, <1>5
  <2> QED BY <1>2, <1>3, <2>1, <2>4, <2>5 DEF SaleInv, Orders, Newest
<1> QED BY <1>4, <1>5

LEMMA StepSaleInv == SInv /\ [Next]_vars => SInv'
<1> SUFFICES ASSUME SInv, [Next]_vars PROVE SaleInv'
  BY StepTInv DEF SInv
<1>1. CASE OrderManagerRun
  <2>1. (pcO = "buy" /\ BuyOrder => SaleInv') /\ (pcO = "sell" /\ SellOrder => SaleInv')
    BY BuySaleInv, SellSaleInv DEF BuyOrder, SellOrder
  <2> QED BY <1>1, <2>1, QuietSaleInv, ServeSellSaleInv DEF OrderManagerRun
<1> QED BY <1>1, QuietSaleInv DEF Next

(* However often a sale is sent again, and although its quantity is rounded *)
(* up as well as down, it sells no more than its position was bought as,    *)
(* as long as no answer is lost (OrderManager.cpp:154-180): for any         *)
(* filters, any step of the exchange and any partial fill.                 *)
THEOREM SellsAtMost == Spec => SellsAtMostItsPosition
<1>1. ASSUME SInv, [Next]_vars, sold' > sold
      PROVE  \/ LostSale'
             \/ sold' <= Newest(sig_block.strategyId, sig_block.symbol).totalQty
  <2> DEFINE st == sig_block.strategyId
             s == sig_block.symbol
  <2>1. sold \in Nat
    BY <1>1 DEF SInv, TInv, TypeOK
  <2>2. PICK result : StrategySellSignal(result)
    <3>1. CASE UNCHANGED sold
      BY <1>1, <2>1, <3>1
    <3>2. CASE sold' = 0
      BY <1>1, <2>1, <3>2
    <3>3. CASE OrderManagerRun
      <4>1. pcO = "buy" /\ BuyOrder => UNCHANGED sold
        BY DEF BuyOrder, StrategyBuySignal
      <4>2. Lock \/ ServeBuy \/ SleepAndUnlock => UNCHANGED sold
        BY DEF Lock, ServeBuy, SleepAndUnlock, account
      <4>3. ServeSell \/ Pop => sold' = 0
        BY DEF ServeSell, Pop
      <4> QED BY <3>1, <3>2, <3>3, <4>1, <4>2, <4>3 DEF OrderManagerRun, SellOrder
    <3>4. CASE ~OrderManagerRun
      <4>1. UNCHANGED sold
        BY <1>1, <3>4 DEF Next, Decide, PushSignal, vars, account
      <4> QED BY <4>1, <3>1
    <3> QED BY <3>3, <3>4
  <2>3. /\ pcO = "sell" /\ (LostSale => LostSale') /\ (result.fault = "lost" => LostSale')
        /\ result.moved \in Int /\ sold' = sold - result.moved
        /\ result.moved = 0 \/ (-result.moved <= OrderQty(qty) /\ qty # 0)
    BY <1>1, <2>2, SellPass
  <2>4. -result.moved <= OrderQty(qty) /\ qty # 0
    BY <1>1, <2>1, <2>3
  <2>5. st \in Strategies /\ s \in Symbols /\ qty \in Nat
    BY <1>1, <2>3, Served DEF SInv, TInv, TypeOK
  <2>6. LostSale \/ sold = 0
    BY <1>1, <2>3 DEF SInv, SaleInv
  <2>7. Orders(st, s) # {} /\ qty <= Newest(st, s).totalQty
    BY <1>1, <2>3, <2>4 DEF SInv, SaleInv
  <2>8. PICK k \in Nat : Newest(st, s).totalQty = STEP * k
    BY <1>1, <2>5, <2>7, NewestInBook
  <2>9. OrderQty(qty) <= Newest(st, s).totalQty
    BY <2>5, <2>7, <2>8, RoundsWithin
  <2>10. OrderQty(qty) \in Int /\ Newest(st, s).totalQty \in Nat
    BY <1>1, <2>5, <2>7, NewestInBook, OrderQtyInt
  <2> QED BY <2>3, <2>4, <2>6, <2>9, <2>10
<1>2. Init => SInv
  BY InitTInv, InitSaleInv DEF SInv
<1>3. SInv /\ [Next]_vars
        => [ sold' > sold =>
               \/ LostSale'
               \/ sold' <= Newest(sig_block.strategyId, sig_block.symbol).totalQty ]_vars
  BY <1>1
<1> QED BY <1>2, <1>3, StepSaleInv, PTL DEF Spec, SellsAtMostItsPosition
-----------------------------------------------------------------------------
(* The book is covered by the account.                                     *)

BackInv ==
  \A st \in Strategies : \A n \in DOMAIN strategyOrders[st] :
    LostSale \/ Booked(strategyOrders[st][n]) <= stock[strategyOrders[st][n].symbol]

BInv == PInv /\ SInv /\ BackInv

LEMMA BuyMoves ==
  ASSUME NEW price \in Nat, NEW amount \in Nat, NEW held \in Nat,
         NEW r, r \in InsertOrder(BUY, price, amount, held)
  PROVE  r.moved \in Nat /\ r.exe - r.comm <= r.moved
<1>1. \/ r \in {NotSent, Refused, Failed, Rejected} \/ r \in Buys(amount)
      \/ \E ret \in BOOLEAN, f \in Buys(amount) : r = Result(ret, 0, 0, f.moved, "lost")
  BY LostAnswer, Zenon DEF InsertOrder, BUY
<1>2. CASE r \in {NotSent, Refused, Failed, Rejected}
  <2>1. r.exe = 0 /\ r.comm = 0 /\ r.moved = 0
    BY <1>2 DEF NotSent, Refused, Failed, Rejected, Result
  <2> QED BY <2>1
<1>3. \A f : f \in Buys(amount) => f.moved \in Nat /\ f.moved = f.exe - f.comm
  <2> SUFFICES ASSUME NEW f, f \in Buys(amount)
               PROVE  f.moved \in Nat /\ f.moved = f.exe - f.comm
    OBVIOUS
  <2>1. f \in Answer /\ f.moved >= 0
    BY FillTypes
  <2>2. f.moved = f.exe - f.comm
    BY BuyFills
  <2> QED BY <2>1, <2>2 DEF Answer
<1>4. ASSUME NEW f \in Buys(amount), NEW ret \in BOOLEAN, r = Result(ret, 0, 0, f.moved, "lost")
      PROVE  r.moved \in Nat /\ r.exe - r.comm <= r.moved
  <2>1. r.moved = f.moved /\ r.exe = 0 /\ r.comm = 0
    BY <1>4 DEF Result
  <2> QED BY <2>1, <1>3
<1> QED BY <1>1, <1>2, <1>3, <1>4

LEMMA InitBInv == Init => BInv
BY InitPInv, InitTInv, InitSaleInv DEF PInv, SInv, BInv, BackInv, Init

LEMMA BuyBackInv ==
  ASSUME BInv, NEW result, StrategyBuySignal(result)
  PROVE  BackInv'
<1> DEFINE st == sig_block.strategyId
           s == sig_block.symbol
           order == [symbol |-> sig_block.symbol, oriPrice |-> sig_block.price,
                     totalQty |-> result.exe, commissionQty |-> result.comm]
<1>1. /\ pcO = "buy" /\ Order(BUY, unitCaptical \div sig_block.price, result)
      /\ strategyOrders' = IF result.ret
                           THEN [strategyOrders EXCEPT ![st] = Append(@, order)]
                           ELSE strategyOrders
  BY DEF StrategyBuySignal
<1>2. /\ st \in Strategies /\ strategyOrders[st] \in Seq(OrderBlock) /\ s \in Symbols
      /\ stock[s] \in Nat /\ stock \in [Symbols -> Nat]
      /\ strategyOrders \in [Strategies -> Seq(OrderBlock)]
  BY <1>1, Served DEF BInv, SInv, TInv, TypeOK
<1>3. sig_block.price \in Nat /\ unitCaptical \div sig_block.price \in Nat
  <2>1. sig_block.price \in Nat \ {0}
    BY <1>1, Served DEF BInv, SInv
  <2> QED BY <2>1, OrderAssumption DEF OrderAssumption
<1>4. result.moved \in Nat /\ result.exe - result.comm <= result.moved
  <2>1. result \in InsertOrder(BUY, sig_block.price, unitCaptical \div sig_block.price, stock[s])
    BY <1>1 DEF Order
  <2> DEFINE price  == sig_block.price
             amount == unitCaptical \div sig_block.price
             held   == stock[s]
  <2>2. price \in Nat /\ amount \in Nat /\ held \in Nat
    BY <1>2, <1>3
  <2>3. result \in InsertOrder(BUY, price, amount, held)
    BY <2>1
  <2> HIDE DEF price, amount, held
  <2> QED BY <2>2, <2>3, BuyMoves, ZenonT(60)
<1>5. result.ret \in BOOLEAN /\ result.exe \in Int /\ result.comm \in Int
  BY <1>1, <1>3, OrderTypes DEF BInv, SInv, Answer
<1>6. stock' = [stock EXCEPT ![s] = @ + result.moved]
  BY <1>1 DEF Order
<1>7. \A r \in Symbols : stock'[r] \in Nat /\ stock'[r] >= stock[r]
  BY <1>2, <1>4, <1>6
<1>8. result.ret = TRUE => Booked(order) <= stock'[order.symbol]
  <2>1. Booked(order) = result.exe - result.comm /\ order.symbol = s
    BY DEF Booked
  <2>2. stock'[s] = stock[s] + result.moved
    BY <1>2, <1>6
  <2> QED BY <2>1, <2>2, <1>2, <1>4, <1>5
<1>9. LostSale => LostSale'
  BY <1>1, <1>3, FaultsStay DEF BInv
<1> SUFFICES ASSUME NEW t \in Strategies, NEW n \in DOMAIN strategyOrders'[t], ~LostSale'
             PROVE  Booked(strategyOrders'[t][n]) <= stock'[strategyOrders'[t][n].symbol]
  BY DEF BackInv, Booked
<1>10. \A m \in DOMAIN strategyOrders[t] :
         /\ strategyOrders[t][m] \in OrderBlock
         /\ Booked(strategyOrders[t][m]) <= stock[strategyOrders[t][m].symbol]
  BY <1>2, <1>9 DEF BInv, BackInv
<1>11. \A m \in DOMAIN strategyOrders[t] :
         Booked(strategyOrders[t][m]) <= stock'[strategyOrders[t][m].symbol]
  <2> SUFFICES ASSUME NEW m \in DOMAIN strategyOrders[t]
               PROVE  Booked(strategyOrders[t][m]) <= stock'[strategyOrders[t][m].symbol]
    OBVIOUS
  <2>1. Booked(strategyOrders[t][m]) \in Int /\ strategyOrders[t][m].symbol \in Symbols
    BY <1>10 DEF OrderBlock, Booked
  <2>2. stock[strategyOrders[t][m].symbol] \in Nat
    BY <2>1, <1>2
  <2> QED BY <2>1, <2>2, <1>7, <1>10
<1> HIDE DEF st, order
<1>12. CASE t = st /\ result.ret = TRUE
  <2>1. strategyOrders'[t] = Append(strategyOrders[st], order)
    BY <1>12, <1>1, <1>2
  <2>2. n \in 1 .. Len(strategyOrders[st]) + 1
    BY <2>1, <1>2
  <2>3. \/ n \in DOMAIN strategyOrders[st] /\ strategyOrders'[t][n] = strategyOrders[st][n]
        \/ strategyOrders'[t][n] = order
    BY <2>1, <2>2, <1>2
  <2> QED BY <2>3, <1>8, <1>11, <1>12
<1>13. CASE ~(t = st /\ result.ret = TRUE)
  <2>1. strategyOrders'[t] = strategyOrders[t]
    BY <1>13, <1>1, <1>2, <1>5
  <2> QED BY <2>1, <1>11
<1> QED BY <1>12, <1>13

LEMMA SellBackInv ==
  ASSUME \A a, b \in Strategies : a = b,
         BInv, NEW result, StrategySellSignal(result)
  PROVE  BackInv'
<1> DEFINE st == sig_block.strategyId
           s == sig_block.symbol
<1>1. /\ pcO = "sell" /\ Order(SELL, qty, result) /\ UNCHANGED signalQueue
      /\ IF result.exe = 0
         THEN UNCHANGED strategyOrders
         ELSE strategyOrders' = IF result.ret
                                THEN [strategyOrders EXCEPT ![st] = EraseFirst(@, s)]
                                ELSE strategyOrders
  BY DEF StrategySellSignal
<1>2. /\ st \in Strategies /\ strategyOrders[st] \in Seq(OrderBlock) /\ s \in Symbols
      /\ stock \in [Symbols -> Nat] /\ strategyOrders \in [Strategies -> Seq(OrderBlock)]
  BY <1>1, Served DEF BInv, SInv, TInv, TypeOK
<1>3. stock' = [stock EXCEPT ![s] = @ + result.moved]
  BY <1>1 DEF Order
<1>4. /\ LostSale => LostSale'
      /\ result.exe = 0 => result.moved = 0 \/ LostSale'
  BY SellPass DEF BInv
<1> SUFFICES ASSUME NEW t \in Strategies, NEW n \in DOMAIN strategyOrders'[t], ~LostSale'
             PROVE  Booked(strategyOrders'[t][n]) <= stock'[strategyOrders'[t][n].symbol]
  BY DEF BackInv, Booked
<1>5. \A m \in DOMAIN strategyOrders[t] :
        /\ strategyOrders[t][m].symbol \in Symbols
        /\ Booked(strategyOrders[t][m]) <= stock[strategyOrders[t][m].symbol]
  <2>1. ~LostSale
    BY <1>4
  <2>2. \A m \in DOMAIN strategyOrders[t] : strategyOrders[t][m] \in OrderBlock
    BY <1>2
  <2> QED BY <2>1, <2>2 DEF BInv, BackInv, OrderBlock
<1>6. CASE result.exe = 0
  <2>1. stock' = stock
    BY <1>2, <1>3, <1>4, <1>6
  <2> QED BY <1>1, <1>5, <1>6, <2>1
<1>7. CASE result.exe # 0
  <2>1. result.ret = TRUE
    <3>1. result \in Answer /\ (result.exe # 0 => result.ret)
      BY <1>1, OrderTypes DEF BInv, SInv, TInv, TypeOK
    <3> QED BY <3>1, <1>7 DEF Answer
  <2>2. strategyOrders' = [strategyOrders EXCEPT ![st] = EraseFirst(@, s)] /\ t = st
    BY <1>1, <1>2, <1>7, <2>1
  <2>3. PICK m \in DOMAIN strategyOrders[t] : strategyOrders'[t][n] = strategyOrders[t][m]
    BY <1>2, <2>2, SellKeepsOrders DEF BInv
  <2>4. Places(strategyOrders'[t], s) = {}
    <3>1. \A r \in Symbols : \A j, k \in Places(strategyOrders[st], r) : j = k
      BY <1>2 DEF BInv, PInv, PositionInv, Orders
    <3>2. strategyOrders'[t] = EraseFirst(strategyOrders[st], s)
      BY <1>2, <2>2
    <3> QED BY <1>2, <3>1, <3>2, ErasedPlaces
  <2>5. strategyOrders'[t][n].symbol # s
    BY <2>4 DEF Places
  <2>6. stock'[strategyOrders[t][m].symbol] = stock[strategyOrders[t][m].symbol]
    BY <1>2, <1>3, <1>5, <2>3, <2>5
  <2> QED BY <1>5, <2>3, <2>6
<1> QED BY <1>6, <1>7

LEMMA StepBInv ==
  ASSUME \A a, b \in Strategies : a = b, BInv, [Next]_vars
  PROVE  BInv'
<1>1. PInv' /\ SInv'
  BY StepPInv, StepSaleInv DEF BInv
<1>2. BackInv'
  <2>1. CASE UNCHANGED <<strategyOrders, stock, faults>>
    BY <2>1 DEF BInv, BackInv, LostSale, Booked
  <2>2. CASE pcO = "buy" /\ BuyOrder
    BY <2>2, BuyBackInv DEF BuyOrder
  <2>3. CASE pcO = "sell" /\ SellOrder
    BY <2>3, SellBackInv DEF SellOrder
  <2>4. CASE UNCHANGED vars \/ PushSignal \/ Lock \/ ServeBuy \/ ServeSell \/ Pop \/ SleepAndUnlock
    BY <2>1, <2>4 DEF vars, PushSignal, Lock, ServeBuy, ServeSell, Pop, SleepAndUnlock,
                      orders, account
  <2>5. CASE \E st \in Strategies, s \in Symbols, price \in Prices : Decide(st, s, price)
    BY <2>1, <2>5 DEF Decide, orders, account
  <2> QED BY <2>2, <2>3, <2>4, <2>5 DEF Next, OrderManagerRun
<1> QED BY <1>1, <1>2 DEF BInv

(* What the book of a strategy says it holds is in the account as long as   *)
(* no answer to a sale is lost, for any filters and symbols, when a single  *)
(* strategy trades, as at this commit (BiQTP.cpp:200-210): a sale that is  *)
(* rounded up may take coins that are booked to another strategy.          *)
THEOREM BookIsBacked ==
  ASSUME \A a, b \in Strategies : a = b
  PROVE  Spec => []BookBacked
<1>1. Init => BInv
  BY InitBInv
<1>2. BInv /\ [Next]_vars => BInv'
  BY StepBInv
<1>3. BInv => BookBacked
  BY DEF BInv, BackInv, BookBacked, ToSet
<1> QED BY <1>1, <1>2, <1>3, PTL DEF Spec
-----------------------------------------------------------------------------
(* As long as nothing goes wrong no sale gets stuck.                        *)

(* Without a fault every position is a whole buy less its commission, and   *)
(* an order is missing in the book only where the next signal is a buy.    *)
WholeInv ==
  \A st \in Strategies : \A n \in DOMAIN strategyOrders[st] :
    /\ strategyOrders[st][n].commissionQty <= 1
    /\ \E price \in Prices : strategyOrders[st][n].totalQty = Bought(price)

HeldInv ==
  \A st \in Strategies, s \in Symbols : Orders(st, s) = {} =>
    /\ Of(Pending, st, s) = {} => pointType[st][s] # BUY
    /\ FirstIs(Pending, st, s, IF IsServed(st, s) THEN SELL ELSE BUY)

FaultlessInv == faults = <<>> => WholeInv /\ HeldInv /\ ~Stuck

NInv == BInv /\ orderCnt <= 0 /\ FaultlessInv

LEMMA Quotient ==
  ASSUME NEW d \in Nat, NEW r \in Nat, r < STEP, NEW x \in Nat, x = STEP * d + r
  PROVE  x \div STEP = d
BY TraderAssumption DEF TraderAssumption

(* Constants fit when a buy is of two steps or more and what is just not    *)
(* rounded up to it, one step less when it is sent, passes the filters too. *)
LEMMA OneStepLessFits ==
  ASSUME totalCaptical > 0,
         \A price \in Prices :
           PassesFilter(price, unitCaptical \div price) /\ Bought(price) >= 2 * STEP,
         \A price, later \in Prices :
           PassesFilter(later, Bought(price) - STEP \div 2 - 1)
  PROVE  SaleFits
<1>1. STEP \in Nat \ {0}
  BY TraderAssumption DEF TraderAssumption
<1> DEFINE h == STEP \div 2
<1>2. h \in Nat /\ h < STEP
  BY <1>1
<1>3. ASSUME NEW price \in Prices
      PROVE  LET q == Bought(price) - h - 1 IN
               /\ Bought(price) > 0 /\ q \in 0 .. Bought(price) - 1
               /\ OrderQty(q) \in 1 .. Bought(price) - 1
  <2> DEFINE k == (unitCaptical \div price + h) \div STEP
             q == Bought(price) - h - 1
             d == (q + h) \div STEP
  <2> HIDE DEF h
  <2>1. price \in Nat \ {0} /\ unitCaptical \in Nat
    BY OrderAssumption DEF OrderAssumption
  <2>2. unitCaptical \div price \in Nat
    BY <2>1
  <2>3. k \in Nat
    BY <1>1, <1>2, <2>2
  <2>4. Bought(price) = STEP * k /\ OrderQty(q) = STEP * d
    BY DEF Bought, OrderQty, h
  <2> HIDE DEF k
  <2>5. STEP * k \in Nat /\ STEP * k >= 2 * STEP
    BY <1>1, <2>3, <2>4
  <2>6. q = STEP * k - h - 1 /\ q \in Nat /\ q + h = STEP * k - 1 /\ q <= STEP * k - 1
    BY <1>1, <1>2, <2>4, <2>5
  <2> HIDE DEF q
  <2>7. STEP * k - 1 = STEP * (k - 1) + (STEP - 1) /\ k # 0
    BY <1>1, <2>3, <2>5
  <2>8. d = k - 1
    BY <1>1, <2>3, <2>6, <2>7, Quotient
  <2>9. STEP * d = STEP * k - STEP
    BY <2>8, <2>3, <1>1
  <2> QED BY <2>4, <2>5, <2>6, <2>9, <1>1 DEF q
<1>4. ASSUME NEW price \in Prices, NEW later \in Prices
      PROVE  \E q \in 0 .. Bought(price) - 1 :
               PassesFilter(later, q) /\ OrderQty(q) \in 1 .. Bought(price) - 1
  BY <1>3
<1> QED BY <1>3, <1>4 DEF SaleFits

LEMMA InitNInv == SaleFits /\ Init => NInv
<1> SUFFICES ASSUME Init PROVE NInv
  OBVIOUS
<1>1. /\ orderCnt = 0 /\ pcO = "lock" /\ \A st \in Strategies : strategyOrders[st] = <<>>
      /\ signalQueue = <<>> /\ pcP = "run"
      /\ \A st \in Strategies, s \in Symbols : pointType[st][s] = 0
  BY DEF Init
<1>2. \A st, s : Of(Pending, st, s) = {}
  BY <1>1 DEF Pending, Of
<1>3. WholeInv /\ HeldInv /\ ~Stuck
  BY <1>1, <1>2 DEF WholeInv, HeldInv, FirstIs, Stuck, BUY
<1> QED BY <1>1, <1>3, InitBInv DEF NInv, FaultlessInv

(* A fault is never forgotten, and an order that is none leaves no trace.   *)
LEMMA NoFault ==
  ASSUME TInv, pcO \in {"buy", "sell"}, NEW side \in {BUY, SELL}, NEW amount \in Nat,
         NEW result, Order(side, amount, result), faults' = <<>>
  PROVE  result.fault = "none" /\ faults = <<>>
<1> DEFINE f == [side |-> side, fault |-> result.fault]
<1>1. faults \in Seq(Fault) /\ result \in Answer
  BY OrderTypes DEF TInv, TypeOK
<1>2. result.fault # "none" => f \in Fault
  BY <1>1 DEF Answer, Fault
<1>3. faults' = IF result.fault = "none" THEN faults ELSE Append(faults, f)
  BY DEF Order
<1> HIDE DEF f
<1> QED BY <1>1, <1>2, <1>3

(* An order that the filters pass and the exchange can cover is filled.     *)
LEMMA Filled ==
  ASSUME NEW side, NEW price, NEW amount, NEW held, NEW r,
         PassesFilter(price, amount), Covered(side, amount, held),
         r \in InsertOrder(side, price, amount, held), r.fault = "none"
  PROVE  r \in IF side = 1 THEN Buys(amount) ELSE Sells(amount)
<1> DEFINE fills == IF side = 1 THEN Buys(amount) ELSE Sells(amount)
<1>1. r \in {Failed, Rejected} \union fills \union Lost(fills)
  BY Zenon DEF InsertOrder
<1>2. r \notin {Failed, Rejected}
  BY DEF Failed, Rejected, Result
<1>3. r \notin Lost(fills)
  <2> HIDE DEF fills
  <2> SUFFICES ASSUME r \in Lost(fills) PROVE FALSE
    OBVIOUS
  <2>1. PICK f \in fills, ret \in BOOLEAN : r = Result(ret, 0, 0, f.moved, "lost")
    BY DEF Lost
  <2> QED BY <2>1 DEF Result
<1> HIDE DEF fills
<1>4. r \in fills
  BY <1>1, <1>2, <1>3
<1> QED BY <1>4 DEF fills

LEMMA BuyFilled ==
  ASSUME NEW price, NEW amount \in Nat, NEW held, NEW r,
         PassesFilter(price, amount), OrderQty(amount) > 0,
         r \in InsertOrder(BUY, price, amount, held), r.fault = "none"
  PROVE  r.ret = TRUE /\ r.exe = OrderQty(amount) /\ r.comm \in {0, 1}
<1>1. Covered(BUY, amount, held)
  BY DEF Covered, BUY
<1>2. r \in Buys(amount)
  BY <1>1, Filled DEF BUY
<1>3. PICK n \in Executions(amount), comm \in {0, 1} :
        r = [ret |-> TRUE, exe |-> n, comm |-> comm, moved |-> n - comm,
             fault |-> Part(n, amount)]
  BY <1>2 DEF Buys, Result
<1>4. n = OrderQty(amount)
  BY <1>3 DEF Part
<1> QED BY <1>3, <1>4

LEMMA SellFilled ==
  ASSUME NEW price, NEW amount \in Nat, NEW held, NEW r,
         PassesFilter(price, amount), Covered(SELL, amount, held),
         r \in InsertOrder(SELL, price, amount, held), r.fault = "none"
  PROVE  r.exe # 0
<1>1. r \in Sells(amount)
  BY Filled DEF SELL
<1> QED BY <1>1, SellFills

(* Steps that change neither the signals nor the book, nor begin a sale.    *)
LEMMA SameNInv ==
  ASSUME NInv, BInv', Pending' = Pending,
         UNCHANGED <<pointType, strategyOrders, orderCnt, stock, faults>>,
         \/ pcO # "pop" /\ pcO' \notin {"pop", "sell"}
         \/ UNCHANGED <<pcO, qty>> /\ sig_block' = sig_block
  PROVE  NInv'
<1> SUFFICES ASSUME faults = <<>> PROVE WholeInv' /\ HeldInv' /\ ~Stuck'
  BY DEF NInv, FaultlessInv
<1>1. WholeInv /\ HeldInv /\ ~Stuck
  BY DEF NInv, FaultlessInv
<1>2. WholeInv'
  BY <1>1 DEF WholeInv
<1>3. HeldInv'
  <2> SUFFICES ASSUME NEW st \in Strategies, NEW s \in Symbols, Orders(st, s)' = {}
               PROVE  /\ Of(Pending', st, s) = {} => pointType'[st][s] # BUY
                      /\ FirstIs(Pending', st, s, IF IsServed(st, s)' THEN SELL ELSE BUY)
    BY DEF HeldInv
  <2>1. Orders(st, s) = {} /\ (IsServed(st, s)' <=> IsServed(st, s))
    BY DEF Orders, IsServed
  <2> QED BY <2>1, <1>1 DEF HeldInv
<1>4. ~Stuck'
  BY <1>1 DEF Stuck
<1> QED BY <1>2, <1>3, <1>4

LEMMA QuietNInv ==
  ASSUME NInv, BInv', PushSignal \/ Lock \/ SleepAndUnlock \/ UNCHANGED vars
  PROVE  NInv'
<1>1. Pending' = Pending
  BY DEF PushSignal, Lock, SleepAndUnlock, Pending, producer, vars
<1>2. UNCHANGED <<pointType, strategyOrders, orderCnt, stock, faults>>
  BY DEF PushSignal, Lock, SleepAndUnlock, vars, producer, orders, account
<1>3. CASE UNCHANGED vars
  <2>1. UNCHANGED <<pcO, qty>> /\ sig_block' = sig_block
    BY <1>3 DEF vars, orders, sig_block
  <2> QED BY <1>1, <1>2, <2>1, SameNInv
<1>4. CASE PushSignal \/ Lock \/ SleepAndUnlock
  <2>1. pcO # "pop" /\ pcO' \notin {"pop", "sell"}
    BY <1>4 DEF PushSignal, Lock, SleepAndUnlock, NInv, BInv, PInv, TInv, TypeOK
  <2> QED BY <1>1, <1>2, <2>1, SameNInv
<1> QED BY <1>3, <1>4

(* There is always capital for a buy: the count of orders never grows.      *)
LEMMA ServeBuyNInv ==
  ASSUME SaleFits, NInv, BInv', ServeBuy
  PROVE  NInv'
<1>1. pcO = "serve" /\ Pending' = Pending
      /\ UNCHANGED <<pointType, strategyOrders, orderCnt, stock, faults>>
  BY DEF ServeBuy, Pending, producer, orders, account
<1>2. unitCaptical * orderCnt < totalCaptical
  <2>1. unitCaptical \in Nat /\ totalCaptical \in Nat /\ totalCaptical > 0
        /\ orderCnt \in Int /\ orderCnt <= 0
    BY OrderAssumption DEF OrderAssumption, SaleFits, NInv, BInv, PInv, TInv, TypeOK
  <2>2. -orderCnt \in Nat /\ unitCaptical * (-orderCnt) \in Nat
    BY <2>1
  <2>3. unitCaptical * (-orderCnt) = -(unitCaptical * orderCnt)
    BY <2>1
  <2>4. unitCaptical * orderCnt \in Int
    BY <2>1
  <2> QED BY <2>1, <2>2, <2>3, <2>4
<1>3. pcO' = "buy"
  BY <1>2 DEF ServeBuy
<1> QED BY <1>1, <1>3, SameNInv

(* What is decided where no order is missing is a buy.                      *)
LEMMA DecideNInv ==
  ASSUME NInv, BInv', NEW st \in Strategies, NEW s \in Symbols, NEW price \in Prices,
         Decide(st, s, price)
  PROVE  NInv'
<1> DEFINE side == IF pointType[st][s] = 1 THEN SELL ELSE BUY
<1>1. /\ pcP = "run" /\ pcP' = "push"
      /\ signal' = [strategyId |-> st, symbol |-> s, side |-> side, price |-> price]
      /\ pointType' = [pointType EXCEPT ![st][s] = side]
      /\ UNCHANGED <<signalQueue, strategyOrders, orderCnt, qty, pcO, stock, faults>>
  BY DEF Decide, orders, account
<1>2. side \in {BUY, SELL} /\ (pointType[st][s] # BUY => side = BUY)
  BY DEF BUY, SELL
<1> HIDE DEF side
<1>3. /\ signal' \in Signal /\ signal'.strategyId = st /\ signal'.symbol = s
      /\ signal'.side = side
  BY <1>1, <1>2 DEF Signal
<1>4. Pending = signalQueue /\ Pending \in Seq(Signal) /\ Pending' = Append(Pending, signal')
  BY <1>1, PendingType DEF Pending, NInv, BInv, PInv
<1>5. /\ \A k \in DOMAIN Pending : k \in Int /\ k < Len(Pending) + 1 /\ Pending'[k] = Pending[k]
      /\ DOMAIN Pending' = DOMAIN Pending \union {Len(Pending) + 1}
      /\ Pending'[Len(Pending) + 1] = signal'
  BY <1>3, <1>4
<1>6. \A t, r : IsServed(t, r)' <=> IsServed(t, r)
  BY <1>1 DEF IsServed, sig_block
<1> SUFFICES ASSUME faults = <<>> PROVE WholeInv' /\ HeldInv' /\ ~Stuck'
  BY <1>1 DEF NInv, FaultlessInv
<1>7. WholeInv /\ HeldInv /\ ~Stuck
  BY DEF NInv, FaultlessInv
<1>8. WholeInv' /\ ~Stuck'
  BY <1>1, <1>7 DEF WholeInv, Stuck, sig_block
<1>9. HeldInv'
  <2> SUFFICES ASSUME NEW t \in Strategies, NEW r \in Symbols, Orders(t, r) = {}
               PROVE  /\ Of(Pending', t, r) = {} => pointType'[t][r] # BUY
                      /\ FirstIs(Pending', t, r, IF IsServed(t, r) THEN SELL ELSE BUY)
    BY <1>1, <1>6 DEF HeldInv, Orders
  <2>1. /\ Of(Pending, t, r) = {} => pointType[t][r] # BUY
        /\ FirstIs(Pending, t, r, IF IsServed(t, r) THEN SELL ELSE BUY)
    BY <1>7 DEF HeldInv
  <2>2. CASE ~(t = st /\ r = s)
    <3>1. Of(Pending', t, r) = Of(Pending, t, r)
      BY <2>2, <1>3, <1>5 DEF Of
    <3>2. pointType'[t][r] = pointType[t][r]
      BY <2>2, <1>1 DEF NInv, BInv, PInv, TInv, TypeOK
    <3>3. \A k \in Of(Pending, t, r) : Pending'[k] = Pending[k]
      BY <1>5 DEF Of
    <3> QED BY <3>1, <3>2, <3>3, <2>1 DEF FirstIs
  <2>3. CASE t = st /\ r = s
    <3>1. Of(Pending', t, r) = Of(Pending, t, r) \union {Len(Pending) + 1}
      BY <2>3, <1>3, <1>5 DEF Of
    <3>2. CASE Of(Pending, t, r) = {}
      <4>1. ~IsServed(t, r)
        <5> SUFFICES ASSUME IsServed(t, r) PROVE FALSE
          OBVIOUS
        <5>1. signalQueue # <<>>
          BY DEF IsServed, NInv, BInv, PInv, TInv, ServeInv
        <5>2. 1 \in Of(Pending, t, r)
          BY <5>1, PendingType DEF Of, IsServed, NInv, BInv, PInv
        <5> QED BY <5>2, <3>2
      <4>2. side = BUY
        BY <2>1, <2>3, <3>2, <1>2
      <4> QED BY <4>1, <4>2, <3>1, <3>2, <1>3, <1>5 DEF FirstIs
    <3>3. CASE Of(Pending, t, r) # {}
      <4> SUFFICES ASSUME NEW k \in Of(Pending', t, r), \A n \in Of(Pending', t, r) : k <= n
                   PROVE  Pending'[k].side = IF IsServed(t, r) THEN SELL ELSE BUY
        BY <3>1 DEF FirstIs
      <4>1. \A n \in Of(Pending, t, r) : n \in Int /\ n < Len(Pending) + 1 /\ Pending'[n] = Pending[n]
        BY <1>5 DEF Of
      <4>2. k \in Of(Pending, t, r)
        BY <4>1, <3>1, <3>3, <1>4
      <4> QED BY <4>1, <4>2, <3>1, <2>1 DEF FirstIs
    <3> QED BY <3>2, <3>3
  <2> QED BY <2>2, <2>3
<1> QED BY <1>8, <1>9

(* A signal that is popped leaves the other side as the next.               *)
LEMMA PopNInv ==
  ASSUME NInv, BInv', Pop
  PROVE  NInv'
<1>1. /\ pcO = "pop" /\ pcO' = "sleep" /\ signalQueue' = Tail(signalQueue)
      /\ UNCHANGED <<strategyOrders, orderCnt, pcP, signal, pointType, faults>>
  BY DEF Pop, orders, producer
<1>2. /\ signalQueue # <<>> /\ signalQueue \in Seq(Signal) /\ (pcP = "push" => signal \in Signal)
      /\ Pending \in Seq(Signal) /\ Pending # <<>> /\ Pending[1] = sig_block
      /\ DOMAIN Pending = 1 .. Len(Pending)
  BY <1>1, Served, PendingType DEF NInv, BInv, PInv, TInv, TypeOK
<1>3. Pending' = Tail(Pending)
  <2>1. \A x \in Signal : Tail(Append(signalQueue, x)) = Append(Tail(signalQueue), x)
    BY <1>2
  <2> QED BY <1>1, <1>2, <2>1 DEF Pending
<1> SUFFICES ASSUME faults = <<>> PROVE WholeInv' /\ HeldInv' /\ ~Stuck'
  BY <1>1 DEF NInv, FaultlessInv
<1>4. WholeInv /\ HeldInv
  BY DEF NInv, FaultlessInv
<1>5. WholeInv' /\ ~Stuck'
  BY <1>1, <1>4 DEF WholeInv, Stuck
<1>6. HeldInv'
  <2> SUFFICES ASSUME NEW t \in Strategies, NEW r \in Symbols, Orders(t, r) = {}
               PROVE  /\ Of(Pending', t, r) = {} => pointType[t][r] # BUY
                      /\ FirstIs(Pending', t, r, BUY)
    BY <1>1 DEF HeldInv, Orders, IsServed
  <2> DEFINE side == IF IsServed(t, r) THEN SELL ELSE BUY
             last == pointType[t][r]
  <2>1. /\ Of(Pending, t, r) = {} => last # BUY
        /\ FirstIs(Pending, t, r, side) /\ side \in {BUY, SELL}
        /\ Alternate(Pending, t, r) /\ LastIs(Pending, t, r, last)
    BY <1>4 DEF HeldInv, NInv, BInv, PInv, PositionInv
  <2>2. 1 \in Of(Pending, t, r) <=> IsServed(t, r)
    BY <1>1, <1>2 DEF Of, IsServed
  <2> HIDE DEF side, last
  <2>3. IF 1 \in Of(Pending, t, r)
        THEN /\ Of(Pending', t, r) = {} => last = side
             /\ FirstIs(Pending', t, r, Other(side))
        ELSE /\ Of(Pending', t, r) = {} => Of(Pending, t, r) = {}
             /\ FirstIs(Pending', t, r, side)
    BY <2>1, <1>2, <1>3, TailTurns
  <2> QED BY <2>1, <2>2, <2>3 DEF side, last, Other, BUY, SELL
<1> QED BY <1>5, <1>6

(* A buy fills whole, and its order is booked.                              *)
LEMMA BuyNInv ==
  ASSUME SaleFits, NInv, BInv', NEW result, StrategyBuySignal(result)
  PROVE  NInv'
<1> DEFINE st == sig_block.strategyId
           s == sig_block.symbol
           price == sig_block.price
           order == [symbol |-> sig_block.symbol, oriPrice |-> sig_block.price,
                     totalQty |-> result.exe, commissionQty |-> result.comm]
<1>1. /\ pcO = "buy" /\ pcO' = "pop" /\ Order(BUY, unitCaptical \div price, result)
      /\ strategyOrders' = IF result.ret
                           THEN [strategyOrders EXCEPT ![st] = Append(@, order)]
                           ELSE strategyOrders
      /\ UNCHANGED <<signalQueue, orderCnt, pcP, signal, pointType>>
  BY DEF StrategyBuySignal, producer
<1>2. /\ TInv /\ st \in Strategies /\ s \in Symbols /\ stock[s] \in Nat
      /\ price \in Prices /\ price \in Nat \ {0}
      /\ strategyOrders[st] \in Seq(OrderBlock)
      /\ strategyOrders \in [Strategies -> Seq(OrderBlock)]
  BY <1>1, Served DEF NInv, BInv, PInv, TInv, TypeOK
<1>3. unitCaptical \div price \in Nat
  <2>1. price \in Nat \ {0}
    BY <1>2
  <2> QED BY <2>1, OrderAssumption DEF OrderAssumption
<1> SUFFICES ASSUME faults' = <<>> PROVE WholeInv' /\ HeldInv' /\ ~Stuck'
  BY <1>1 DEF NInv, FaultlessInv
<1>4. result.fault = "none" /\ WholeInv /\ HeldInv
  BY <1>1, <1>2, <1>3, NoFault DEF NInv, FaultlessInv
<1>5. result.ret = TRUE /\ result.exe = Bought(price) /\ result.comm \in {0, 1}
  <2> DEFINE amount == unitCaptical \div price
             held   == stock[s]
  <2>1. /\ amount \in Nat /\ PassesFilter(price, amount) /\ OrderQty(amount) = Bought(price)
        /\ OrderQty(amount) > 0
    BY <1>2, <1>3 DEF SaleFits, Bought
  <2>2. result \in InsertOrder(BUY, price, amount, held) /\ result.fault = "none"
    BY <1>1, <1>4 DEF Order
  <2> HIDE DEF amount, held, price
  <2> QED BY <2>1, <2>2, BuyFilled, ZenonT(60)
<1> HIDE DEF order
<1>6. /\ strategyOrders'[st] = Append(strategyOrders[st], order)
      /\ \A t \in Strategies \ {st} : strategyOrders'[t] = strategyOrders[t]
  BY <1>1, <1>2, <1>5
<1>7. /\ DOMAIN strategyOrders'[st] = 1 .. Len(strategyOrders[st]) + 1
      /\ \A n \in DOMAIN strategyOrders[st] : strategyOrders'[st][n] = strategyOrders[st][n]
      /\ strategyOrders'[st][Len(strategyOrders[st]) + 1] = order
      /\ DOMAIN strategyOrders[st] = 1 .. Len(strategyOrders[st])
      /\ Len(strategyOrders[st]) \in Nat
  BY <1>2, <1>6
<1>8. WholeInv'
  <2> SUFFICES ASSUME NEW t \in Strategies, NEW n \in DOMAIN strategyOrders'[t]
               PROVE  /\ strategyOrders'[t][n].commissionQty <= 1
                      /\ \E p \in Prices : strategyOrders'[t][n].totalQty = Bought(p)
    BY DEF WholeInv
  <2>1. CASE t = st /\ n = Len(strategyOrders[st]) + 1
    <3>1. order.commissionQty <= 1 /\ order.totalQty = Bought(price)
      BY <1>5 DEF order
    <3> QED BY <2>1, <3>1, <1>2, <1>7
  <2>2. CASE ~(t = st /\ n = Len(strategyOrders[st]) + 1)
    <3>1. n \in DOMAIN strategyOrders[t] /\ strategyOrders'[t][n] = strategyOrders[t][n]
      BY <2>2, <1>6, <1>7
    <3> QED BY <3>1, <1>4 DEF WholeInv
  <2> QED BY <2>1, <2>2
<1>9. HeldInv'
  <2> SUFFICES ASSUME NEW t \in Strategies, NEW r \in Symbols, Orders(t, r)' = {}
               PROVE  (/\ Of(Pending, t, r) = {} => pointType[t][r] # BUY
                       /\ FirstIs(Pending, t, r, IF IsServed(t, r) THEN SELL ELSE BUY))'
    BY DEF HeldInv
  <2>1. Pending' = Pending /\ sig_block' = sig_block /\ UNCHANGED pointType
    BY <1>1 DEF Pending, sig_block
  <2>2. ~(t = st /\ r = s)
    <3>1. order.symbol = s
      BY DEF order
    <3>2. t = st /\ r = s => Len(strategyOrders[st]) + 1 \in Orders(t, r)'
      BY <3>1, <1>7 DEF Orders, Places
    <3> QED BY <3>2
  <2>3. ~IsServed(t, r)' /\ ~IsServed(t, r)
    BY <2>1, <2>2, <1>1 DEF IsServed
  <2>4. Orders(t, r) = {}
    BY <1>6, <1>7 DEF Orders, Places
  <2> QED BY <2>1, <2>3, <2>4, <1>4 DEF HeldInv
<1> QED BY <1>1, <1>8, <1>9 DEF Stuck

(* A sale begins with an order, less than all of which can be sold.         *)
LEMMA ServeSellNInv ==
  ASSUME SaleFits, NInv, BInv', ServeSell
  PROVE  NInv'
<1> DEFINE st == sig_block.strategyId
           s == sig_block.symbol
<1>1. /\ pcO = "serve" /\ pcO' = "sell" /\ sig_block.side = SELL
      /\ qty' = IF Orders(st, s) = {} THEN 0 ELSE Booked(Newest(st, s))
      /\ UNCHANGED <<signalQueue, strategyOrders, orderCnt, pcP, signal, pointType,
                     stock, faults>>
  BY DEF ServeSell, producer
<1>2. /\ TInv /\ st \in Strategies /\ s \in Symbols /\ stock[s] \in Nat
      /\ sig_block.price \in Prices /\ signalQueue # <<>>
      /\ strategyOrders[st] \in Seq(OrderBlock)
  BY <1>1, Served DEF NInv, BInv, PInv
<1> SUFFICES ASSUME faults = <<>> PROVE WholeInv' /\ HeldInv' /\ ~Stuck'
  BY <1>1 DEF NInv, FaultlessInv
<1>3. WholeInv /\ HeldInv
  BY DEF NInv, FaultlessInv
<1>4. WholeInv'
  BY <1>1, <1>3 DEF WholeInv
<1>5. HeldInv'
  <2> SUFFICES ASSUME NEW t \in Strategies, NEW r \in Symbols, Orders(t, r) = {}
               PROVE  (/\ Of(Pending, t, r) = {} => pointType[t][r] # BUY
                       /\ FirstIs(Pending, t, r, IF IsServed(t, r) THEN SELL ELSE BUY))'
    BY <1>1 DEF HeldInv, Orders
  <2>1. Pending' = Pending /\ UNCHANGED pointType /\ ~IsServed(t, r) /\ ~IsServed(t, r)'
    BY <1>1 DEF Pending, IsServed
  <2> QED BY <2>1, <1>3 DEF HeldInv
<1>6. Orders(st, s) # {}
  <2> SUFFICES ASSUME Orders(st, s) = {} PROVE FALSE
    OBVIOUS
  <2>1. 1 \in Of(Pending, st, s) /\ Pending[1] = sig_block
        /\ \A n \in Of(Pending, st, s) : 1 <= n
    BY <1>2, PendingType DEF Of
  <2>2. FirstIs(Pending, st, s, BUY)
    BY <1>1, <1>2, <1>3 DEF HeldInv, IsServed
  <2> QED BY <2>1, <2>2, <1>1 DEF FirstIs, BUY, SELL
<1> DEFINE at == Max(Orders(st, s))
<1>7. at \in DOMAIN strategyOrders[st] /\ strategyOrders[st][at].symbol = s
      /\ strategyOrders[st][at] \in OrderBlock
  <2>1. Orders(st, s) \subseteq 1 .. Len(strategyOrders[st]) /\ Len(strategyOrders[st]) \in Nat
    BY <1>2 DEF Orders, Places
  <2>2. at \in Orders(st, s)
    BY <2>1, <1>6, EndsOfBook
  <2> HIDE DEF at
  <2>3. at \in DOMAIN strategyOrders[st] /\ strategyOrders[st][at].symbol = s
    BY <2>2 DEF Orders, Places
  <2> QED BY <2>3, <1>2
<1> HIDE DEF at
<1>8. PICK price \in Prices : strategyOrders[st][at].totalQty = Bought(price)
  BY <1>2, <1>3, <1>7 DEF WholeInv
<1>9. /\ Bought(price) \in Nat /\ qty' = Bought(price) - strategyOrders[st][at].commissionQty
      /\ strategyOrders[st][at].commissionQty \in {0, 1} /\ qty' <= stock[s]
  <2>1. strategyOrders[st][at].commissionQty \in Nat /\ Bought(price) \in Nat
    BY <1>7, <1>8 DEF OrderBlock
  <2>2. strategyOrders[st][at].commissionQty <= 1
    BY <1>2, <1>3, <1>7 DEF WholeInv
  <2>3. qty' = Booked(strategyOrders[st][at])
    BY <1>1, <1>6 DEF Newest, at
  <2>4. Booked(strategyOrders[st][at]) <= stock[s]
    <3>1. ~LostSale
      BY DEF LostSale, ToSet
    <3> QED BY <3>1, <1>2, <1>7 DEF NInv, BInv, BackInv
  <2> QED BY <2>1, <2>2, <2>3, <2>4, <1>8 DEF Booked
<1>10. PICK q \in 0 .. Bought(price) - 1 :
         PassesFilter(sig_block.price, q) /\ OrderQty(q) \in 1 .. Bought(price) - 1
  BY <1>2, <1>8 DEF SaleFits
<1>11. q \in 0 .. qty' /\ OrderQty(q) > 0 /\ OrderQty(q) <= stock[s]
  <2>1. strategyOrders[st][at].commissionQty \in {0, 1} /\ Bought(price) \in Nat
        /\ qty' = Bought(price) - strategyOrders[st][at].commissionQty /\ qty' <= stock[s]
    BY <1>9
  <2>2. qty' \in Int /\ qty' >= Bought(price) - 1
    BY <2>1
  <2>3. q \in 0 .. qty'
    BY <2>1, <2>2, <1>10
  <2>4. stock[s] \in Int
    BY <1>2
  <2>5. OrderQty(q) > 0 /\ OrderQty(q) <= Bought(price) - 1 /\ OrderQty(q) \in Int
    BY <2>1, <1>10
  <2> HIDE DEF OrderQty, Bought
  <2> QED BY <2>1, <2>2, <2>3, <2>4, <2>5
<1>12. ~Stuck'
  <2>1. sig_block' = sig_block /\ stock' = stock
    BY <1>1 DEF sig_block
  <2>2. Covered(SELL, q, stock[s])
    BY <1>11 DEF Covered
  <2> QED BY <1>10, <1>11, <2>1, <2>2 DEF Stuck
<1> QED BY <1>4, <1>5, <1>12

(* One pass of the loop sells, or leaves a smaller quantity that can be.    *)
LEMMA SellNInv ==
  ASSUME NInv, BInv', NEW result, StrategySellSignal(result)
  PROVE  NInv'
<1> DEFINE st == sig_block.strategyId
           s == sig_block.symbol
           price == sig_block.price
<1>1. /\ pcO = "sell" /\ Order(SELL, qty, result)
      /\ UNCHANGED <<signalQueue, pcP, signal, pointType>>
      /\ IF result.exe = 0
         THEN /\ qty' = IF qty > 0 THEN qty - 1 ELSE 0
              /\ UNCHANGED <<strategyOrders, orderCnt, pcO>>
         ELSE /\ strategyOrders' =
                   IF result.ret THEN [strategyOrders EXCEPT ![st] = EraseFirst(@, s)]
                   ELSE strategyOrders
              /\ orderCnt' = orderCnt - 1 /\ pcO' = "pop"
  BY DEF StrategySellSignal, producer
<1>2. /\ TInv /\ SInv /\ st \in Strategies /\ s \in Symbols /\ price \in Nat
      /\ stock \in [Symbols -> Nat] /\ strategyOrders[st] \in Seq(OrderBlock)
      /\ strategyOrders \in [Strategies -> Seq(OrderBlock)]
      /\ qty \in Nat /\ orderCnt \in Int
  BY <1>1, Served DEF NInv, BInv, PInv, TInv, TypeOK
<1>3. orderCnt' <= 0
  BY <1>1, <1>2 DEF NInv
<1> SUFFICES ASSUME faults' = <<>> PROVE WholeInv' /\ HeldInv' /\ ~Stuck'
  BY <1>3 DEF NInv, FaultlessInv
<1>4. result.fault = "none" /\ WholeInv /\ HeldInv /\ ~Stuck
  <2>1. SELL \in {BUY, SELL}
    OBVIOUS
  <2> QED BY <2>1, <1>1, <1>2, NoFault DEF NInv, FaultlessInv
<1>5. Pending' = Pending /\ sig_block' = sig_block /\ UNCHANGED pointType
  BY <1>1 DEF Pending, sig_block
<1>6. WholeInv'
  <2> SUFFICES ASSUME NEW t \in Strategies, NEW n \in DOMAIN strategyOrders'[t]
               PROVE  /\ strategyOrders'[t][n].commissionQty <= 1
                      /\ \E p \in Prices : strategyOrders'[t][n].totalQty = Bought(p)
    BY DEF WholeInv
  <2>1. \/ UNCHANGED strategyOrders
        \/ strategyOrders' = [strategyOrders EXCEPT ![st] = EraseFirst(@, s)]
    BY <1>1
  <2>2. PICK m \in DOMAIN strategyOrders[t] : strategyOrders'[t][n] = strategyOrders[t][m]
    BY <1>2, <2>1, SellKeepsOrders
  <2> QED BY <2>2, <1>4 DEF WholeInv
<1>7. CASE result.exe = 0
  <2>1. HeldInv'
    <3> SUFFICES ASSUME NEW t \in Strategies, NEW r \in Symbols, Orders(t, r) = {}
                 PROVE  (/\ Of(Pending, t, r) = {} => pointType[t][r] # BUY
                         /\ FirstIs(Pending, t, r, IF IsServed(t, r) THEN SELL ELSE BUY))'
      BY <1>1, <1>7 DEF HeldInv, Orders
    <3>1. IsServed(t, r)' <=> IsServed(t, r)
      BY <1>1, <1>5, <1>7 DEF IsServed
    <3> QED BY <3>1, <1>4, <1>5 DEF HeldInv
  <2>2. stock' = stock
    <3>1. result.moved = 0
      BY <1>2, <1>4, <1>7, SellPass
    <3>2. stock' = [stock EXCEPT ![s] = @ + result.moved]
      BY <1>1 DEF Order
    <3> QED BY <3>1, <3>2, <1>2
  <2>3. PICK q \in 0 .. qty : PassesFilter(price, q) /\ Covered(SELL, q, stock[s])
    BY <1>1, <1>4 DEF Stuck
  <2>4. q # qty
    <3> SUFFICES ASSUME q = qty PROVE FALSE
      OBVIOUS
    <3> DEFINE held == stock[s]
    <3>1. /\ PassesFilter(price, qty) /\ Covered(SELL, qty, held)
          /\ result \in InsertOrder(SELL, price, qty, held) /\ result.fault = "none"
      BY <2>3, <1>1, <1>4 DEF Order
    <3> HIDE DEF price, held
    <3> QED BY <3>1, <1>2, <1>7, SellFilled, ZenonT(60)
  <2>5. q \in 0 .. qty'
    BY <2>3, <2>4, <1>1, <1>2, <1>7
  <2>6. ~Stuck'
    BY <2>2, <2>3, <2>5, <1>5 DEF Stuck
  <2> QED BY <1>6, <2>1, <2>6
<1>8. CASE result.exe # 0
  <2>1. result.ret = TRUE
    BY <1>1, <1>2, <1>8, OrderTypes DEF Answer
  <2>2. /\ strategyOrders'[st] = EraseFirst(strategyOrders[st], s)
        /\ \A t \in Strategies \ {st} : strategyOrders'[t] = strategyOrders[t]
        /\ pcO' = "pop"
    BY <2>1, <1>1, <1>2, <1>8
  <2>3. \A r \in Symbols : \A n, m \in Places(strategyOrders[st], r) : n = m
    BY <1>2 DEF NInv, BInv, PInv, PositionInv, Orders
  <2>4. HeldInv'
    <3> SUFFICES ASSUME NEW t \in Strategies, NEW r \in Symbols, Orders(t, r)' = {}
                 PROVE  /\ Of(Pending, t, r) = {} => pointType[t][r] # BUY
                        /\ FirstIs(Pending, t, r, IF IsServed(t, r)' THEN SELL ELSE BUY)
      BY <1>5 DEF HeldInv
    <3>1. CASE t = st /\ r = s
      <4>1. IsServed(t, r)'
        BY <2>2, <3>1, <1>5 DEF IsServed
      <4>2. 1 \in Of(Pending, t, r) /\ Pending[1].side = SELL
            /\ \A n \in Of(Pending, t, r) : n \in Nat \ {0}
        <5>1. signalQueue # <<>> /\ sig_block.side = SELL
          BY <1>1, <1>2 DEF TInv, ServeInv
        <5> QED BY <5>1, <3>1, <1>2, PendingType DEF Of
      <4>3. FirstIs(Pending, t, r, SELL)
        BY <4>2 DEF FirstIs
      <4> QED BY <4>1, <4>2, <4>3
    <3>2. CASE ~(t = st /\ r = s)
      <4>1. ~IsServed(t, r)' /\ ~IsServed(t, r)
        BY <3>2, <1>1, <1>5 DEF IsServed
      <4>2. Orders(t, r) = {}
        <5>1. CASE t # st
          BY <5>1, <2>2 DEF Orders
        <5>2. CASE t = st
          <6>1. Places(EraseFirst(strategyOrders[st], s), r) = {}
            BY <5>2, <2>2 DEF Orders
          <6>2. r \in Symbols \ {s}
            BY <5>2, <3>2
          <6> DEFINE open == strategyOrders[st]
          <6>3. open \in Seq(OrderBlock) /\ \A x \in Symbols : \A n, m \in Places(open, x) : n = m
            BY <1>2, <2>3
          <6> HIDE DEF open
          <6>4. Places(EraseFirst(open, s), r) # {} <=> Places(open, r) # {}
            BY <6>2, <6>3, <1>2, ErasedPlaces, ZenonT(60)
          <6> QED BY <5>2, <6>1, <6>4 DEF Orders, open
        <5> QED BY <5>1, <5>2
      <4> QED BY <4>1, <4>2, <1>4 DEF HeldInv
    <3> QED BY <3>1, <3>2
  <2> QED BY <1>6, <2>2, <2>4 DEF Stuck
<1> QED BY <1>7, <1>8

LEMMA StepNInv ==
  ASSUME SaleFits, \A a, b \in Strategies : a = b, NInv, [Next]_vars
  PROVE  NInv'
<1>1. BInv'
  BY StepBInv DEF NInv
<1>2. (pcO = "buy" /\ BuyOrder => NInv') /\ (pcO = "sell" /\ SellOrder => NInv')
  BY <1>1, BuyNInv, SellNInv DEF BuyOrder, SellOrder
<1>3. OrderManagerRun => NInv'
  BY <1>1, <1>2, QuietNInv, ServeBuyNInv, ServeSellNInv, PopNInv DEF OrderManagerRun
<1> QED BY <1>1, <1>3, DecideNInv, QuietNInv DEF Next

(* As long as the exchange answers and fills every order, the re-submission *)
(* loop of a sale (OrderManager.cpp:172-180) always has a quantity ahead    *)
(* that is passed and covered, and so never holds the mutex for good: for   *)
(* any step, filters, prices and symbols with which a sale of a little less *)
(* than was bought is possible at all, when a single strategy trades.       *)
THEOREM NeverStuck ==
  ASSUME SaleFits, \A a, b \in Strategies : a = b
  PROVE  Spec => []StuckOnlyByFault
<1>1. Init => NInv
  BY InitNInv
<1>2. NInv /\ [Next]_vars => NInv'
  BY StepNInv
<1>3. NInv => StuckOnlyByFault
  BY DEF NInv, FaultlessInv, StuckOnlyByFault
<1> QED BY <1>1, <1>2, <1>3, PTL DEF Spec
=============================================================================
