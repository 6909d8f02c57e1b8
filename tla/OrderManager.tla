---------------------------- MODULE OrderManager ----------------------------
(***************************************************************************)
(* The order manager (src/src/OrderManager.cpp): a queue of signals, filled *)
(* by the strategy thread through PushSignal, emptied by the thread of Run, *)
(* which keeps the mutex through the order it sends and the sleep after it, *)
(* and the book of open orders of each strategy.                           *)
(*                                                                         *)
(* The strategy side is the protocol of Strategy.cpp: buys and sales of a  *)
(* symbol alternate, by pointType. Its calls of PushSignal are commented   *)
(* out at this commit (Strategy.cpp:204, 229); the model makes them.       *)
(***************************************************************************)
EXTENDS BiTrader, Sequences, FiniteSets, SequencesExt

CONSTANTS
  Strategies, Symbols,
  Prices,          \* the prices a signal may carry
  unitCaptical,    \* money for one buy
  totalCaptical,   \* money there is
  MaxSignals,      \* bound: how many signals are ever pushed
  MaxFaults        \* bound: how many orders go wrong

ASSUME OrderAssumption ==
  /\ Prices \subseteq Nat \ {0}
  /\ unitCaptical \in Nat /\ totalCaptical \in Nat
  /\ MaxSignals \in Nat /\ MaxFaults \in Nat

VARIABLES
  signalQueue,   \* signals not yet popped
  strategyOrders,\* the book: a sequence of orders per strategy
  orderCnt,
  lock,          \* signalMtx: who holds it
  pcO,           \* where OrderManager::Run is
  qty,           \* local of StrategySellSignal
  pcP,           \* where the strategy thread is
  signal,        \* the signal it is pushing
  pointType,     \* what each strategy believes of each symbol
  signals,       \* how many signals there have been
  stock,         \* external: the coins in the account
  faults,        \* history: the faults so far
  sold           \* history: what the sale being served has sold

orders   == <<strategyOrders, orderCnt, qty>>
producer == <<pcP, signal, pointType, signals>>
account  == <<stock, faults, sold>>
vars     == <<signalQueue, orders, lock, pcO, producer, account>>

BUY == 1
SELL == 2
NoSignal == [side |-> 0]

Init ==
  /\ signalQueue = <<>>
  /\ strategyOrders = [st \in Strategies |-> <<>>]
  /\ orderCnt = 0
  /\ lock = "free"
  /\ pcO = "lock" /\ qty = 0
  /\ pcP = "run" /\ signal = NoSignal
  /\ pointType = [st \in Strategies |-> [s \in Symbols |-> 0]]
  /\ signals = 0
  /\ stock = [s \in Symbols |-> 0]
  /\ faults = <<>> /\ sold = 0

-----------------------------------------------------------------------------
(* The strategy thread: it decides, notes the decision in pointType and    *)
(* calls PushSignal, which waits for the mutex.                            *)

Decide(st, s, price) ==
  /\ pcP = "run"
  /\ signals < MaxSignals
  /\ LET side == IF pointType[st][s] = 1 THEN SELL ELSE BUY IN
       /\ signal' = [strategyId |-> st, symbol |-> s, side |-> side, price |-> price]
       /\ pointType' = [pointType EXCEPT ![st][s] = side]
  /\ signals' = signals + 1
  /\ pcP' = "push"
  /\ UNCHANGED <<signalQueue, orders, lock, pcO, account>>

PushSignal ==
  /\ pcP = "push"
  /\ lock = "free"
  /\ signalQueue' = Append(signalQueue, signal)
  /\ signal' = NoSignal
  /\ pcP' = "run"
  /\ UNCHANGED <<orders, lock, pcO, pointType, signals, account>>

-----------------------------------------------------------------------------
(* OrderManager::Run.                                                      *)

sig_block == Head(signalQueue)
Booked(order)   == order.totalQty - order.commissionQty
Places(open, s) == {n \in DOMAIN open : open[n].symbol = s}
Orders(st, s)   == Places(strategyOrders[st], s)
Newest(st, s)   == strategyOrders[st][Max(Orders(st, s))]

(* lock_guard at the head of the loop, then the front of the queue: a buy  *)
(* while there is capital, a sale, or nothing.                             *)
Lock ==
  /\ pcO = "lock"
  /\ lock = "free"
  /\ lock' = "orders"
  /\ pcO' = IF signalQueue = <<>> THEN "sleep" ELSE "serve"
  /\ UNCHANGED <<signalQueue, orders, producer, account>>

ServeBuy ==
  /\ pcO = "serve" /\ sig_block.side = BUY
  /\ pcO' = IF unitCaptical * orderCnt < totalCaptical THEN "buy" ELSE "pop"
  /\ UNCHANGED <<signalQueue, orders, lock, producer, account>>

(* StrategySellSignal takes the quantity of the last order of the symbol.  *)
ServeSell ==
  /\ pcO = "serve" /\ sig_block.side = SELL
  /\ LET st == sig_block.strategyId   s == sig_block.symbol IN
       qty' = IF Orders(st, s) = {} THEN 0 ELSE Booked(Newest(st, s))
  /\ sold' = 0
  /\ pcO' = "sell"
  /\ UNCHANGED <<signalQueue, strategyOrders, orderCnt, lock, producer, stock, faults>>

(* One order, and what it does to the account.                             *)
Order(side, amount, result) ==
  /\ result \in InsertOrder(side, sig_block.price, amount, stock[sig_block.symbol])
  /\ result.fault # "none" => Len(faults) < MaxFaults
  /\ faults' = IF result.fault = "none" THEN faults
               ELSE Append(faults, [side |-> side, fault |-> result.fault])
  /\ stock' = [stock EXCEPT ![sig_block.symbol] = @ + result.moved]

StrategyBuySignal_NoCommission(result) ==
  /\ pcO = "buy"
  /\ Order(BUY, unitCaptical \div sig_block.price, result)
  /\ strategyOrders' =
       IF result.ret
       THEN [strategyOrders EXCEPT ![sig_block.strategyId] =
               Append(@, [symbol |-> sig_block.symbol, oriPrice |-> sig_block.price,
                          totalQty |-> result.exe, commissionQty |-> 0])]
       ELSE strategyOrders
  /\ pcO' = "pop"
  /\ UNCHANGED <<signalQueue, orderCnt, qty, lock, producer, sold>>

StrategyBuySignal(result) ==
  /\ pcO = "buy"
  /\ Order(BUY, unitCaptical \div sig_block.price, result)
  /\ strategyOrders' =
       IF result.ret
       THEN [strategyOrders EXCEPT ![sig_block.strategyId] =
               Append(@, [symbol |-> sig_block.symbol, oriPrice |-> sig_block.price,
                          totalQty |-> result.exe, commissionQty |-> result.comm])]
       ELSE strategyOrders
  /\ pcO' = "pop"
  /\ UNCHANGED <<signalQueue, orderCnt, qty, lock, producer, sold>>

(* The first order of the symbol leaves the book.                          *)
EraseFirst_Clear(open, s) == <<>>
EraseFirst_Back(open, s)  == Front(open)
EraseFirst(open, s) ==
  IF Places(open, s) = {} THEN open ELSE RemoveAt(open, Min(Places(open, s)))

(* One pass of the re-submission loop: as long as nothing is executed the  *)
(* quantity shrinks a little and the order is sent again.                  *)
StrategySellSignal_Same(result) ==
  /\ pcO = "sell"
  /\ Order(SELL, qty, result)
  /\ sold' = sold - result.moved
  /\ IF result.exe = 0
     THEN /\ qty' = qty
          /\ UNCHANGED <<strategyOrders, orderCnt, pcO>>
     ELSE /\ strategyOrders' =
               IF result.ret
               THEN [strategyOrders EXCEPT ![sig_block.strategyId] = EraseFirst(@, sig_block.symbol)]
               ELSE strategyOrders
          /\ orderCnt' = orderCnt - 1
          /\ qty' = 0
          /\ pcO' = "pop"
  /\ UNCHANGED <<signalQueue, lock, producer>>

StrategySellSignal(result) ==
  /\ pcO = "sell"
  /\ Order(SELL, qty, result)
  /\ sold' = sold - result.moved
  /\ IF result.exe = 0
     THEN /\ qty' = IF qty > 0 THEN qty - 1 ELSE 0
          /\ UNCHANGED <<strategyOrders, orderCnt, pcO>>
     ELSE /\ strategyOrders' =
               IF result.ret
               THEN [strategyOrders EXCEPT ![sig_block.strategyId] = EraseFirst(@, sig_block.symbol)]
               ELSE strategyOrders
          /\ orderCnt' = orderCnt - 1
          /\ qty' = 0
          /\ pcO' = "pop"
  /\ UNCHANGED <<signalQueue, lock, producer>>

Pop_Unlock ==
  /\ pcO = "pop"
  /\ signalQueue' = Tail(signalQueue)
  /\ sold' = 0
  /\ pcO' = "sleep"
  /\ lock' = "free"
  /\ UNCHANGED <<orders, producer, stock, faults>>

Pop ==
  /\ pcO = "pop"
  /\ signalQueue' = Tail(signalQueue)
  /\ sold' = 0
  /\ pcO' = "sleep"
  /\ UNCHANGED <<orders, lock, producer, stock, faults>>

(* nanosleep, still inside the scope of the lock_guard; then it is released.*)
SleepAndUnlock ==
  /\ pcO = "sleep"
  /\ lock' = "free"
  /\ pcO' = "lock"
  /\ UNCHANGED <<signalQueue, orders, producer, account>>

BuyOrder ==
  \E result \in InsertOrder(BUY, sig_block.price, unitCaptical \div sig_block.price, 0) :
    StrategyBuySignal(result)
SellOrder ==
  \E result \in InsertOrder(SELL, sig_block.price, qty, stock[sig_block.symbol]) :
    StrategySellSignal(result)

OrderManagerRun ==
  \/ Lock \/ ServeBuy \/ ServeSell \/ Pop \/ SleepAndUnlock
  \/ pcO = "buy" /\ BuyOrder
  \/ pcO = "sell" /\ SellOrder

Next ==
  \/ \E st \in Strategies, s \in Symbols, price \in Prices : Decide(st, s, price)
  \/ PushSignal
  \/ OrderManagerRun

Spec     == Init /\ [][Next]_vars
(* Run waits for nothing but the mutex, which PushSignal gives up at once,  *)
(* and no order needs to go wrong for it to go on.                         *)
(* Of PushSignal nothing is assumed: Run takes the mutex again right after  *)
(* it gives it up, and nothing says that the other thread gets it then.     *)
FairSpec == Spec /\ WF_vars(OrderManagerRun /\ UNCHANGED faults)

-----------------------------------------------------------------------------
Signal == [strategyId : Strategies, symbol : Symbols, side : {BUY, SELL}, price : Prices]
OrderBlock == [symbol : Symbols, oriPrice : Prices, totalQty : Nat, commissionQty : Nat]
Fault == [side : {BUY, SELL}, fault : {"failed", "rejected", "partial", "lost"}]

(* Types; the mutex is held exactly while Run is in the scope of its        *)
(* lock_guard, and coins are never owed.                                    *)
TypeOK ==
  /\ signalQueue \in Seq(Signal) /\ Len(signalQueue) <= MaxSignals
  /\ strategyOrders \in [Strategies -> Seq(OrderBlock)]
  /\ orderCnt \in Int
  /\ pcO \in {"lock", "serve", "buy", "sell", "pop", "sleep"}
  /\ lock = IF pcO = "lock" THEN "free" ELSE "orders"
  /\ qty \in Nat
  /\ pcP \in {"run", "push"}
  /\ signal \in IF pcP = "push" THEN Signal ELSE {NoSignal}
  /\ pointType \in [Strategies -> [Symbols -> {0, BUY, SELL}]]
  /\ signals \in 0 .. MaxSignals
  /\ stock \in [Symbols -> Nat]
  /\ faults \in Seq(Fault) /\ Len(faults) <= MaxFaults
  /\ sold \in Nat

Quiet == signalQueue = <<>> /\ pcP = "run"

(* A sale takes the quantity of the last order of its symbol and erases the *)
(* first (OrderManager.cpp:161-165, 185-192). It is the same order: a       *)
(* strategy has at most one of a symbol in the book, and none that it does  *)
(* not hold once its signals are served, whatever the exchange answers.     *)
OneOrderPerPosition ==
  \A st \in Strategies, s \in Symbols :
    /\ \A n, m \in Orders(st, s) : n = m
    /\ Quiet /\ Orders(st, s) # {} => pointType[st][s] = BUY

LostSale == \E f \in ToSet(faults) : f.side = SELL /\ f.fault = "lost"

(* What the book of a strategy says it holds is in the account, through     *)
(* refused, partial and unanswered orders, leftovers of earlier sales and   *)
(* the rounding of quantities, unless a sale was made and its answer lost.  *)
BookBacked ==
  \A st \in Strategies : \A order \in ToSet(strategyOrders[st]) :
    LostSale \/ Booked(order) <= stock[order.symbol]

(* However often a sale is sent again, and although InsertOrder rounds its  *)
(* quantity up as well as down, it never sells more than its position was   *)
(* bought as, unless an answer is lost (OrderManager.cpp:154-180).          *)
SellsAtMostItsPosition ==
  [][ sold' > sold =>
        \/ LostSale'
        \/ sold' <= Newest(sig_block.strategyId, sig_block.symbol).totalQty ]_vars

(* No quantity the shrinking of the re-submission loop can still come to is *)
(* one that the filters pass and the account can cover: the loop, and with  *)
(* it the mutex, is never left.                                             *)
Stuck ==
  /\ pcO = "sell"
  /\ \A q \in 0 .. qty :
       PassesFilter(sig_block.price, q) => ~Covered(SELL, q, stock[sig_block.symbol])

(* What the constants must be for a sale to be possible: at every price the *)
(* money for one buy buys a quantity that the filters pass, and below the   *)
(* quantity bought, so within what a commission leaves of it, there is one  *)
(* that they pass at any later price and that is rounded to no more.        *)
Bought(price) == OrderQty(unitCaptical \div price)

SaleFits ==
  /\ totalCaptical > 0
  /\ \A price, later \in Prices :
       /\ PassesFilter(price, unitCaptical \div price) /\ Bought(price) > 0
       /\ \E q \in 0 .. Bought(price) - 1 :
            PassesFilter(later, q) /\ OrderQty(q) \in 1 .. Bought(price) - 1

(* As long as the exchange answers and fills every order, commission and    *)
(* rounding never leave a position that the loop cannot sell, with one      *)
(* strategy and constants that fit.                                         *)
StuckOnlyByFault == Stuck => faults # <<>>

(* Every signal in the queue is served, whatever the exchange does: a sale  *)
(* that does not go through is sent again, less each time, until it does.   *)
(* Only a fault can leave Run in one for ever (OrderManager.cpp:58-99,      *)
(* 154-192). MaxSignals ends the pushing.                                   *)
SignalsServed ==
  \/ signalQueue # <<>> ~> signalQueue = <<>>
  \/ <>[](pcO = "sell" /\ faults # <<>>)

(* The comment on the loop calls it a second submission of the order        *)
(* (OrderManager.cpp:172): a sale is over after it.                         *)
SaleEnds == pcO = "sell" ~> pcO # "sell"
=============================================================================
