------------------------------ MODULE BiTrader ------------------------------
(***************************************************************************)
(* BiTrader::InsertOrder (src/src/BiTrader.cpp) and the Binance account it *)
(* talks to, as the set of results one market order may have. Quantities   *)
(* are whole numbers of grains, STEP grains to the smallest step in which  *)
(* the exchange trades, prices and money are in units to match.            *)
(***************************************************************************)
EXTENDS Integers

CONSTANTS
  STEP,                      \* grains in one lot step of the exchange
  MinQty, MaxQty,            \* the LOT_SIZE filter, in grains
  MinNotional, MaxNotional   \* the NOTIONAL filter, in grains times price

ASSUME TraderAssumption ==
  /\ STEP \in Nat \ {0}
  /\ MinQty \in Nat \ {0} /\ MaxQty \in Nat
  /\ MinNotional \in Nat /\ MaxNotional \in Nat

(* ConvertDouble2String rounds to the nearest step, which may be upwards.  *)
OrderQty_Up(qty) == STEP * (qty \div STEP + 1)
OrderQty(qty)    == STEP * ((qty + STEP \div 2) \div STEP)

(* The tests InsertOrder makes before it sends anything, on the quantity   *)
(* before rounding; a market order is not tested for its price.            *)
PassesFilter(price, qty) ==
  /\ MinQty <= qty /\ qty <= MaxQty
  /\ MinNotional <= price * qty /\ price * qty <= MaxNotional

(***************************************************************************)
(* A result: what InsertOrder returns, the executed quantity and the       *)
(* commission it reports, the change of the account, and whether something *)
(* went wrong that need not have.                                          *)
(***************************************************************************)
Result(ret, exe, comm, moved, fault) ==
  [ret |-> ret, exe |-> exe, comm |-> comm, moved |-> moved, fault |-> fault]

NotSent   == Result(FALSE, 0, 0, 0, "none")
Refused   == Result(TRUE, 0, 0, 0, "none")     \* {"code": ...}: nothing is filled in
Failed    == Result(FALSE, 0, 0, 0, "failed")  \* curl gives up, nothing was executed
Rejected  == Result(TRUE, 0, 0, 0, "rejected") \* the exchange declines a good order

(* An order fills in whole steps, wholly or in part; a buy may be charged  *)
(* its commission in the coin that is bought. Its answer may be lost, or    *)
(* come as one that does not parse, which InsertOrder calls a success.     *)
Executions(qty) == {n \in 1 .. OrderQty(qty) : n % STEP = 0}

Part(n, qty) == IF n = OrderQty(qty) THEN "none" ELSE "partial"

Buys(qty) ==
  {Result(TRUE, n, comm, n - comm, Part(n, qty)) : n \in Executions(qty), comm \in {0, 1}}
Sells(qty) ==
  {Result(TRUE, n, 0, -n, Part(n, qty)) : n \in Executions(qty)}
Lost(fills) == {Result(ret, 0, 0, f.moved, "lost") : ret \in BOOLEAN, f \in fills}

(* The exchange refuses an order of nothing and a sale of more than is held.*)
Covered(side, qty, held) ==
  OrderQty(qty) > 0 /\ (side = 2 => OrderQty(qty) <= held)

InsertOrder(side, price, qty, held) ==
  LET fills == IF side = 1 THEN Buys(qty) ELSE Sells(qty) IN
  IF ~PassesFilter(price, qty) THEN {NotSent}
  ELSE IF ~Covered(side, qty, held) THEN {Refused, Failed}
  ELSE {Failed, Rejected} \union fills \union Lost(fills)
=============================================================================
