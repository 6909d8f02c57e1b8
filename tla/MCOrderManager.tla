--------------------------- MODULE MCOrderManager ---------------------------
(* One strategy and two symbols. A buy is 12 or 8 grains, three or two lot  *)
(* steps of 4; with a commission taken the position is no whole number of   *)
(* steps, and a sale has to shrink twice before it rounds down.             *)
EXTENDS OrderManager

ASSUME InstanceFits == SaleFits
=============================================================================
