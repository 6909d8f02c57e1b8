------------------------------ MODULE MCBiQTP -------------------------------
(* Five pairs in the exchange's list, three of them traded; the two that    *)
(* are not stand between them. Of the threads, one whose Run may return and *)
(* two whose Run does not.                                                  *)
EXTENDS BiQTP

Pair(s, v, b, u) == [symbol |-> s, volume |-> v, bid |-> b, usdt |-> u]

MCListing == <<
  Pair("ETHBTC", TRUE, TRUE, FALSE),
  Pair("BTCUSDT", TRUE, TRUE, TRUE),
  Pair("BCCUSDT", TRUE, FALSE, TRUE),
  Pair("ETHUSDT", TRUE, TRUE, TRUE),
  Pair("BOMEUSDT", TRUE, TRUE, TRUE) >>

MCStartOrder == <<"MDSocket", "Calculator", "OrderManager">>
MCEnding     == {"MDSocket"}
=============================================================================
