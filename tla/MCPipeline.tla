----------------------------- MODULE MCPipeline -----------------------------
(* Two symbols, in the hash map in the other order than in the arrays;      *)
(* rings of two slots, which the live build fills and begins anew, and of   *)
(* which the back test has a day's rows; one loss of the connection.        *)
EXTENDS Replay

MCOrder == <<"BTCUSDT", "ETHUSDT">>
MCIndex == [s \in Symbols |-> IF s = "BTCUSDT" THEN 1 ELSE 0]
=============================================================================
