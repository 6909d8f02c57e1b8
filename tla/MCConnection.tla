---------------------------- MODULE MCConnection ----------------------------
(* Two frames that wait to be sent, and one abandoned connection.           *)
EXTENDS Connection
=============================================================================
