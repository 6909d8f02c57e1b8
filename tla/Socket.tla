------------------------------- MODULE Socket -------------------------------
(***************************************************************************)
(* What MDSocket::Run sees of its connection (src/src/MDSocket.cpp:91-131; *)
(* the handlers as src/lib/websocketpp calls them): of each attempt either *)
(* OnOpen or OnFail is called, as connection.hpp:50-80 promises; OnFail as *)
(* well as OnOpen only when the extensions of the response were refused,   *)
(* which the promise leaves out. Messages come after OnOpen and before     *)
(* OnClose; run returns when all that is due has been called, or throws    *)
(* what OnMessage threw.                                                   *)
(***************************************************************************)
EXTENDS Integers, Sequences

VARIABLES
  pcM,      \* "connect", "run", "reinit", "ended"
  calls,    \* the handlers called for this attempt
  refused,  \* whether its extensions were refused
  tick      \* flips with every message

vars == <<pcM, calls, refused, tick>>

Init == pcM = "connect" /\ calls = <<>> /\ refused = FALSE /\ tick = 0

Called(handler) == \E n \in DOMAIN calls : calls[n] = handler

Calling(handler) ==
  /\ pcM = "run" /\ ~Called(handler)
  /\ calls' = Append(calls, handler)
  /\ UNCHANGED <<pcM, tick>>

Connect ==
  /\ pcM = "connect"
  /\ pcM' \in {"run", "ended"}
  /\ calls' = <<>> /\ refused' = FALSE /\ UNCHANGED tick

Open ==
  /\ calls = <<>> /\ Calling("OnOpen")
  /\ refused' \in BOOLEAN

Fail ==
  /\ calls = <<>> \/ refused
  /\ Calling("OnFail") /\ UNCHANGED refused

Close ==
  /\ Called("OnOpen")
  /\ Calling("OnClose") /\ UNCHANGED refused

Receiving == pcM = "run" /\ Called("OnOpen") /\ ~Called("OnClose")

Message ==
  /\ Receiving
  /\ tick' = 1 - tick
  /\ UNCHANGED <<pcM, calls, refused>>

Return ==
  /\ pcM = "run"
  /\ Called("OnClose") \/ ~Called("OnOpen")
  /\ Called("OnFail") \/ (Called("OnOpen") /\ ~refused)
  /\ pcM' = "reinit" /\ UNCHANGED <<calls, refused, tick>>

Throw ==
  /\ Receiving
  /\ pcM' = "reinit" /\ UNCHANGED <<calls, refused, tick>>

ReInit ==
  /\ pcM = "reinit"
  /\ pcM' = "connect" /\ UNCHANGED <<calls, refused, tick>>

Next == Connect \/ Open \/ Fail \/ Close \/ Message \/ Return \/ Throw \/ ReInit

Spec == Init /\ [][Next]_vars
=============================================================================
