-------------------------- MODULE ConnectionProofs --------------------------
(***************************************************************************)
(* The handlers of a connection do not meet on its stream, whatever timers, *)
(* errors and cancelled operations come together, and what MDSocket is     *)
(* told of it is what Socket says: for any number of frames that wait and   *)
(* of abandoned connections.                                               *)
(*                                                                         *)
(* Most of the invariant is about a connection c, not about con: what the   *)
(* handlers are built from takes a connection through values that are none *)
(* of a state.                                                             *)
(***************************************************************************)
EXTENDS Connection, FiniteSetTheorems, SequenceTheorems, TLAPS

(* The operations of which one follows the other, and the first of them,    *)
(* each with a timer of its own.                                           *)
Chain  == {"resolve", "connect", "tls", "request", "response", "frame"}
Stages == {"resolve", "connect", "tls"}

Busy(c, o) == c.op[o] # "none"
Live(c, t) == c.timer[t] \in {"armed", "expired"}

Conn ==
  [m_state : States, m_internal_state : InternalStates,
   op : [Ops -> {"none", "pending", "cancelled"}],
   timer : [Timers -> {"off", "armed", "expired", "over"}],
   m_handshake_timer : {"none", "open", "close"},
   reading : BOOLEAN,
   m_send_queue : Seq(Frames), m_current_msgs : Seq(Frames), m_write_flag : BOOLEAN,
   calls : Seq({"OnOpen", "OnFail", "OnClose"}), refused : BOOLEAN]

(* The internal state in which an operation of the chain is under way.      *)
During(o) ==
  CASE o \in {"resolve", "connect"} -> "USER_INIT"
    [] o = "tls"      -> "TRANSPORT_INIT"
    [] o = "request"  -> "WRITE_HTTP_REQUEST"
    [] o = "response" -> "READ_HTTP_RESPONSE"
    [] OTHER          -> "PROCESS_CONNECTION"

(* One operation of the chain at a time, and none within the loop.          *)
ChainInv(c) ==
  /\ \A o, p \in Chain : Busy(c, o) /\ Busy(c, p) => o = p
  /\ \A o \in Chain : Busy(c, o) => ~c.reading /\ c.m_internal_state = During(o)
  /\ c.reading => c.m_internal_state = "PROCESS_CONNECTION"

(* Frames are only written when the handshake is over, one at a time.       *)
WriteInv(c) ==
  /\ Busy(c, "write") => c.m_write_flag
  /\ Busy(c, "write") \/ Busy(c, "write_frame") => c.m_internal_state = "PROCESS_CONNECTION"

(* While the timer of a stage runs, or waits for its handler, nothing else  *)
(* is under way that could end the attempt.                                *)
StageInv(c) ==
  \A t \in Stages :
    /\ Busy(c, t) => c.timer[t] # "off"
    /\ Busy(c, t) /\ c.timer[t] = "over" => c.m_state = "closed"
    /\ c.timer[t] = "armed" => c.op[t] = "pending"
    /\ Live(c, t) =>
         /\ c.m_state = "connecting" /\ c.m_internal_state = During(t) /\ ~c.reading
         /\ \A o \in Chain : Busy(c, o) => o = t
         /\ \A u \in Timers : Live(c, u) => u = t

(* The shutdowns a connection has come to. Each begins once, and the        *)
(* handler of its result and that of its timer together call MDSocket once. *)
Told(c, handler) == \E n \in DOMAIN c.calls : c.calls[n] = handler
Unheard(c) == c.calls = <<>> /\ c.refused = FALSE

Due(c, o) ==
  IF o = "shutdown_failed" THEN c.refused \/ (c.m_state = "closed" /\ ~Told(c, "OnOpen"))
  ELSE c.m_state = "closed" /\ Told(c, "OnOpen")

Ends(o) == IF o = "shutdown_failed" THEN "OnFail" ELSE "OnClose"

ShutdownInv(c) ==
  \A o \in Shutdowns :
    IF Due(c, o)
    THEN IF Told(c, Ends(o)) THEN c.timer[o] = "over" \/ (c.timer[o] = "off" /\ ~Busy(c, o))
         ELSE Live(c, o)
    ELSE ~Told(c, Ends(o)) /\ c.timer[o] = "off" /\ ~Busy(c, o)

CallsInv(c) ==
  /\ c.m_state = "connecting" => Unheard(c)
  /\ c.m_state \in {"open", "closing"} \/ c.refused => Told(c, "OnOpen")

(* Until it is closed something of it is under way.                        *)
GoesOn(c) ==
  /\ c.m_state = "connecting" =>
       (\E t \in Stages : Live(c, t)) \/ Busy(c, "request") \/ Busy(c, "response")
  /\ c.m_state = "open" => c.reading \/ Busy(c, "frame")
  /\ c.m_state = "closing" => Live(c, "close")

Shape(c) == ChainInv(c) /\ WriteInv(c) /\ StageInv(c)
Story(c) == ShutdownInv(c) /\ CallsInv(c) /\ GoesOn(c)

ConnectionInv ==
  /\ pcM \in {"connect", "run", "reinit", "ended"}
  /\ orphans \in 0 .. MaxOrphans /\ tick \in {0, 1}
  /\ con \in Conn /\ Shape(con)
  /\ pcM = "run" => Story(con)
  /\ pcM # "run" => ~con.reading /\ \A o \in Ops : ~Busy(con, o)

-----------------------------------------------------------------------------
(* What the handlers are built from, field by field.                       *)

Statuses == {"none", "pending", "cancelled"}
Clocks   == {"off", "armed", "expired", "over"}

(* d differs from c in its operations and timers at most.                   *)
SameBut(c, d) ==
  /\ d.m_state = c.m_state /\ d.m_internal_state = c.m_internal_state
  /\ d.refused = c.refused /\ d.reading = c.reading
  /\ d.m_send_queue = c.m_send_queue /\ d.m_current_msgs = c.m_current_msgs
  /\ d.m_write_flag = c.m_write_flag /\ d.calls = c.calls

LEMMA SetOp ==
  ASSUME NEW c, c \in Conn, NEW f, f \in [Ops -> Statuses],
         NEW d, d = [c EXCEPT !.op = f]
  PROVE  /\ d \in Conn /\ SameBut(c, d)
         /\ d.op = f /\ d.timer = c.timer
         /\ d.m_handshake_timer = c.m_handshake_timer
<1>1. d.op = f /\ d.timer = c.timer /\ d.m_handshake_timer = c.m_handshake_timer
  BY DEF Conn
<1>2. SameBut(c, d)
  BY DEF Conn, SameBut
<1>3. d \in Conn
  BY DEF Conn, Statuses
<1> QED BY <1>1, <1>2, <1>3

LEMMA SetTimer ==
  ASSUME NEW c, c \in Conn, NEW f, f \in [Timers -> Clocks],
         NEW d, d = [c EXCEPT !.timer = f]
  PROVE  /\ d \in Conn /\ SameBut(c, d)
         /\ d.op = c.op /\ d.timer = f
         /\ d.m_handshake_timer = c.m_handshake_timer
<1>1. d.op = c.op /\ d.timer = f /\ d.m_handshake_timer = c.m_handshake_timer
  BY DEF Conn
<1>2. SameBut(c, d)
  BY DEF Conn, SameBut
<1>3. d \in Conn
  BY DEF Conn, Clocks
<1> QED BY <1>1, <1>2, <1>3

LEMMA StartIs ==
  ASSUME NEW c, c \in Conn, NEW o, o \in Ops, ~Busy(c, o), NEW d, d = Start(c, o)
  PROVE  /\ d \in Conn /\ SameBut(c, d)
         /\ d.timer = c.timer /\ d.m_handshake_timer = c.m_handshake_timer
         /\ d.op = [c.op EXCEPT ![o] = "pending"]
<1> DEFINE f == [c.op EXCEPT ![o] = "pending"]
<1>1. d = [c EXCEPT !.op = f]
  BY DEF Start, Busy, Conn
<1>2. f \in [Ops -> Statuses]
  BY DEF Conn, Statuses
<1> HIDE DEF f
<1>3. /\ d \in Conn /\ SameBut(c, d) /\ d.op = f /\ d.timer = c.timer
      /\ d.m_handshake_timer = c.m_handshake_timer
  BY <1>1, <1>2, SetOp
<1> QED BY <1>3 DEF f

LEMMA EndedIs ==
  ASSUME NEW c, c \in Conn, NEW o, o \in Ops, NEW d, d = Ended(c, o)
  PROVE  /\ d \in Conn /\ SameBut(c, d)
         /\ d.timer = c.timer /\ d.m_handshake_timer = c.m_handshake_timer
         /\ d.op = [c.op EXCEPT ![o] = "none"]
<1> DEFINE f == [c.op EXCEPT ![o] = "none"]
<1>1. d = [c EXCEPT !.op = f]
  BY DEF Ended, Conn
<1>2. f \in [Ops -> Statuses]
  BY DEF Conn, Statuses
<1> HIDE DEF f
<1>3. /\ d \in Conn /\ SameBut(c, d) /\ d.op = f /\ d.timer = c.timer
      /\ d.m_handshake_timer = c.m_handshake_timer
  BY <1>1, <1>2, SetOp
<1> QED BY <1>3 DEF f

LEMMA PostIs ==
  ASSUME NEW c, c \in Conn, NEW o, o \in Ops, NEW d, d = Post(c, o)
  PROVE  /\ d \in Conn /\ SameBut(c, d)
         /\ d.timer = c.timer /\ d.m_handshake_timer = c.m_handshake_timer
         /\ d.op = [c.op EXCEPT ![o] = "pending"]
<1> DEFINE f == [c.op EXCEPT ![o] = "pending"]
<1>1. d = [c EXCEPT !.op = f]
  BY DEF Post, Conn
<1>2. f \in [Ops -> Statuses]
  BY DEF Conn, Statuses
<1> HIDE DEF f
<1>3. /\ d \in Conn /\ SameBut(c, d) /\ d.op = f /\ d.timer = c.timer
      /\ d.m_handshake_timer = c.m_handshake_timer
  BY <1>1, <1>2, SetOp
<1> QED BY <1>3 DEF f

LEMMA CancelIs ==
  ASSUME NEW c, c \in Conn, NEW ops, ops \subseteq Ops, NEW d, d = Cancel(c, ops)
  PROVE  /\ d \in Conn /\ SameBut(c, d)
         /\ d.timer = c.timer /\ d.m_handshake_timer = c.m_handshake_timer
         /\ \A o \in Ops :
              d.op[o] = IF o \in ops /\ c.op[o] = "pending" THEN "cancelled" ELSE c.op[o]
<1> DEFINE f == [o \in Ops |-> IF o \in ops /\ c.op[o] = "pending" THEN "cancelled" ELSE c.op[o]]
<1>1. d = [c EXCEPT !.op = f]
  BY DEF Cancel, Conn
<1>2. f \in [Ops -> Statuses]
  BY DEF Conn, Statuses
<1> HIDE DEF f
<1>3. /\ d \in Conn /\ SameBut(c, d) /\ d.op = f /\ d.timer = c.timer
      /\ d.m_handshake_timer = c.m_handshake_timer
  BY <1>1, <1>2, SetOp
<1> QED BY <1>3 DEF f

LEMMA ArmIs ==
  ASSUME NEW c, c \in Conn, NEW t, t \in Timers, NEW d, d = Arm(c, t)
  PROVE  /\ d \in Conn /\ SameBut(c, d)
         /\ d.op = c.op /\ d.m_handshake_timer = c.m_handshake_timer
         /\ d.timer = [c.timer EXCEPT ![t] = IF c.timer[t] = "expired" THEN "expired" ELSE "armed"]
<1> DEFINE f == [c.timer EXCEPT ![t] = IF c.timer[t] = "expired" THEN "expired" ELSE "armed"]
<1>1. d = [c EXCEPT !.timer = f]
  BY DEF Arm, Conn
<1>2. f \in [Timers -> Clocks]
  BY DEF Conn, Clocks
<1> HIDE DEF f
<1>3. /\ d \in Conn /\ SameBut(c, d) /\ d.op = c.op /\ d.timer = f
      /\ d.m_handshake_timer = c.m_handshake_timer
  BY <1>1, <1>2, SetTimer
<1> QED BY <1>3 DEF f

LEMMA CancelTimerIs ==
  ASSUME NEW c, c \in Conn, NEW t, t \in Timers, NEW d, d = CancelTimer(c, t)
  PROVE  /\ d \in Conn /\ SameBut(c, d)
         /\ d.op = c.op /\ d.m_handshake_timer = c.m_handshake_timer
         /\ d.timer = [c.timer EXCEPT ![t] = IF c.timer[t] = "armed" THEN "off" ELSE c.timer[t]]
<1> DEFINE f == [c.timer EXCEPT ![t] = IF c.timer[t] = "armed" THEN "off" ELSE c.timer[t]]
<1>1. d = [c EXCEPT !.timer = f]
  BY DEF CancelTimer, Conn
<1>2. f \in [Timers -> Clocks]
  BY DEF Conn, Clocks
<1> HIDE DEF f
<1>3. /\ d \in Conn /\ SameBut(c, d) /\ d.op = c.op /\ d.timer = f
      /\ d.m_handshake_timer = c.m_handshake_timer
  BY <1>1, <1>2, SetTimer
<1> QED BY <1>3 DEF f

(* No timer but those of the two handshakes is cancelled with them.         *)
LEMMA HandshakeIs ==
  ASSUME NEW c, c \in Conn, NEW d, d = CancelHandshakeTimer(c)
  PROVE  /\ d \in Conn /\ SameBut(c, d) /\ d.op = c.op
         /\ \A t \in Timers :
              \/ d.timer[t] = c.timer[t]
              \/ t \in {"open", "close"} /\ c.timer[t] = "armed" /\ d.timer[t] = "off"
<1> DEFINE h == c.m_handshake_timer
           e == CancelTimer(c, h)
<1>1. CASE h = "none"
  BY <1>1 DEF CancelHandshakeTimer, SameBut
<1>2. CASE h # "none"
  <2>1. h \in {"open", "close"} /\ h \in Timers
    BY <1>2 DEF Conn, Timers
  <2>2. /\ e \in Conn /\ SameBut(c, e) /\ e.op = c.op
        /\ e.timer = [c.timer EXCEPT ![h] = IF c.timer[h] = "armed" THEN "off" ELSE c.timer[h]]
    <3> HIDE DEF h
    <3> QED BY <2>1, CancelTimerIs
  <2>3. d = [e EXCEPT !.m_handshake_timer = "none"]
    BY <1>2 DEF CancelHandshakeTimer
  <2> HIDE DEF e, h
  <2>4. d \in Conn
    BY <2>2, <2>3 DEF Conn
  <2>5. SameBut(c, d)
    BY <2>2, <2>3 DEF Conn, SameBut
  <2>6. d.op = c.op /\ d.timer = e.timer
    BY <2>2, <2>3 DEF Conn
  <2>7. c.timer \in [Timers -> Clocks]
    BY DEF Conn, Clocks
  <2> QED BY <2>1, <2>2, <2>4, <2>5, <2>6, <2>7
<1> QED BY <1>1, <1>2

(* The fields a call leaves alone when it sets m_state.                     *)
SameRest(c, d) ==
  /\ d.m_internal_state = c.m_internal_state /\ d.reading = c.reading
  /\ d.m_write_flag = c.m_write_flag /\ d.calls = c.calls /\ d.refused = c.refused

(* MDSocket has heard no more of d than of c.                               *)
Untold(c, d) == d.calls = c.calls /\ d.refused = c.refused

(* No shutdown begins, and none comes to an end that tells MDSocket.        *)
LEMMA ShutdownKept ==
  ASSUME NEW c, NEW d, ShutdownInv(c), Untold(c, d),
         d.m_state = "closed" <=> c.m_state = "closed",
         \A o \in Shutdowns :
           /\ d.timer[o] = c.timer[o] \/ (Live(c, o) /\ Live(d, o))
           /\ Busy(d, o) => Busy(c, o)
  PROVE  ShutdownInv(d)
<1>1. \A h : Told(d, h) <=> Told(c, h)
  BY DEF Told, Untold
<1>2. \A o : Due(d, o) <=> Due(c, o)
  BY <1>1 DEF Due, Untold
<1> QED BY <1>1, <1>2 DEF ShutdownInv, Live

(* The shutdown that terminate begins.                                     *)
Begins(c, o) == c.m_state # "closed" /\ o = tstat(c)

LEMMA TerminateIs ==
  ASSUME NEW c, c \in Conn, ShutdownInv(c), CallsInv(c), NEW d, d = terminate(c)
  PROVE  /\ d \in Conn /\ SameRest(c, d) /\ d.m_state = "closed"
         /\ \A o \in Ops : o \notin Shutdowns => d.op[o] = c.op[o]
         /\ \A t \in Timers : t \notin Shutdowns =>
              \/ d.timer[t] = c.timer[t]
              \/ t \in {"open", "close"} /\ c.timer[t] = "armed" /\ d.timer[t] = "off"
         /\ \A o \in Shutdowns :
              IF Begins(c, o) THEN d.op[o] = "pending" /\ d.timer[o] = "armed"
              ELSE d.op[o] = c.op[o] /\ d.timer[o] = c.timer[o]
<1> DEFINE e == CancelHandshakeTimer(c)
           o == tstat(c)
           g == [e EXCEPT !.m_state = "closed"]
           h == Arm(g, o)
<1>1. /\ e \in Conn /\ SameBut(c, e) /\ e.op = c.op
      /\ \A t \in Timers :
           \/ e.timer[t] = c.timer[t]
           \/ t \in {"open", "close"} /\ c.timer[t] = "armed" /\ e.timer[t] = "off"
  BY HandshakeIs
<1>2. o \in Shutdowns /\ o \in Ops /\ o \in Timers /\ o \notin {"open", "close"}
  BY DEF Ops, Timers, tstat, Shutdowns
<1>3. CASE c.m_state = "closed"
  <2>1. d = e
    BY <1>3 DEF terminate
  <2> HIDE DEF e
  <2>2. Shutdowns \subseteq Timers /\ \A t \in Shutdowns : t \notin {"open", "close"}
    BY DEF Timers, Shutdowns
  <2> QED BY <1>1, <1>3, <2>1, <2>2 DEF SameBut, SameRest, Begins
<1>4. CASE c.m_state # "closed"
  <2>1. d = Start(h, o)
    BY <1>4, <1>1 DEF terminate, async_shutdown, SameBut
  <2>2. c.timer[o] = "off" /\ ~Busy(c, o)
    <3>1. ~Due(c, o)
      <4>1. CASE c.m_state = "connecting"
        BY <1>4, <4>1 DEF Due, tstat, CallsInv, Unheard
      <4>2. CASE c.m_state # "connecting"
        BY <1>4, <4>2 DEF Due, tstat
      <4> QED BY <4>1, <4>2
    <3> HIDE DEF o
    <3> QED BY <1>2, <3>1 DEF ShutdownInv
  <2> HIDE DEF e, o
  <2>3. g \in Conn
    BY <1>1 DEF Conn, States
  <2>4. g.op = e.op /\ g.timer = e.timer /\ g.m_state = "closed" /\ SameRest(e, g)
    BY <1>1 DEF Conn, SameRest
  <2> HIDE DEF g
  <2>5. /\ h \in Conn /\ SameBut(g, h) /\ h.op = g.op
        /\ h.timer = [g.timer EXCEPT ![o] = IF g.timer[o] = "expired" THEN "expired" ELSE "armed"]
    BY <1>2, <2>3, ArmIs
  <2> HIDE DEF h
  <2>6. ~Busy(h, o)
    BY <1>1, <2>2, <2>4, <2>5 DEF Busy
  <2>7. /\ d \in Conn /\ SameBut(h, d) /\ d.timer = h.timer
        /\ d.op = [h.op EXCEPT ![o] = "pending"]
    BY <1>2, <2>1, <2>5, <2>6, StartIs
  <2>8. e.timer[o] = "off"
    BY <1>1, <1>2, <2>2
  <2>9. c.op \in [Ops -> Statuses] /\ e.timer \in [Timers -> Clocks]
    BY <1>1 DEF Conn, Clocks, Statuses
  <2>10. /\ \A p \in Ops : p # o => d.op[p] = c.op[p]
         /\ d.op[o] = "pending"
    BY <1>1, <1>2, <2>4, <2>5, <2>7, <2>9
  <2>11. /\ \A t \in Timers : t # o => d.timer[t] = e.timer[t]
         /\ d.timer[o] = "armed"
    BY <1>2, <2>4, <2>5, <2>7, <2>8, <2>9
  <2>12. SameRest(c, d) /\ d.m_state = "closed"
    BY <1>1, <2>4, <2>5, <2>7 DEF SameBut, SameRest
  <2>13. \A p : Begins(c, p) <=> p = o
    BY <1>4 DEF Begins, o
  <2>14. /\ Shutdowns \subseteq Ops /\ Shutdowns \subseteq Timers
         /\ \A t \in Shutdowns : t \notin {"open", "close"}
    BY DEF Ops, Timers, Shutdowns
  <2> QED BY <1>1, <1>2, <2>7, <2>10, <2>11, <2>12, <2>13, <2>14
<1> QED BY <1>3, <1>4

(* An end of the attempt, with nothing else set in motion.                 *)
LEMMA TerminateStory ==
  ASSUME NEW c, c \in Conn, ShutdownInv(c), CallsInv(c)
  PROVE  Story(terminate(c)) /\ terminate(c).m_state = "closed"
<1> DEFINE d == terminate(c)
<1>1. /\ SameRest(c, d) /\ d.m_state = "closed"
      /\ \A o \in Shutdowns :
           IF Begins(c, o) THEN d.op[o] = "pending" /\ d.timer[o] = "armed"
           ELSE d.op[o] = c.op[o] /\ d.timer[o] = c.timer[o]
  BY TerminateIs
<1>2. c.m_state \in {"connecting", "open", "closing", "closed"}
  BY DEF Conn, States
<1> HIDE DEF d
<1>3. \A h : Told(d, h) <=> Told(c, h)
  BY <1>1 DEF Told, SameRest
<1>4. CallsInv(d) /\ GoesOn(d)
  BY <1>1, <1>3 DEF CallsInv, GoesOn, SameRest
<1>5. ShutdownInv(d)
  <2> SUFFICES ASSUME NEW o \in Shutdowns
               PROVE  IF Due(d, o)
                      THEN IF Told(d, Ends(o)) THEN d.timer[o] = "over" \/ (d.timer[o] = "off" /\ ~Busy(d, o))
                           ELSE Live(d, o)
                      ELSE ~Told(d, Ends(o)) /\ d.timer[o] = "off" /\ ~Busy(d, o)
    BY DEF ShutdownInv
  <2>1. d.refused = c.refused /\ d.m_state = "closed"
    BY <1>1 DEF SameRest
  <2>2. c.m_state = "connecting" => ~Told(c, "OnOpen") /\ ~c.refused
    BY DEF CallsInv, Unheard, Told
  <2>3. c.m_state \in {"open", "closing"} => Told(c, "OnOpen")
    BY DEF CallsInv
  <2>4. CASE Begins(c, o)
    <3>1. Due(d, o) /\ ~Due(c, o)
      BY <1>2, <1>3, <2>1, <2>2, <2>3, <2>4 DEF Begins, tstat, Due
    <3>2. ~Told(d, Ends(o))
      BY <1>3, <3>1 DEF ShutdownInv
    <3> QED BY <1>1, <2>4, <3>1, <3>2 DEF Live
  <2>5. CASE ~Begins(c, o)
    <3>1. Due(d, o) <=> Due(c, o)
      BY <1>2, <1>3, <2>1, <2>2, <2>3, <2>5 DEF Begins, tstat, Due, Shutdowns
    <3>2. d.op[o] = c.op[o] /\ d.timer[o] = c.timer[o]
      BY <1>1, <2>5
    <3> QED BY <1>3, <3>1, <3>2 DEF ShutdownInv, Live, Busy
  <2> QED BY <2>4, <2>5
<1> QED BY <1>1, <1>4, <1>5 DEF Story, d

(* What MDSocket has been told when one more of its handlers is called.     *)
Handlers == {"OnOpen", "OnFail", "OnClose"}

LEMMA ToldOneMore ==
  ASSUME NEW c, c.calls \in Seq(Handlers), NEW h \in Handlers,
         NEW d, d.calls = Append(c.calls, h)
  PROVE  /\ d.calls \in Seq(Handlers)
         /\ \A g : Told(d, g) <=> Told(c, g) \/ g = h
<1> DEFINE q == c.calls
           r == Append(q, h)
<1>1. /\ r \in Seq(Handlers) /\ Len(r) = Len(q) + 1 /\ r[Len(q) + 1] = h
      /\ \A n \in 1 .. Len(q) : r[n] = q[n]
  OBVIOUS
<1>2. DOMAIN r = 1 .. Len(q) + 1 /\ DOMAIN q = 1 .. Len(q) /\ Len(q) \in Nat
  BY <1>1
<1> HIDE DEF q, r
<1>3. \A g : (\E n \in DOMAIN r : r[n] = g) <=> (\E n \in DOMAIN q : q[n] = g) \/ g = h
  <2> TAKE g
  <2>1. ASSUME NEW n \in DOMAIN r, r[n] = g
        PROVE  (\E m \in DOMAIN q : q[m] = g) \/ g = h
    <3>1. n \in 1 .. Len(q) \/ n = Len(q) + 1
      BY <1>2
    <3> QED BY <1>1, <1>2, <2>1, <3>1
  <2>2. ASSUME NEW n \in DOMAIN q, q[n] = g
        PROVE  \E m \in DOMAIN r : r[m] = g
    <3>1. n \in DOMAIN r /\ r[n] = g
      BY <1>1, <1>2, <2>2
    <3> QED BY <3>1
  <2>3. ASSUME g = h
        PROVE  \E m \in DOMAIN r : r[m] = g
    <3>1. Len(q) + 1 \in DOMAIN r /\ r[Len(q) + 1] = g
      BY <1>1, <1>2, <2>3
    <3> QED BY <3>1
  <2> QED BY <2>1, <2>2, <2>3
<1> QED BY <1>1, <1>3 DEF Told, q, r

(* OnFail or OnClose is called.                                            *)
LEMMA HandleTerminateIs ==
  ASSUME NEW c, c \in Conn, NEW o \in Shutdowns, NEW d, d = handle_terminate(c, o)
  PROVE  /\ d \in Conn /\ d.calls = Append(c.calls, Ends(o)) /\ d.refused = c.refused
         /\ d.m_state = c.m_state /\ d.m_internal_state = c.m_internal_state
         /\ d.reading = c.reading /\ d.m_write_flag = c.m_write_flag
         /\ d.op = c.op /\ d.timer = c.timer
<1> DEFINE s == Append(c.calls, Ends(o))
<1>1. d = [c EXCEPT !.calls = s]
  BY DEF handle_terminate, Conn, Ends
<1>2. s \in Seq({"OnOpen", "OnFail", "OnClose"})
  BY DEF Conn, Ends
<1> HIDE DEF s
<1>3. d \in Conn
  BY <1>1, <1>2 DEF Conn
<1> QED BY <1>1, <1>3 DEF Conn, s

-----------------------------------------------------------------------------
(* The invariant through a step that ends, cancels or begins something.     *)

Good(c) == c \in Conn /\ Shape(c) /\ Story(c)

(* The statuses of a connection.                                           *)
LEMMA Kinds ==
  ASSUME NEW c, c \in Conn
  PROVE  /\ c.op \in [Ops -> Statuses] /\ c.timer \in [Timers -> Clocks]
         /\ c.m_state \in {"connecting", "open", "closing", "closed"}
         /\ c.reading \in BOOLEAN /\ c.m_write_flag \in BOOLEAN
         /\ Chain \subseteq Ops /\ Stages \subseteq Timers /\ Stages \subseteq Chain
         /\ Shutdowns \subseteq Ops \ Chain /\ Shutdowns \subseteq Timers \ Stages
         /\ {"write", "write_frame"} \subseteq Ops \ (Chain \union Shutdowns)
         /\ {"open", "close"} \subseteq Timers \ (Stages \union Shutdowns)
         /\ {"request", "response", "frame"} \subseteq Chain \ Stages
         /\ \A o \in Ops : o \in Chain \union Shutdowns \union {"write", "write_frame"}
         /\ \A t \in Timers : t \in Stages \union Shutdowns \union {"open", "close"}
<1>1. c.op \in [Ops -> Statuses] /\ c.timer \in [Timers -> Clocks]
  BY DEF Conn, Statuses, Clocks
<1>2. /\ c.m_state \in {"connecting", "open", "closing", "closed"}
      /\ c.reading \in BOOLEAN /\ c.m_write_flag \in BOOLEAN
  BY DEF Conn, States
<1> QED BY <1>1, <1>2 DEF Ops, Timers, Chain, Stages, Shutdowns

(* Ending and cancelling operations.                                       *)
LEMMA FewerBusy ==
  ASSUME NEW c, c \in Conn, NEW d, ChainInv(c), WriteInv(c),
         SameRest(c, d) \/ SameBut(c, d),
         \A o \in Ops : o \notin Shutdowns => (Busy(d, o) => Busy(c, o))
  PROVE  ChainInv(d) /\ WriteInv(d)
<1>1. /\ d.m_internal_state = c.m_internal_state /\ d.reading = c.reading
      /\ d.m_write_flag = c.m_write_flag
  BY DEF SameRest, SameBut
<1>2. \A o \in Chain : Busy(d, o) => Busy(c, o)
  BY Kinds
<1>3. ChainInv(d)
  BY <1>1, <1>2 DEF ChainInv
<1>4. (Busy(d, "write") => Busy(c, "write")) /\ (Busy(d, "write_frame") => Busy(c, "write_frame"))
  BY Kinds
<1> QED BY <1>1, <1>3, <1>4 DEF WriteInv

(* terminate, when no stage is under way.                                  *)
LEMMA TerminateGood ==
  ASSUME NEW c, c \in Conn, ChainInv(c), WriteInv(c), ShutdownInv(c), CallsInv(c),
         \A t \in Stages : ~Live(c, t) /\ (Busy(c, t) => c.timer[t] = "over"),
         NEW d, d = terminate(c)
  PROVE  Good(d) /\ Untold(c, d)
<1>1. /\ d \in Conn /\ SameRest(c, d) /\ d.m_state = "closed"
      /\ \A o \in Ops : o \notin Shutdowns => d.op[o] = c.op[o]
      /\ \A t \in Timers : t \notin Shutdowns =>
           \/ d.timer[t] = c.timer[t]
           \/ t \in {"open", "close"} /\ c.timer[t] = "armed" /\ d.timer[t] = "off"
  BY TerminateIs
<1>2. Story(d)
  BY TerminateStory
<1>3. ChainInv(d) /\ WriteInv(d)
  BY <1>1, FewerBusy DEF Busy
<1>4. \A t \in Stages : d.timer[t] = c.timer[t] /\ d.op[t] = c.op[t]
  BY <1>1, Kinds
<1>5. StageInv(d)
  BY <1>1, <1>4 DEF StageInv, Live, Busy
<1> QED BY <1>1, <1>2, <1>3, <1>5 DEF Good, Shape, SameRest, Untold

(* A connection between two stages.                                        *)
Bare(c) ==
  /\ c.m_state = "connecting" /\ Unheard(c) /\ ~c.reading
  /\ \A o \in Ops : ~Busy(c, o)
  /\ \A t \in Timers : ~Live(c, t)
  /\ \A o \in Shutdowns : c.timer[o] = "off"

LEMMA BareGood ==
  ASSUME NEW c, Bare(c), NEW d, d \in Conn, SameBut(c, d),
         NEW o \in Chain, c.m_internal_state = During(o), d.op = [c.op EXCEPT ![o] = "pending"],
         c \in Conn,
         NEW t \in Timers \ Shutdowns, d.timer = [c.timer EXCEPT ![t] = "armed"],
         o \in Stages => t = o, o \notin Stages => o = "request" /\ t \notin Stages
  PROVE  Good(d)
<1>1. /\ d.op[o] = "pending" /\ d.timer[t] = "armed"
      /\ \A p \in Ops : p # o => ~Busy(d, p)
      /\ \A u \in Timers : u # t => d.timer[u] = c.timer[u] /\ ~Live(d, u)
      /\ o \in Ops
  BY Kinds DEF Bare, Busy, Live
<1>2. d.m_state = "connecting" /\ d.m_internal_state = During(o) /\ ~d.reading /\ Unheard(d)
  BY DEF SameBut, Bare, Unheard
<1>3. ChainInv(d)
  BY <1>1, <1>2, Kinds DEF ChainInv
<1>4. WriteInv(d)
  BY <1>1, Kinds DEF WriteInv
<1>5. StageInv(d)
  <2> SUFFICES ASSUME NEW s \in Stages
               PROVE  /\ Busy(d, s) => d.timer[s] # "off"
                      /\ Busy(d, s) /\ d.timer[s] = "over" => d.m_state = "closed"
                      /\ d.timer[s] = "armed" => d.op[s] = "pending"
                      /\ Live(d, s) =>
                           /\ d.m_state = "connecting" /\ d.m_internal_state = During(s) /\ ~d.reading
                           /\ \A p \in Chain : Busy(d, p) => p = s
                           /\ \A u \in Timers : Live(d, u) => u = s
    BY DEF StageInv
  <2>1. s \in Timers /\ s \in Ops /\ Chain \subseteq Ops
    BY Kinds
  <2>2. CASE s = o
    BY <1>1, <1>2, <2>1, <2>2
  <2>3. CASE s # o
    BY <1>1, <2>1, <2>3 DEF Live
  <2> QED BY <2>2, <2>3
<1>6. ShutdownInv(d)
  <2>1. \A p \in Shutdowns : p \in Ops /\ p # o /\ p \in Timers /\ p # t
    BY Kinds
  <2>2. \A p \in Shutdowns : d.timer[p] = "off" /\ ~Busy(d, p)
    BY <1>1, <2>1 DEF Bare
  <2>3. \A h : ~Told(d, h)
    BY <1>2 DEF Told, Unheard
  <2> QED BY <1>2, <2>2, <2>3 DEF ShutdownInv, Due, Unheard
<1>7. CallsInv(d)
  BY <1>2 DEF CallsInv, Unheard
<1>8. GoesOn(d)
  BY <1>1, <1>2 DEF GoesOn, Live, Busy
<1> QED BY <1>3, <1>4, <1>5, <1>6, <1>7, <1>8 DEF Good, Shape, Story

(* A stage begins.                                                         *)
LEMMA BeginGood ==
  ASSUME NEW c, c \in Conn, Bare(c), NEW o, o \in Stages, c.m_internal_state = During(o),
         NEW d, d = Start(Arm(c, o), o)
  PROVE  Good(d) /\ Unheard(d)
<1> DEFINE e == Arm(c, o)
<1>0. o \in Ops /\ o \in Timers \ Shutdowns /\ o \in Chain
  BY Kinds
<1>1. /\ e \in Conn /\ SameBut(c, e) /\ e.op = c.op
      /\ e.timer = [c.timer EXCEPT ![o] = IF c.timer[o] = "expired" THEN "expired" ELSE "armed"]
  BY <1>0, ArmIs
<1>2. ~Busy(e, o)
  BY <1>0, <1>1 DEF Bare, Busy
<1>3. d = Start(e, o)
  OBVIOUS
<1> HIDE DEF e
<1>4. d \in Conn /\ SameBut(e, d) /\ d.timer = e.timer /\ d.op = [e.op EXCEPT ![o] = "pending"]
  BY ONLY <1>0, <1>1, <1>2, <1>3, StartIs
<1>5. SameBut(c, d)
  BY <1>1, <1>4 DEF SameBut
<1>6. c.timer[o] # "expired"
  BY <1>0 DEF Bare, Live
<1>7. d.timer = [c.timer EXCEPT ![o] = "armed"] /\ d.op = [c.op EXCEPT ![o] = "pending"]
  BY <1>1, <1>4, <1>6
<1>8. Good(d)
  BY <1>0, <1>4, <1>5, <1>7, BareGood
<1> QED BY <1>5, <1>8 DEF SameBut, Bare, Unheard

-----------------------------------------------------------------------------
(* The stages of connecting.                                               *)

(* No shutdown has begun of a connection that is not open yet.              *)
LEMMA NothingDue ==
  ASSUME NEW c, ShutdownInv(c), CallsInv(c), c.m_state = "connecting"
  PROVE  \A o \in Shutdowns : c.timer[o] = "off" /\ ~Busy(c, o)
<1>1. \A o : ~Due(c, o)
  BY DEF Due, CallsInv, Unheard
<1> QED BY <1>1 DEF ShutdownInv

(* A stage whose timer has not run out has it all to itself.                *)
LEMMA StageAlone ==
  ASSUME Good(con), NEW o, o \in Stages, Busy(con, o), ~Expired(con, o)
  PROVE  /\ con.op[o] = "pending" /\ con.timer[o] = "armed"
         /\ Bare(Stage(o)) /\ Stage(o) \in Conn /\ SameBut(con, Stage(o))
<1> DEFINE e == Ended(con, o)
           d == Stage(o)
<1>0. o \in Ops /\ o \in Timers \ Shutdowns /\ o \in Chain /\ con \in Conn
  BY Kinds DEF Good
<1>1. con.timer[o] = "armed" /\ con.op[o] = "pending" /\ Live(con, o)
  <2>1. con.timer[o] \in Clocks
    BY <1>0, Kinds
  <2> QED BY <2>1 DEF Good, Shape, StageInv, Expired, Live, Clocks
<1>2. /\ con.m_state = "connecting" /\ ~con.reading /\ con.m_internal_state = During(o)
      /\ \A p \in Chain : Busy(con, p) => p = o
      /\ \A u \in Timers : Live(con, u) => u = o
  BY <1>1 DEF Good, Shape, StageInv
<1>3. \A p \in Shutdowns : con.timer[p] = "off" /\ ~Busy(con, p)
  BY <1>2, NothingDue DEF Good, Story
<1>4. /\ e \in Conn /\ SameBut(con, e) /\ e.timer = con.timer
      /\ e.op = [con.op EXCEPT ![o] = "none"]
  BY <1>0, EndedIs
<1> HIDE DEF e
<1>5. /\ d \in Conn /\ SameBut(e, d) /\ d.op = e.op
      /\ d.timer = [e.timer EXCEPT ![o] = IF e.timer[o] = "armed" THEN "off" ELSE e.timer[o]]
  BY <1>0, <1>4, CancelTimerIs DEF Stage, e
<1> HIDE DEF d
<1>6. SameBut(con, d)
  BY <1>4, <1>5 DEF SameBut
<1>7. \A p \in Ops : ~Busy(d, p)
  <2>1. d.op[o] = "none" /\ \A p \in Ops : p # o => d.op[p] = con.op[p]
    BY <1>0, <1>4, <1>5, Kinds
  <2>2. ~Busy(con, "write") /\ ~Busy(con, "write_frame")
    BY <1>0, <1>2 DEF Good, Shape, WriteInv, During, Stages
  <2>3. \A p \in Shutdowns : ~Busy(con, p)
    BY <1>3
  <2> QED BY <1>0, <1>2, <2>1, <2>2, <2>3, Kinds DEF Busy
<1>8. \A u \in Timers : ~Live(d, u)
  <2>1. d.timer[o] = "off" /\ \A u \in Timers : u # o => d.timer[u] = con.timer[u]
    BY <1>0, <1>1, <1>4, <1>5, Kinds
  <2> QED BY <1>2, <2>1 DEF Live
<1>9. \A p \in Shutdowns : d.timer[p] = "off"
  BY <1>0, <1>4, <1>5, <1>3, Kinds
<1>10. Unheard(con)
  BY <1>2 DEF Good, Story, CallsInv
<1> QED BY <1>1, <1>2, <1>5, <1>6, <1>7, <1>8, <1>9, <1>10 DEF Bare, SameBut, Unheard, d

(* An operation that ends and leaves its connection to others.              *)
LEMMA EndedGood ==
  ASSUME Good(con), NEW o, o \in Ops, NEW d, d = Ended(con, o),
         o \in Stages => con.timer[o] # "armed",
         o \in {"request", "response", "frame"} => con.m_state = "closed"
  PROVE  Good(d) /\ Untold(con, d)
<1>1. /\ d \in Conn /\ SameBut(con, d) /\ d.timer = con.timer
      /\ d.op = [con.op EXCEPT ![o] = "none"]
  BY EndedIs DEF Good
<1>2. /\ \A p \in Ops : Busy(d, p) => d.op[p] = con.op[p]
      /\ \A p \in Ops : p # o => d.op[p] = con.op[p]
      /\ ~Busy(d, o)
  BY <1>1, Kinds DEF Busy, Good
<1>3. ChainInv(d) /\ WriteInv(d)
  BY <1>1, <1>2, FewerBusy DEF Good, Shape, Busy
<1>4. StageInv(d)
  <2>1. \A t \in Stages : Busy(d, t) => d.op[t] = con.op[t]
    BY <1>2, Kinds DEF Good
  <2>2. \A t \in Stages : con.timer[t] = "armed" => t # o /\ d.op[t] = con.op[t]
    BY <1>2, Kinds DEF Good
  <2>3. \A p \in Chain : Busy(d, p) => Busy(con, p)
    BY <1>2, Kinds DEF Busy, Good
  <2> QED BY <1>1, <2>1, <2>2, <2>3 DEF Good, Shape, StageInv, Live, Busy, SameBut
<1>5. ShutdownInv(d)
  <2>1. \A p \in Shutdowns : d.timer[p] = con.timer[p] /\ (Busy(d, p) => Busy(con, p))
    BY <1>1, <1>2, Kinds DEF Busy, Good
  <2> QED BY <1>1, <2>1, ShutdownKept DEF Good, Story, SameBut, Untold
<1>6. CallsInv(d)
  BY <1>1 DEF Good, Story, CallsInv, SameBut, Told, Unheard
<1>7. GoesOn(d)
  <2>1. CASE o \in {"request", "response", "frame"}
    BY <1>1, <2>1 DEF GoesOn, SameBut
  <2>2. CASE o \notin {"request", "response", "frame"}
    <3>1. \A p \in {"request", "response", "frame"} : d.op[p] = con.op[p]
      BY <1>2, <2>2, Kinds DEF Ops
    <3> QED BY <1>1, <3>1 DEF Good, Story, GoesOn, SameBut, Live, Busy
  <2> QED BY <2>1, <2>2
<1> QED BY <1>1, <1>3, <1>4, <1>5, <1>6, <1>7 DEF Good, Shape, Story, SameBut, Untold

(* A stage ends: too late, or with an error; what it goes on with when it   *)
(* has ended well is the caller's.                                         *)
LEMMA StageEndsGood ==
  ASSUME Good(con), NEW o, o \in Stages, NEW result, NEW d,
         StageEnds(o, result, d),
         Busy(con, o) /\ ~Expired(con, o) /\ Bare(Stage(o)) /\ Stage(o) \in Conn =>
           Good(d) /\ Unheard(d)
  PROVE  Good(con') /\ Untold(con, con') /\ UNCHANGED <<pcM, orphans, tick>>
<1>0. o \in Ops /\ con \in Conn /\ "resolve" \in Ops
  BY Kinds DEF Good, Ops
<1>1. /\ result \in Results(o) /\ UNCHANGED <<pcM, orphans, tick>>
      /\ con' = IF Expired(con, o) \/ (result = "aborted" /\ o # "tls") THEN Ended(con, o)
                ELSE IF result = "ok" THEN d
                ELSE terminate(CancelTimer(Ended(con, o), o))
  BY DEF StageEnds, Handles
<1>2. Busy(con, o) /\ (result = "aborted" => con.op[o] = "cancelled")
  <2>1. con.op[o] # "none"
    BY <1>1 DEF Results
  <2>2. con.op[o] # "cancelled" => Results(o) = {"ok", "error"}
    BY <2>1 DEF Results
  <2> QED BY <1>1, <2>1, <2>2 DEF Busy
<1>3. CASE Expired(con, o)
  <2>1. con' = Ended(con, o)
    BY <1>1, <1>3
  <2>2. con.timer[o] # "armed" /\ o \notin {"request", "response", "frame"}
    BY <1>3 DEF Expired, Stages
  <2> QED BY <1>0, <1>1, <2>1, <2>2, EndedGood
<1>4. CASE ~Expired(con, o)
  <2>1. /\ con.op[o] = "pending" /\ con.timer[o] = "armed"
        /\ Bare(Stage(o)) /\ Stage(o) \in Conn /\ SameBut(con, Stage(o))
    BY <1>2, <1>4, StageAlone
  <2>2. Unheard(con)
    BY <2>1 DEF Bare, SameBut, Unheard
  <2>3. CASE result = "ok"
    <3>1. con' = d
      BY <1>1, <1>4, <2>3
    <3> QED BY <1>1, <1>2, <1>4, <2>1, <2>2, <3>1 DEF Unheard, Untold
  <2>4. CASE result # "ok"
    <3> DEFINE e == Stage(o)
    <3>1. con' = terminate(e)
      BY <1>1, <1>2, <1>4, <2>1, <2>4 DEF Stage
    <3> HIDE DEF e
    <3>2. /\ e \in Conn /\ e.m_state = "connecting" /\ Unheard(e) /\ ~e.reading
          /\ \A p \in Ops : ~Busy(e, p)
          /\ \A t \in Timers : ~Live(e, t)
          /\ \A p \in Shutdowns : e.timer[p] = "off"
      BY <2>1 DEF e, Bare
    <3>3. ChainInv(e) /\ WriteInv(e)
      BY <3>2, Kinds DEF ChainInv, WriteInv
    <3>4. ShutdownInv(e) /\ CallsInv(e)
      BY <3>2, Kinds DEF ShutdownInv, CallsInv, Due, Told, Unheard
    <3>5. \A t \in Stages : ~Live(e, t) /\ (Busy(e, t) => e.timer[t] = "over")
      BY <3>2, Kinds
    <3>6. Good(con') /\ Untold(e, con')
      BY <3>1, <3>2, <3>3, <3>4, <3>5, TerminateGood
    <3> QED BY <1>1, <2>2, <3>2, <3>6 DEF Untold, Unheard
  <2> QED BY <2>3, <2>4
<1> QED BY <1>3, <1>4

LEMMA ResolveGood ==
  ASSUME Good(con), NEW result, handle_resolve(result)
  PROVE  Good(con') /\ Untold(con, con') /\ UNCHANGED <<pcM, orphans, tick>>
<1> DEFINE c == Stage("resolve")
           d == Begin(c, "connect")
<1>1. StageEnds("resolve", result, d)
  BY DEF handle_resolve
<1>2. ASSUME Bare(c), c \in Conn, Busy(con, "resolve"), ~Expired(con, "resolve")
      PROVE  Good(d) /\ Unheard(d)
  <2>1. SameBut(con, c) /\ con.timer["resolve"] = "armed"
    BY <1>2, StageAlone DEF Stages
  <2>2. con.m_internal_state = "USER_INIT"
    BY <2>1 DEF Good, Shape, StageInv, Live, Stages, During
  <2>3. c.m_internal_state = During("connect") /\ "connect" \in Stages
    BY <2>1, <2>2 DEF SameBut, During, Stages
  <2>4. d = Start(Arm(c, "connect"), "connect")
    BY DEF Begin
  <2> HIDE DEF c, d
  <2> QED BY <1>2, <2>3, <2>4, BeginGood
<1> HIDE DEF c, d
<1> QED BY <1>1, <1>2, StageEndsGood DEF c, Stages

(* The next stage, when the internal state moves on with it.               *)
LEMMA MovedOn ==
  ASSUME NEW c, c \in Conn, Bare(c), NEW s, s \in InternalStates,
         NEW d, d = [c EXCEPT !.m_internal_state = s]
  PROVE  d \in Conn /\ Bare(d) /\ d.m_internal_state = s
<1>1. d \in Conn
  BY DEF Conn
<1>2. /\ d.m_internal_state = s /\ d.m_state = c.m_state /\ d.calls = c.calls
      /\ d.reading = c.reading /\ d.refused = c.refused
      /\ d.op = c.op /\ d.timer = c.timer
  BY DEF Conn
<1> QED BY <1>1, <1>2 DEF Bare, Busy, Live, Unheard

LEMMA ConnectGood ==
  ASSUME Good(con), NEW result, handle_connect(result)
  PROVE  Good(con') /\ Untold(con, con') /\ UNCHANGED <<pcM, orphans, tick>>
<1> DEFINE c == Stage("connect")
           e == [c EXCEPT !.m_internal_state = "TRANSPORT_INIT"]
           d == Begin(e, "tls")
<1>1. StageEnds("connect", result, d)
  BY DEF handle_connect
<1>2. ASSUME Bare(c), c \in Conn
      PROVE  Good(d) /\ Unheard(d)
  <2> HIDE DEF c
  <2>1. e \in Conn /\ Bare(e) /\ e.m_internal_state = During("tls") /\ "tls" \in Stages
    BY <1>2, MovedOn DEF During, Stages, InternalStates
  <2>2. d = Start(Arm(e, "tls"), "tls")
    BY DEF Begin
  <2> HIDE DEF d, e
  <2> QED BY <2>1, <2>2, BeginGood
<1> HIDE DEF c, d
<1> QED BY <1>1, <1>2, StageEndsGood DEF c, Stages

LEMMA PostInitGood ==
  ASSUME Good(con), NEW result, handle_post_init(result)
  PROVE  Good(con') /\ Untold(con, con') /\ UNCHANGED <<pcM, orphans, tick>>
<1> DEFINE c == Stage("tls")
           e == [c EXCEPT !.m_internal_state = "WRITE_HTTP_REQUEST"]
           f == Arm(e, "open")
           g == [f EXCEPT !.m_handshake_timer = "open"]
           d == Start(g, "request")
<1>1. StageEnds("tls", result, d)
  BY DEF handle_post_init, ArmHandshakeTimer
<1>2. ASSUME Bare(c), c \in Conn
      PROVE  Good(d) /\ Unheard(d)
  <2> HIDE DEF c
  <2>1. e \in Conn /\ Bare(e) /\ e.m_internal_state = During("request")
    BY <1>2, MovedOn DEF During, InternalStates
  <2> HIDE DEF e
  <2>2. "open" \in Timers \ Shutdowns /\ "open" \notin Stages
        /\ "request" \in Ops /\ "request" \in Chain /\ "request" \notin Stages
    BY DEF Timers, Stages, Ops, Chain, Shutdowns
  <2>3. /\ f \in Conn /\ SameBut(e, f) /\ f.op = e.op
        /\ f.timer = [e.timer EXCEPT !["open"] = IF e.timer["open"] = "expired" THEN "expired" ELSE "armed"]
    BY <2>1, <2>2, ArmIs
  <2> HIDE DEF f
  <2>4. g \in Conn
    BY <2>3 DEF Conn
  <2>5. SameBut(f, g) /\ g.op = f.op /\ g.timer = f.timer
    BY <2>3 DEF Conn, SameBut
  <2> HIDE DEF g
  <2>6. ~Busy(g, "request")
    BY <2>1, <2>2, <2>3, <2>5 DEF Bare, Busy
  <2>7. d \in Conn /\ SameBut(g, d) /\ d.timer = g.timer /\ d.op = [g.op EXCEPT !["request"] = "pending"]
    BY <2>2, <2>4, <2>6, StartIs
  <2> HIDE DEF d
  <2>8. SameBut(e, d)
    BY <2>3, <2>5, <2>7 DEF SameBut
  <2>9. e.timer["open"] # "expired"
    BY <2>1, <2>2 DEF Bare, Live
  <2>10. d.timer = [e.timer EXCEPT !["open"] = "armed"] /\ d.op = [e.op EXCEPT !["request"] = "pending"]
    BY <2>3, <2>5, <2>7, <2>9
  <2>11. Good(d)
    BY <2>1, <2>2, <2>7, <2>8, <2>10, BareGood
  <2> QED BY <2>1, <2>8, <2>11 DEF SameBut, Bare, Unheard
<1> HIDE DEF c, d
<1> QED BY <1>1, <1>2, StageEndsGood DEF c, Stages

-----------------------------------------------------------------------------
(* Beyond the stages.                                                      *)

Quiet(c) == \A t \in Stages : ~Live(c, t) /\ (Busy(c, t) => c.timer[t] = "over")

(* Whatever else is under way shows that no stage is.                      *)
LEMMA QuietIs ==
  ASSUME NEW c, c \in Conn, StageInv(c), WriteInv(c), ShutdownInv(c), CallsInv(c),
         \/ c.m_state # "connecting" \/ c.reading
         \/ \E o \in Ops \ Stages : Busy(c, o)
         \/ \E t \in Timers \ Stages : Live(c, t)
  PROVE  Quiet(c)
<1> SUFFICES ASSUME NEW t \in Stages
             PROVE  ~Live(c, t) /\ (Busy(c, t) => c.timer[t] = "over")
  BY DEF Quiet
<1>1. ~Live(c, t)
  <2> SUFFICES ASSUME Live(c, t) PROVE FALSE
    OBVIOUS
  <2>1. /\ c.m_state = "connecting" /\ c.m_internal_state = During(t) /\ ~c.reading
        /\ \A o \in Chain : Busy(c, o) => o = t
        /\ \A u \in Timers : Live(c, u) => u = t
    BY DEF StageInv
  <2>2. PICK o \in Ops \ Stages : Busy(c, o)
    BY <2>1
  <2>3. CASE o \in Chain
    BY <2>1, <2>2, <2>3
  <2>4. CASE o \in Shutdowns
    BY <2>1, <2>2, <2>4, NothingDue
  <2>5. CASE o \in {"write", "write_frame"}
    BY <2>1, <2>2, <2>5 DEF WriteInv, During, Stages
  <2> QED BY <2>3, <2>4, <2>5, Kinds
<1>2. c.timer[t] \in Clocks
  BY Kinds
<1> QED BY <1>1, <1>2 DEF StageInv, Live, Clocks

LEMMA QuietStays ==
  ASSUME NEW c, c \in Conn, StageInv(c), Quiet(c), NEW d,
         \A t \in Stages : d.timer[t] = c.timer[t] /\ (Busy(d, t) => Busy(c, t)),
         c.m_state = "closed" => d.m_state = "closed"
  PROVE  StageInv(d) /\ Quiet(d)
  BY DEF StageInv, Quiet, Live

(* An operation that ends, before anything comes of it.                    *)
LEMMA EndedParts ==
  ASSUME Good(con), NEW o, o \in Ops \ (Stages \union Shutdowns), Busy(con, o),
         NEW e, e = Ended(con, o)
  PROVE  /\ e \in Conn /\ SameBut(con, e) /\ e.timer = con.timer
         /\ e.m_handshake_timer = con.m_handshake_timer
         /\ e.op = [con.op EXCEPT ![o] = "none"]
         /\ \A p \in Ops : p # o => e.op[p] = con.op[p]
         /\ ~Busy(e, o) /\ (o \in Chain => \A p \in Chain : ~Busy(e, p))
         /\ ChainInv(e) /\ WriteInv(e) /\ StageInv(e) /\ Quiet(e) /\ Quiet(con)
         /\ ShutdownInv(e) /\ CallsInv(e)
<1>0. con \in Conn /\ ChainInv(con) /\ WriteInv(con) /\ StageInv(con)
      /\ ShutdownInv(con) /\ CallsInv(con)
  BY DEF Good, Shape, Story
<1>1. /\ e \in Conn /\ SameBut(con, e) /\ e.timer = con.timer
      /\ e.m_handshake_timer = con.m_handshake_timer
      /\ e.op = [con.op EXCEPT ![o] = "none"]
  BY <1>0, EndedIs
<1>2. /\ \A p \in Ops : p # o => e.op[p] = con.op[p]
      /\ ~Busy(e, o)
  BY <1>0, <1>1, Kinds DEF Busy
<1>3. o \in Chain => \A p \in Chain : ~Busy(e, p)
  BY <1>0, <1>2, Kinds DEF ChainInv, Busy
<1>4. ChainInv(e) /\ WriteInv(e)
  BY <1>0, <1>1, <1>2, FewerBusy DEF Busy
<1>5. Quiet(con)
  BY <1>0, QuietIs
<1>6. StageInv(e) /\ Quiet(e)
  <2>1. \A t \in Stages : e.timer[t] = con.timer[t] /\ (Busy(e, t) => Busy(con, t))
    BY <1>0, <1>1, <1>2, Kinds DEF Busy
  <2>2. e.m_state = con.m_state
    BY <1>1 DEF SameBut
  <2> QED BY <1>0, <1>5, <2>1, <2>2, QuietStays
<1>7. ShutdownInv(e) /\ CallsInv(e)
  <2>1. \A p \in Shutdowns : e.op[p] = con.op[p]
    BY <1>2 DEF Ops
  <2>2. Untold(con, e) /\ e.m_state = con.m_state
    BY <1>1 DEF SameBut, Untold
  <2>3. ShutdownInv(e)
    BY <1>0, <1>1, <2>1, <2>2, ShutdownKept DEF Busy
  <2> QED BY <1>0, <2>2, <2>3 DEF CallsInv, Told, Unheard, Untold
<1> QED BY <1>1, <1>2, <1>3, <1>4, <1>5, <1>6, <1>7

LEMMA FailedGood ==
  ASSUME Good(con), NEW o, o \in {"request", "response", "frame"}, Busy(con, o),
         NEW d, d = Failed(o)
  PROVE  Good(d) /\ Untold(con, d)
<1> DEFINE e == Ended(con, o)
<1>1. o \in Ops \ (Stages \union Shutdowns)
  BY DEF Ops, Stages, Shutdowns
<1>2. /\ e \in Conn /\ SameBut(con, e) /\ ChainInv(e) /\ WriteInv(e) /\ Quiet(e)
      /\ ShutdownInv(e) /\ CallsInv(e)
  BY <1>1, EndedParts
<1>3. d = terminate(e)
  BY DEF Failed
<1> HIDE DEF e
<1>4. Good(d) /\ Untold(e, d)
  BY <1>2, <1>3, TerminateGood DEF Quiet
<1> QED BY <1>2, <1>4 DEF SameBut, Untold

(* The request is sent, or a part of the response has come.                *)
LEMMA ReadsOn ==
  ASSUME Good(con), NEW o, o \in {"request", "response"}, Busy(con, o),
         con.m_state = "connecting",
         NEW e, e \in Conn, e.m_internal_state = "READ_HTTP_RESPONSE",
         e.m_state = con.m_state, e.reading = con.reading, e.calls = con.calls,
         e.refused = con.refused, e.m_write_flag = con.m_write_flag,
         e.timer = con.timer, e.op = [con.op EXCEPT ![o] = "none"],
         NEW d, d = Start(e, "response")
  PROVE  Good(d) /\ Untold(con, d)
<1>0. con \in Conn /\ ChainInv(con) /\ WriteInv(con) /\ StageInv(con)
      /\ ShutdownInv(con) /\ CallsInv(con)
  BY DEF Good, Shape, Story
<1>1. /\ o \in Ops \ (Stages \union Shutdowns) /\ o \in Chain
      /\ "response" \in Ops \ (Stages \union Shutdowns) /\ "response" \in Chain
  BY DEF Ops, Stages, Chain, Shutdowns
<1>2. /\ \A p \in Ops : p # o => e.op[p] = con.op[p]
      /\ \A p \in Chain : ~Busy(e, p)
      /\ Quiet(con)
  <2>1. \A p \in Ops : p # o => e.op[p] = con.op[p]
    BY <1>0, Kinds
  <2>2. \A p \in Chain : p # o => ~Busy(con, p)
    BY <1>1 DEF Good, Shape, ChainInv
  <2>3. e.op[o] = "none"
    BY <1>0, <1>1, Kinds
  <2>4. Quiet(con)
    BY <1>0, <1>1, QuietIs
  <2> QED BY <1>0, <2>1, <2>2, <2>3, <2>4, Kinds DEF Busy
<1>3. /\ d \in Conn /\ SameBut(e, d) /\ d.timer = e.timer
      /\ d.op = [e.op EXCEPT !["response"] = "pending"]
  BY <1>1, <1>2, StartIs
<1>4. /\ Busy(d, "response")
      /\ \A p \in Ops : p # "response" => d.op[p] = e.op[p]
  BY <1>1, <1>3, Kinds DEF Busy
<1>5. ~con.reading /\ con.m_internal_state = During(o) /\ During(o) # "PROCESS_CONNECTION"
  BY <1>0, <1>1 DEF ChainInv, During
<1>6. ChainInv(d)
  <2>1. \A p \in Chain : Busy(d, p) => p = "response"
    BY <1>0, <1>2, <1>4, Kinds DEF Busy
  <2>2. ~d.reading /\ d.m_internal_state = During("response")
    BY <1>3, <1>5 DEF SameBut, During
  <2> QED BY <2>1, <2>2 DEF ChainInv
<1>7. WriteInv(d)
  <2>1. ~Busy(con, "write") /\ ~Busy(con, "write_frame")
    BY <1>0, <1>5 DEF WriteInv
  <2>2. d.op["write"] = con.op["write"] /\ d.op["write_frame"] = con.op["write_frame"]
    BY <1>0, <1>1, <1>2, <1>4, Kinds
  <2> QED BY <2>1, <2>2 DEF WriteInv, Busy
<1>8. StageInv(d)
  <2>1. \A t \in Stages : d.op[t] = con.op[t] /\ d.timer[t] = con.timer[t]
    <3>1. \A t \in Stages : t \in Ops /\ t # "response" /\ t # o
      BY <1>0, <1>1, Kinds
    <3> QED BY <1>2, <1>3, <1>4, <3>1
  <2>2. d.m_state = con.m_state
    BY <1>3 DEF SameBut
  <2> QED BY <1>0, <1>2, <2>1, <2>2, QuietStays DEF Busy
<1>9. ShutdownInv(d)
  <2>1. \A p \in Shutdowns : d.op[p] = con.op[p]
    BY <1>0, <1>1, <1>2, <1>4, Kinds
  <2> QED BY <1>0, <1>3, <2>1, ShutdownKept DEF Untold, SameBut, Busy
<1>10. CallsInv(d) /\ GoesOn(d)
  BY <1>0, <1>3, <1>4 DEF CallsInv, GoesOn, SameBut, Told, Unheard
<1> QED BY <1>3, <1>6, <1>7, <1>8, <1>9, <1>10 DEF Good, Shape, Story, SameBut, Untold

LEMMA RequestGood ==
  ASSUME Good(con), NEW result, handle_send_http_request(result)
  PROVE  Good(con') /\ Untold(con, con') /\ UNCHANGED <<pcM, orphans, tick>>
<1> DEFINE c == Ended(con, "request")
           e == [c EXCEPT !.m_internal_state = "READ_HTTP_RESPONSE"]
<1>1. /\ result \in Results("request") /\ UNCHANGED <<pcM, orphans, tick>>
      /\ con' = IF result = "ok" /\ con.m_state = "closed" THEN c
                ELSE IF result = "ok" /\ con.m_state = "connecting"
                        /\ con.m_internal_state = "WRITE_HTTP_REQUEST"
                     THEN Start(e, "response")
                ELSE Failed("request")
  BY DEF handle_send_http_request, Handles
<1>2. Busy(con, "request")
  BY <1>1 DEF Results, Busy
<1>3. "request" \in Ops \ (Stages \union Shutdowns)
  BY DEF Ops, Stages, Shutdowns
<1>4. /\ c \in Conn /\ SameBut(con, c) /\ c.timer = con.timer
      /\ c.op = [con.op EXCEPT !["request"] = "none"]
  BY <1>2, <1>3, EndedParts
<1>5. CASE con' = c /\ con.m_state = "closed"
  BY <1>1, <1>3, <1>5, EndedGood
<1>6. CASE con' = Start(e, "response") /\ con.m_state = "connecting"
  <2> HIDE DEF c
  <2>1. e \in Conn
    BY <1>4 DEF Conn, InternalStates
  <2>2. /\ e.m_internal_state = "READ_HTTP_RESPONSE" /\ e.m_state = c.m_state
        /\ e.reading = c.reading /\ e.calls = c.calls /\ e.refused = c.refused
        /\ e.m_write_flag = c.m_write_flag /\ e.timer = c.timer /\ e.op = c.op
    BY <1>4 DEF Conn
  <2> HIDE DEF e
  <2>3. /\ e.m_state = con.m_state
        /\ e.reading = con.reading /\ e.calls = con.calls /\ e.refused = con.refused
        /\ e.m_write_flag = con.m_write_flag
        /\ e.timer = con.timer /\ e.op = [con.op EXCEPT !["request"] = "none"]
    BY <1>4, <2>2 DEF SameBut
  <2> QED BY <1>1, <1>2, <1>6, <2>1, <2>2, <2>3, ReadsOn
<1>7. CASE con' = Failed("request")
  BY <1>1, <1>2, <1>7, FailedGood
<1> QED BY <1>1, <1>5, <1>6, <1>7

(* The loop begins; refused tells whether a shutdown has begun, too.        *)
LEMMA OpenGood ==
  ASSUME Good(con), con.m_state = "connecting", Busy(con, "response"),
         NEW e, e \in Conn, Unheard(e), e.m_write_flag = con.m_write_flag,
         \A o \in Ops : o \notin Shutdowns \union {"response"} => e.op[o] = con.op[o],
         e.op["response"] = "none",
         \A t \in Stages : e.timer[t] = con.timer[t],
         NEW refused \in BOOLEAN,
         IF refused THEN Live(e, "shutdown_failed")
         ELSE e.timer["shutdown_failed"] = "off" /\ ~Busy(e, "shutdown_failed"),
         e.timer["shutdown_closed"] = "off" /\ ~Busy(e, "shutdown_closed"),
         NEW d, d = OpenWith(e, refused)
  PROVE  Good(d) /\ d.calls = Append(con.calls, "OnOpen") /\ d.refused \in BOOLEAN
<1> DEFINE q == Append(e.calls, "OnOpen")
<1>0. con \in Conn /\ ChainInv(con) /\ WriteInv(con) /\ StageInv(con)
      /\ ShutdownInv(con) /\ CallsInv(con)
  BY DEF Good, Shape, Story
<1>1. /\ d = [e EXCEPT !.m_internal_state = "PROCESS_CONNECTION", !.m_state = "open",
                       !.calls = q, !.reading = TRUE, !.refused = refused]
  BY DEF OpenWith
<1>2. q \in Seq({"OnOpen", "OnFail", "OnClose"})
  BY DEF Conn
<1>3. e.calls = <<>>
  BY DEF Unheard
<1>4. q = Append(con.calls, "OnOpen")
  BY <1>0, <1>3 DEF CallsInv, Unheard
<1> HIDE DEF q
<1>5. d \in Conn
  <2>1. "PROCESS_CONNECTION" \in InternalStates /\ "open" \in States
    BY DEF States, InternalStates
  <2> DEFINE b == [e EXCEPT !.m_internal_state = "PROCESS_CONNECTION", !.m_state = "open",
                            !.reading = TRUE]
  <2>2. b \in Conn
    BY <2>1 DEF Conn
  <2>3. d = [b EXCEPT !.calls = q, !.refused = refused]
    BY <1>1 DEF Conn
  <2> HIDE DEF b
  <2>4. refused \in BOOLEAN
    OBVIOUS
  <2> QED BY ONLY <1>2, <2>2, <2>3, <2>4 DEF Conn
<1>6. /\ d.m_internal_state = "PROCESS_CONNECTION" /\ d.m_state = "open"
      /\ d.calls = q /\ d.reading = TRUE /\ d.refused = refused
      /\ d.op = e.op /\ d.timer = e.timer /\ d.m_write_flag = e.m_write_flag
  BY <1>1 DEF Conn
<1>7. \A h : Told(d, h) <=> h = "OnOpen"
  <2>1. \A h : Told(d, h) <=> Told(e, h) \/ h = "OnOpen"
    <3>1. e.calls \in Seq(Handlers) /\ "OnOpen" \in Handlers
      BY DEF Conn, Handlers
    <3>2. d.calls = Append(e.calls, "OnOpen")
      BY <1>6 DEF q
    <3> QED BY <3>1, <3>2, ToldOneMore
  <2>2. \A h : ~Told(e, h)
    BY <1>3 DEF Told
  <2> QED BY <2>1, <2>2
<1> HIDE <1>1
<1>8. "response" \in Ops \ (Stages \union Shutdowns) /\ "response" \in Chain
  BY DEF Ops, Stages, Chain, Shutdowns
<1>9. \A p \in Chain : ~Busy(d, p)
  <2>1. \A p \in Chain : Busy(con, p) => p = "response"
    BY <1>0, <1>8 DEF ChainInv
  <2> QED BY <1>0, <1>6, <1>8, <2>1, Kinds DEF Busy
<1>10. ChainInv(d)
  BY <1>6, <1>9 DEF ChainInv
<1>11. WriteInv(d)
  <2>1. d.op["write"] = con.op["write"]
    BY <1>6 DEF Ops, Shutdowns
  <2> QED BY <1>0, <1>6, <2>1 DEF WriteInv, Busy
<1>12. StageInv(d)
  <2>1. \A t \in Stages : d.timer[t] = con.timer[t] /\ (Busy(d, t) => Busy(con, t))
    BY <1>0, <1>6, <1>9, Kinds
  <2>2. Quiet(con)
    BY <1>0, <1>8, QuietIs
  <2> QED BY <1>0, <2>1, <2>2, QuietStays
<1>13. ShutdownInv(d)
  <2> SUFFICES ASSUME NEW o \in Shutdowns
               PROVE  IF Due(d, o)
                      THEN IF Told(d, Ends(o)) THEN d.timer[o] = "over" \/ (d.timer[o] = "off" /\ ~Busy(d, o))
                           ELSE Live(d, o)
                      ELSE ~Told(d, Ends(o)) /\ d.timer[o] = "off" /\ ~Busy(d, o)
    BY DEF ShutdownInv
  <2>1. ~Told(d, Ends(o))
    BY <1>7 DEF Ends
  <2>2. CASE o = "shutdown_failed"
    BY <1>6, <2>1, <2>2 DEF Due, Live, Busy
  <2>3. CASE o = "shutdown_closed"
    BY <1>6, <2>1, <2>3 DEF Due, Busy
  <2> QED BY <2>2, <2>3 DEF Shutdowns
<1>14. CallsInv(d) /\ GoesOn(d)
  BY <1>6, <1>7 DEF CallsInv, GoesOn
<1> QED BY <1>4, <1>5, <1>6, <1>10, <1>11, <1>12, <1>13, <1>14 DEF Good, Shape, Story

LEMMA ResponseGood ==
  ASSUME Good(con), NEW result, handle_read_http_response(result)
  PROVE  /\ Good(con') /\ UNCHANGED <<pcM, orphans, tick>>
         /\ \/ Untold(con, con')
            \/ /\ con.calls = <<>> /\ con'.calls = Append(con.calls, "OnOpen")
               /\ con'.refused \in BOOLEAN
<1> DEFINE c == Ended(con, "response")
           f == Failed("response")
           h == CancelHandshakeTimer(c)
<1>1. PICK response \in {"part", "valid", "refused", "invalid"} :
        /\ result \in Results("response") /\ UNCHANGED <<pcM, orphans, tick>>
        /\ con' = IF result = "ok" /\ con.m_state = "closed" THEN c
                  ELSE IF result # "ok" \/ response = "invalid"
                          \/ con.m_state # "connecting" \/ con.m_internal_state # "READ_HTTP_RESPONSE"
                       THEN f
                  ELSE IF response = "part" THEN Start(c, "response")
                  ELSE IF response = "refused" THEN OpenWith(f, TRUE)
                  ELSE OpenWith(h, FALSE)
  BY DEF handle_read_http_response, Handles
<1>2. Busy(con, "response")
  BY <1>1 DEF Results, Busy
<1>3. /\ "response" \in Ops \ (Stages \union Shutdowns) /\ "response" \in Chain
      /\ Shutdowns \subseteq Ops
  BY DEF Ops, Stages, Chain, Shutdowns
<1>4. /\ c \in Conn /\ SameBut(con, c) /\ c.timer = con.timer
      /\ c.op = [con.op EXCEPT !["response"] = "none"]
      /\ \A p \in Ops : p # "response" => c.op[p] = con.op[p]
      /\ ~Busy(c, "response")
      /\ ShutdownInv(c) /\ CallsInv(c)
  BY <1>2, <1>3, EndedParts
<1>5. CASE con' = c /\ con.m_state = "closed"
  BY <1>1, <1>3, <1>5, EndedGood
<1>6. CASE con' = f
  BY <1>1, <1>2, <1>6, FailedGood
<1>7. CASE /\ con' = Start(c, "response") /\ con.m_state = "connecting"
           /\ con.m_internal_state = "READ_HTTP_RESPONSE"
  <2> HIDE DEF c, f, h
  <2>1. /\ c.m_internal_state = "READ_HTTP_RESPONSE" /\ c.m_state = con.m_state
        /\ c.reading = con.reading /\ c.calls = con.calls /\ c.refused = con.refused
        /\ c.m_write_flag = con.m_write_flag
    BY <1>4, <1>7 DEF SameBut
  <2>2. Good(Start(c, "response")) /\ Untold(con, Start(c, "response"))
    BY <1>2, <1>4, <1>7, <2>1, ReadsOn
  <2> QED BY <1>1, <1>7, <2>2
<1>8. con.m_state = "connecting" => /\ Unheard(con) /\ Unheard(c) /\ c.m_state = "connecting"
                                    /\ \A o \in Shutdowns : c.timer[o] = "off" /\ ~Busy(c, o)
  <2>1. con.m_state = "connecting" => Unheard(con)
    BY DEF Good, Story, CallsInv
  <2>2. con.m_state = "connecting" => Unheard(c) /\ c.m_state = "connecting"
    BY <1>4, <2>1 DEF SameBut, Unheard
  <2> HIDE DEF c
  <2> QED BY <1>4, <2>1, <2>2, NothingDue
<1>9. CASE con' = OpenWith(f, TRUE) /\ con.m_state = "connecting"
  <2>1. f = terminate(c)
    BY DEF Failed
  <2> HIDE DEF c, f, h
  <2>2. /\ f \in Conn /\ SameRest(c, f)
        /\ \A o \in Ops : o \notin Shutdowns => f.op[o] = c.op[o]
        /\ \A t \in Timers : t \notin Shutdowns =>
             \/ f.timer[t] = c.timer[t]
             \/ t \in {"open", "close"} /\ c.timer[t] = "armed" /\ f.timer[t] = "off"
        /\ \A o \in Shutdowns :
             IF Begins(c, o) THEN f.op[o] = "pending" /\ f.timer[o] = "armed"
             ELSE f.op[o] = c.op[o] /\ f.timer[o] = c.timer[o]
    <3>1. c \in Conn /\ ShutdownInv(c) /\ CallsInv(c)
      BY <1>4
    <3> QED BY ONLY <3>1, <2>1, TerminateIs
  <2>3. Unheard(f) /\ f.m_write_flag = con.m_write_flag
    BY <1>4, <1>8, <1>9, <2>2 DEF SameRest, SameBut, Unheard
  <2>4. /\ \A o \in Ops : o \notin Shutdowns \union {"response"} => f.op[o] = con.op[o]
        /\ f.op["response"] = "none"
    BY <1>3, <1>4, <2>2 DEF Busy
  <2>5. \A t \in Stages : f.timer[t] = con.timer[t]
    BY <1>4, <2>2, Kinds
  <2>6. Live(f, "shutdown_failed")
    BY <1>8, <1>9, <2>2 DEF Begins, tstat, Shutdowns, Live
  <2>7. f.timer["shutdown_closed"] = "off" /\ ~Busy(f, "shutdown_closed")
    BY <1>8, <1>9, <2>2 DEF Begins, tstat, Shutdowns, Busy
  <2>8. /\ Good(OpenWith(f, TRUE)) /\ OpenWith(f, TRUE).calls = Append(con.calls, "OnOpen")
        /\ OpenWith(f, TRUE).refused \in BOOLEAN
    BY <1>2, <1>9, <2>2, <2>3, <2>4, <2>5, <2>6, <2>7, OpenGood
  <2> QED BY <1>1, <1>8, <1>9, <2>8 DEF Unheard
<1>10. CASE con' = OpenWith(h, FALSE) /\ con.m_state = "connecting"
  <2> HIDE DEF c, f
  <2>1. /\ h \in Conn /\ SameBut(c, h) /\ h.op = c.op
        /\ \A t \in Timers :
             \/ h.timer[t] = c.timer[t]
             \/ t \in {"open", "close"} /\ c.timer[t] = "armed" /\ h.timer[t] = "off"
    BY <1>4, HandshakeIs
  <2> HIDE DEF h
  <2>2. Unheard(h) /\ h.m_write_flag = con.m_write_flag
    BY <1>4, <1>8, <1>10, <2>1 DEF SameBut, Unheard
  <2>3. /\ \A o \in Ops : o \notin Shutdowns \union {"response"} => h.op[o] = con.op[o]
        /\ h.op["response"] = "none"
    BY <1>3, <1>4, <2>1 DEF Busy
  <2>4. \A t \in Stages \union Shutdowns : h.timer[t] = c.timer[t]
    BY <1>4, <2>1, Kinds
  <2>5. \A o \in Shutdowns : h.timer[o] = "off" /\ ~Busy(h, o)
    BY <1>8, <1>10, <2>1, <2>4 DEF Busy
  <2>6. "shutdown_failed" \in Shutdowns /\ "shutdown_closed" \in Shutdowns
    BY DEF Shutdowns
  <2>7. /\ Good(OpenWith(h, FALSE)) /\ OpenWith(h, FALSE).calls = Append(con.calls, "OnOpen")
        /\ OpenWith(h, FALSE).refused \in BOOLEAN
    <3>1. h \in Conn /\ \A t \in Stages : h.timer[t] = con.timer[t]
      BY <1>4, <2>1, <2>4
    <3>2. IF FALSE THEN Live(h, "shutdown_failed")
          ELSE h.timer["shutdown_failed"] = "off" /\ ~Busy(h, "shutdown_failed")
      BY <2>5, <2>6
    <3> QED BY <1>2, <1>10, <2>2, <2>3, <2>5, <2>6, <3>1, <3>2, OpenGood
  <2> QED BY <1>1, <1>8, <1>10, <2>7 DEF Unheard
<1> QED BY <1>1, <1>5, <1>6, <1>7, <1>9, <1>10

LEMMA FrameGood ==
  ASSUME Good(con), NEW result, handle_read_frame(result)
  PROVE  Good(con') /\ Untold(con, con') /\ UNCHANGED <<pcM, orphans, tick>>
<1> DEFINE c == Ended(con, "frame")
           d == [c EXCEPT !.reading = TRUE]
<1>1. /\ result \in Results("frame") /\ UNCHANGED <<pcM, orphans, tick>>
      /\ con' = IF result = "ok" /\ con.m_internal_state = "PROCESS_CONNECTION" THEN d
                ELSE Failed("frame")
  BY DEF handle_read_frame, Handles
<1>2. Busy(con, "frame")
  BY <1>1 DEF Results, Busy
<1>3. "frame" \in Ops \ (Stages \union Shutdowns) /\ "frame" \in Chain
  BY DEF Ops, Stages, Chain, Shutdowns
<1>4. /\ c \in Conn /\ SameBut(con, c) /\ c.timer = con.timer
      /\ \A p \in Chain : ~Busy(c, p)
      /\ ChainInv(c) /\ WriteInv(c) /\ StageInv(c) /\ Quiet(c) /\ ShutdownInv(c) /\ CallsInv(c)
  BY <1>2, <1>3, EndedParts
<1>5. CASE con' = d /\ con.m_internal_state = "PROCESS_CONNECTION"
  <2> HIDE DEF c
  <2>1. d \in Conn
    BY <1>4 DEF Conn
  <2>2. /\ d.reading = TRUE /\ d.m_internal_state = c.m_internal_state /\ d.m_state = c.m_state
        /\ d.calls = c.calls /\ d.op = c.op /\ d.timer = c.timer /\ d.refused = c.refused
        /\ d.m_write_flag = c.m_write_flag
    BY <1>4 DEF Conn
  <2> HIDE DEF d
  <2>3. c.m_internal_state = "PROCESS_CONNECTION"
    BY <1>4, <1>5 DEF SameBut
  <2>4. ChainInv(d) /\ WriteInv(d)
    BY <1>4, <2>2, <2>3 DEF ChainInv, WriteInv, Busy
  <2>5. StageInv(d)
    BY <1>4, <2>2, QuietStays DEF Busy
  <2>6. ShutdownInv(d) /\ CallsInv(d)
    <3>1. ShutdownInv(d)
      BY <1>4, <2>2, ShutdownKept DEF Untold, Busy
    <3> QED BY <1>4, <2>2, <3>1 DEF CallsInv, Told, Unheard
  <2>7. GoesOn(d)
    <3>1. c.m_state # "connecting"
      <4>1. ~Busy(con, "request") /\ ~Busy(con, "response") /\ ~con.reading
        BY <1>2 DEF Good, Shape, ChainInv, Chain
      <4>2. \A t \in Stages : ~Live(con, t)
        BY <1>4 DEF Quiet, Live
      <4> QED BY <1>4, <4>1, <4>2 DEF Good, Story, GoesOn, SameBut
    <3>2. con.m_state = "closing" => Live(con, "close")
      BY DEF Good, Story, GoesOn
    <3> QED BY <1>4, <2>2, <3>1, <3>2 DEF GoesOn, Live, SameBut
  <2> QED BY <1>1, <1>4, <1>5, <2>1, <2>2, <2>4, <2>5, <2>6, <2>7
        DEF Good, Shape, Story, SameBut, Untold
<1>6. CASE con' = Failed("frame")
  BY <1>1, <1>2, <1>6, FailedGood
<1> QED BY <1>1, <1>5, <1>6

-----------------------------------------------------------------------------
(* Writing, the end of TLS, and the timers.                                *)

(* write_frame posted, or a write begun, after the handshake.               *)
LEMMA WritesGood ==
  ASSUME NEW c, Good(c), c.m_internal_state = "PROCESS_CONNECTION",
         Quiet(c), NEW d, d \in Conn,
         d.m_state = c.m_state, d.m_internal_state = c.m_internal_state,
         d.reading = c.reading, d.calls = c.calls, d.refused = c.refused,
         d.timer = c.timer,
         \A o \in Ops \ {"write", "write_frame"} : d.op[o] = c.op[o],
         Busy(d, "write") => d.m_write_flag
  PROVE  Good(d)
<1>0. c \in Conn /\ ChainInv(c) /\ WriteInv(c) /\ StageInv(c)
      /\ ShutdownInv(c) /\ CallsInv(c) /\ GoesOn(c)
  BY DEF Good, Shape, Story
<1>1. \A o \in Chain : d.op[o] = c.op[o]
  BY DEF Chain, Ops
<1>2. \A o \in Shutdowns : d.op[o] = c.op[o]
  BY DEF Ops, Shutdowns
<1>3. ChainInv(d)
  BY <1>0, <1>1 DEF ChainInv, Busy
<1>4. WriteInv(d)
  BY DEF WriteInv
<1>5. StageInv(d)
  <2>1. \A t \in Stages : d.timer[t] = c.timer[t] /\ (Busy(d, t) => Busy(c, t))
    BY <1>0, <1>1, Kinds DEF Busy
  <2> QED BY <1>0, <2>1, QuietStays
<1>6. ShutdownInv(d) /\ CallsInv(d)
  <2>1. ShutdownInv(d)
    BY <1>0, <1>2, ShutdownKept DEF Untold, Busy
  <2> QED BY <1>0, <2>1 DEF CallsInv, Told, Unheard
<1>7. GoesOn(d)
  BY <1>0, <1>1 DEF GoesOn, Busy, Live, Chain
<1> QED BY <1>3, <1>4, <1>5, <1>6, <1>7 DEF Good, Shape, Story

LEMMA UpTo ==
  ASSUME NEW n \in Nat
  PROVE  IsFiniteSet(1 .. n) /\ Cardinality(1 .. n) = n
<1>1. 1 \in Int /\ n \in Int
  OBVIOUS
<1>2. IsFiniteSet(1 .. n) /\ Cardinality(1 .. n) = IF 1 > n THEN 0 ELSE n - 1 + 1
  BY ONLY <1>1, FS_Interval
<1> QED BY <1>2

(* What is taken of the queue.                                             *)
LEMMA TakenOfQueue ==
  ASSUME NEW q \in Seq(Frames), NEW P \in SUBSET DOMAIN q
  PROVE  SubSeq(q, 1, Cardinality(P)) \in Seq(Frames)
         /\ SubSeq(q, Cardinality(P) + 1, Len(q)) \in Seq(Frames)
<1>1. IsFiniteSet(1 .. Len(q)) /\ Cardinality(1 .. Len(q)) = Len(q)
  <2>1. Len(q) \in Nat
    OBVIOUS
  <2> QED BY ONLY <2>1, UpTo
<1>2. IsFiniteSet(P) /\ Cardinality(P) \in Nat /\ Cardinality(P) <= Len(q)
  <2>1. P \subseteq 1 .. Len(q)
    OBVIOUS
  <2> QED BY <1>1, <2>1, FS_Subset, FS_CardinalityType
<1>3. \A i \in 1 .. Len(q) : q[i] \in Frames
  OBVIOUS
<1>4. SubSeq(q, 1, Cardinality(P)) \in Seq(Frames)
  BY <1>2, <1>3, SubSeqProperties
<1>5. SubSeq(q, Cardinality(P) + 1, Len(q)) \in Seq(Frames)
  BY <1>2, <1>3, SubSeqProperties
<1> QED BY <1>4, <1>5

LEMMA WriteFrameGood ==
  ASSUME Good(con), write_frame
  PROVE  Good(con') /\ Untold(con, con') /\ UNCHANGED <<pcM, orphans, tick>>
<1> DEFINE c == Ended(con, "write_frame")
           P == {i \in DOMAIN c.m_send_queue :
                  \A j \in 1 .. i - 1 : ~c.m_send_queue[j].terminal}
           n == Cardinality(P)
           s == SubSeq(c.m_send_queue, 1, n)
           r == SubSeq(c.m_send_queue, n + 1, Len(c.m_send_queue))
           e == [c EXCEPT !.m_current_msgs = s, !.m_send_queue = r, !.m_write_flag = TRUE]
<1>1. /\ "ok" \in Results("write_frame") /\ UNCHANGED <<pcM, orphans, tick>>
      /\ con' = IF c.m_write_flag \/ c.m_send_queue = <<>> THEN c ELSE Start(e, "write")
  BY DEF write_frame, Handles
<1>2. Busy(con, "write_frame")
  BY <1>1 DEF Results, Busy
<1>3. /\ "write_frame" \in Ops \ (Stages \union Shutdowns) /\ "write" \in Ops
      /\ "write_frame" \notin {"request", "response", "frame"}
  BY DEF Ops, Stages, Shutdowns
<1>4. /\ c \in Conn /\ SameBut(con, c) /\ c.timer = con.timer
      /\ \A p \in Ops : p # "write_frame" => c.op[p] = con.op[p]
      /\ Quiet(con)
  <2>1. c \in Conn /\ SameBut(con, c) /\ c.timer = con.timer
    BY <1>2, <1>3, EndedParts
  <2>2. \A p \in Ops : p # "write_frame" => c.op[p] = con.op[p]
    <3>1. con \in Conn /\ c.op = [con.op EXCEPT !["write_frame"] = "none"]
      BY <1>2, <1>3, EndedParts DEF Good
    <3> QED BY <3>1, Kinds
  <2>3. Quiet(con)
    BY <1>2, <1>3, EndedParts
  <2> QED BY <2>1, <2>2, <2>3
<1>5. CASE con' = c
  BY <1>1, <1>3, <1>5, EndedGood
<1>6. CASE con' = Start(e, "write") /\ ~c.m_write_flag
  <2> HIDE DEF c
  <2>1. c.m_send_queue \in Seq(Frames) /\ P \in SUBSET DOMAIN c.m_send_queue
    BY <1>4 DEF Conn
  <2>2. s \in Seq(Frames) /\ r \in Seq(Frames)
    <3> HIDE DEF P
    <3> QED BY <2>1, TakenOfQueue
  <2> HIDE DEF s, r
  <2>3. e \in Conn
    BY <1>4, <2>2 DEF Conn
  <2>4. /\ e.m_write_flag = TRUE /\ e.m_state = c.m_state /\ e.m_internal_state = c.m_internal_state
        /\ e.reading = c.reading /\ e.calls = c.calls /\ e.refused = c.refused
        /\ e.timer = c.timer /\ e.op = c.op
    BY <1>4 DEF Conn
  <2> HIDE DEF e
  <2>5. ~Busy(e, "write")
    BY <1>3, <1>4, <1>6, <2>4 DEF Good, Shape, WriteInv, SameBut, Busy
  <2> DEFINE d == Start(e, "write")
  <2>6. /\ d \in Conn /\ SameBut(e, d) /\ d.timer = e.timer
        /\ d.op = [e.op EXCEPT !["write"] = "pending"]
    BY <1>3, <2>3, <2>5, StartIs
  <2> HIDE DEF d
  <2>7. con.m_internal_state = "PROCESS_CONNECTION"
    BY <1>2 DEF Good, Shape, WriteInv
  <2>8. \A o \in Ops \ {"write", "write_frame"} : d.op[o] = con.op[o]
    BY <1>4, <2>3, <2>4, <2>6, Kinds
  <2>9. /\ d.m_state = con.m_state /\ d.m_internal_state = con.m_internal_state
        /\ d.reading = con.reading /\ d.calls = con.calls /\ d.refused = con.refused
        /\ d.timer = con.timer /\ d.m_write_flag = TRUE
    BY <1>4, <2>4, <2>6 DEF SameBut
  <2>10. Good(d)
    BY <1>4, <2>6, <2>7, <2>8, <2>9, WritesGood
  <2> QED BY <1>1, <1>6, <2>9, <2>10 DEF d, Untold
<1> QED BY <1>1, <1>5, <1>6

LEMMA WriteGood ==
  ASSUME Good(con), NEW result, handle_write_frame(result)
  PROVE  Good(con') /\ Untold(con, con') /\ UNCHANGED <<pcM, orphans, tick>>
<1> DEFINE b == Ended(con, "write")
           c == [b EXCEPT !.m_current_msgs = <<>>]
           e == [c EXCEPT !.m_write_flag = FALSE]
<1>1. /\ result \in Results("write") /\ UNCHANGED <<pcM, orphans, tick>>
      /\ \/ con' = terminate(c)
         \/ con' = e
         \/ con' = Post(e, "write_frame")
  BY DEF handle_write_frame, Handles
<1>2. Busy(con, "write")
  BY <1>1 DEF Results, Busy
<1>3. /\ "write" \in Ops \ (Stages \union Shutdowns) /\ "write_frame" \in Ops
  BY DEF Ops, Stages, Shutdowns
<1>4. /\ b \in Conn /\ SameBut(con, b) /\ b.timer = con.timer
      /\ ~Busy(b, "write")
      /\ \A p \in Ops : p # "write" => b.op[p] = con.op[p]
      /\ ChainInv(b) /\ WriteInv(b) /\ Quiet(b) /\ ShutdownInv(b) /\ CallsInv(b) /\ Quiet(con)
  <2>1. b \in Conn /\ SameBut(con, b) /\ b.timer = con.timer /\ ~Busy(b, "write")
    BY <1>2, <1>3, EndedParts
  <2>2. \A p \in Ops : p # "write" => b.op[p] = con.op[p]
    <3>1. con \in Conn /\ b.op = [con.op EXCEPT !["write"] = "none"]
      BY <1>2, <1>3, EndedParts DEF Good
    <3> QED BY <3>1, Kinds
  <2>3. /\ ChainInv(b) /\ WriteInv(b) /\ Quiet(b) /\ ShutdownInv(b) /\ CallsInv(b)
        /\ Quiet(con)
    BY <1>2, <1>3, EndedParts
  <2> QED BY <2>1, <2>2, <2>3
<1> HIDE DEF b
<1>5. <<>> \in Seq(Frames) /\ c \in Conn
  <2>1. <<>> \in Seq(Frames)
    OBVIOUS
  <2> QED BY <1>4, <2>1 DEF Conn
<1>6. /\ c.m_state = b.m_state /\ c.m_internal_state = b.m_internal_state
      /\ c.reading = b.reading /\ c.calls = b.calls /\ c.refused = b.refused
      /\ c.m_write_flag = b.m_write_flag /\ c.timer = b.timer /\ c.op = b.op
  BY <1>4 DEF Conn
<1> HIDE DEF c
<1>7. e \in Conn
  BY <1>5 DEF Conn
<1>8. /\ e.m_state = c.m_state /\ e.m_internal_state = c.m_internal_state
      /\ e.reading = c.reading /\ e.calls = c.calls /\ e.refused = c.refused
      /\ e.timer = c.timer /\ e.op = c.op
  BY <1>5 DEF Conn
<1> HIDE DEF e
<1>9. con.m_internal_state = "PROCESS_CONNECTION"
  BY <1>2 DEF Good, Shape, WriteInv
<1>10. CASE con' = terminate(c)
  <2>1. /\ ChainInv(c) /\ WriteInv(c) /\ ShutdownInv(c) /\ CallsInv(c)
    <3>1. ShutdownInv(c)
      BY <1>4, <1>6, ShutdownKept DEF Untold, Busy
    <3> QED BY <1>4, <1>6, <3>1 DEF ChainInv, WriteInv, CallsInv, Told, Unheard, Busy
  <2>2. \A t \in Stages : ~Live(c, t) /\ (Busy(c, t) => c.timer[t] = "over")
    BY <1>4, <1>6 DEF Quiet, Live, Busy
  <2>3. Good(con') /\ Untold(c, con')
    BY <1>5, <1>10, <2>1, <2>2, TerminateGood
  <2> QED BY <1>1, <1>4, <1>6, <2>3 DEF SameBut, Untold
<1>11. /\ e.m_state = con.m_state /\ e.m_internal_state = con.m_internal_state
       /\ e.reading = con.reading /\ e.calls = con.calls /\ e.refused = con.refused
       /\ e.timer = con.timer /\ ~Busy(e, "write")
       /\ \A o \in Ops \ {"write"} : e.op[o] = con.op[o]
  BY <1>4, <1>6, <1>8 DEF SameBut, Busy
<1>12. CASE con' = e
  <2>1. Good(e)
    BY <1>4, <1>7, <1>9, <1>11, WritesGood
  <2> QED BY <1>1, <1>11, <1>12, <2>1 DEF Untold
<1>13. CASE con' = Post(e, "write_frame")
  <2> DEFINE d == Post(e, "write_frame")
  <2>1. /\ d \in Conn /\ SameBut(e, d) /\ d.timer = e.timer
        /\ d.op = [e.op EXCEPT !["write_frame"] = "pending"]
    BY <1>3, <1>7, PostIs
  <2> HIDE DEF d
  <2>2. \A p \in Ops : p # "write_frame" => d.op[p] = e.op[p]
    BY <1>7, <2>1, Kinds
  <2>3. /\ \A o \in Ops \ {"write", "write_frame"} : d.op[o] = con.op[o]
        /\ ~Busy(d, "write")
    BY <1>3, <1>11, <2>2 DEF Busy
  <2>4. /\ d.m_state = con.m_state /\ d.m_internal_state = con.m_internal_state
        /\ d.reading = con.reading /\ d.calls = con.calls /\ d.refused = con.refused
        /\ d.timer = con.timer
    BY <1>11, <2>1 DEF SameBut
  <2>5. Good(d)
    BY <1>4, <1>9, <2>1, <2>3, <2>4, WritesGood
  <2> QED BY <1>1, <1>13, <2>4, <2>5 DEF d, Untold
<1> QED BY <1>1, <1>10, <1>12, <1>13

(* MDSocket is told of the end: the timer or the result came first.         *)
Telling(c, d, o) ==
  /\ Due(c, o) /\ ~Told(c, Ends(o))
  /\ d.calls = Append(c.calls, Ends(o)) /\ d.refused = c.refused

LEMMA TellingGood ==
  ASSUME Good(con), NEW o \in Shutdowns,
         NEW d, d \in Conn, Telling(con, d, o),
         d.m_state = con.m_state, d.m_internal_state = con.m_internal_state,
         d.reading = con.reading, d.m_write_flag = con.m_write_flag,
         \A p \in Ops : p # o => (Busy(d, p) <=> Busy(con, p)),
         \A t \in Timers : t # o => d.timer[t] = con.timer[t],
         d.timer[o] = "over" \/ (d.timer[o] = "off" /\ ~Busy(d, o))
  PROVE  Good(d)
<1>0. /\ con \in Conn /\ ChainInv(con) /\ WriteInv(con) /\ StageInv(con)
      /\ ShutdownInv(con) /\ CallsInv(con) /\ GoesOn(con)
  BY DEF Good, Shape, Story
<1>1. /\ \A p \in Chain : Busy(d, p) <=> Busy(con, p)
      /\ Busy(d, "write") <=> Busy(con, "write")
      /\ Busy(d, "write_frame") <=> Busy(con, "write_frame")
      /\ \A t \in Stages : d.timer[t] = con.timer[t]
      /\ d.timer["close"] = con.timer["close"]
  BY <1>0, Kinds
<1>2. ChainInv(d) /\ WriteInv(d)
  BY <1>0, <1>1 DEF ChainInv, WriteInv
<1>3. con.m_state # "connecting"
  BY <1>0 DEF Due, Telling, CallsInv, Unheard
<1>4. StageInv(d)
  <2>1. Quiet(con)
    BY <1>0, <1>3, QuietIs
  <2> QED BY <1>0, <1>1, <2>1, Kinds, QuietStays
<1>5. \A h : Told(d, h) <=> Told(con, h) \/ h = Ends(o)
  <2>1. con.calls \in Seq(Handlers) /\ Ends(o) \in Handlers
    BY <1>0 DEF Conn, Handlers, Ends
  <2> QED BY <2>1, ToldOneMore DEF Telling
<1>6. \A p : Due(d, p) <=> Due(con, p)
  BY <1>5 DEF Due, Telling, Ends
<1>7. ShutdownInv(d)
  <2> SUFFICES ASSUME NEW p \in Shutdowns
               PROVE  IF Due(d, p)
                      THEN IF Told(d, Ends(p)) THEN d.timer[p] = "over" \/ (d.timer[p] = "off" /\ ~Busy(d, p))
                           ELSE Live(d, p)
                      ELSE ~Told(d, Ends(p)) /\ d.timer[p] = "off" /\ ~Busy(d, p)
    BY DEF ShutdownInv
  <2>1. CASE p = o
    BY <1>5, <1>6, <2>1 DEF Telling
  <2>2. CASE p # o
    <3>1. d.timer[p] = con.timer[p] /\ (Busy(d, p) <=> Busy(con, p))
      BY <1>0, <2>2, Kinds
    <3>2. Ends(p) # Ends(o)
      BY <2>2 DEF Ends, Shutdowns
    <3> QED BY <1>0, <1>5, <1>6, <3>1, <3>2 DEF ShutdownInv, Live
  <2> QED BY <2>1, <2>2
<1>8. CallsInv(d)
  BY <1>0, <1>3, <1>5 DEF CallsInv, Telling
<1>9. GoesOn(d)
  BY <1>0, <1>1, <1>3 DEF GoesOn, Live, Chain
<1> QED BY <1>2, <1>4, <1>7, <1>8, <1>9 DEF Good, Shape, Story

LEMMA ShutdownGood ==
  ASSUME Good(con), NEW o \in Shutdowns, NEW result, handle_async_shutdown(o, result)
  PROVE  /\ Good(con') /\ UNCHANGED <<pcM, orphans, tick>>
         /\ Untold(con, con') \/ Telling(con, con', o)
<1> DEFINE b == Ended(con, o)
           c == Stage(o)
           d == handle_terminate(c, o)
<1>1. /\ result \in Results(o) /\ UNCHANGED <<pcM, orphans, tick>>
      /\ con' = IF result = "aborted" \/ Expired(con, o) THEN b ELSE d
  BY DEF handle_async_shutdown, Handles
<1>2. Busy(con, o)
  BY <1>1 DEF Results, Busy
<1>3. con \in Conn /\ ShutdownInv(con)
  BY DEF Good, Story
<1>4. o \in Ops /\ o \in Timers /\ o \notin Stages /\ o \notin {"request", "response", "frame"}
  BY <1>3, Kinds DEF Shutdowns
<1>5. CASE result = "aborted" \/ Expired(con, o)
  BY <1>1, <1>4, <1>5, EndedGood
<1>6. CASE ~(result = "aborted" \/ Expired(con, o))
  <2>1. Due(con, o) /\ ~Told(con, Ends(o)) /\ con.timer[o] = "armed"
    BY <1>2, <1>3, <1>6 DEF ShutdownInv, Expired, Live
  <2>2. /\ b \in Conn /\ SameBut(con, b) /\ b.timer = con.timer
        /\ b.op = [con.op EXCEPT ![o] = "none"]
    BY <1>3, <1>4, EndedIs
  <2>3. c = CancelTimer(b, o)
    BY DEF Stage
  <2> HIDE DEF b, c
  <2>4. /\ c \in Conn /\ SameBut(b, c) /\ c.op = b.op
        /\ c.timer = [b.timer EXCEPT ![o] = IF b.timer[o] = "armed" THEN "off" ELSE b.timer[o]]
    BY <1>4, <2>2, <2>3, CancelTimerIs
  <2>5. /\ d \in Conn /\ d.calls = Append(c.calls, Ends(o)) /\ d.refused = c.refused
        /\ d.m_state = c.m_state /\ d.m_internal_state = c.m_internal_state
        /\ d.reading = c.reading /\ d.m_write_flag = c.m_write_flag
        /\ d.op = c.op /\ d.timer = c.timer
    BY <2>4, HandleTerminateIs
  <2> HIDE DEF d
  <2>6. /\ \A p \in Ops : p # o => d.op[p] = con.op[p]
        /\ ~Busy(d, o)
    BY <1>3, <1>4, <2>2, <2>4, <2>5, Kinds DEF Busy
  <2>7. /\ \A t \in Timers : t # o => d.timer[t] = con.timer[t]
        /\ d.timer[o] = "off"
    BY <1>3, <1>4, <2>1, <2>2, <2>4, <2>5, Kinds
  <2>8. /\ d.m_state = con.m_state /\ d.m_internal_state = con.m_internal_state
        /\ d.reading = con.reading /\ d.m_write_flag = con.m_write_flag
        /\ Telling(con, d, o)
    BY <2>1, <2>2, <2>4, <2>5 DEF SameBut, Telling
  <2>9. Good(d)
    BY <2>5, <2>6, <2>7, <2>8, TellingGood DEF Busy
  <2> QED BY <1>1, <1>6, <2>8, <2>9
<1> QED BY <1>5, <1>6

LEMMA ExpireGood ==
  ASSUME Good(con), NEW t, t \in Timers, Expire(t)
  PROVE  Good(con') /\ Untold(con, con') /\ UNCHANGED <<pcM, orphans, tick>>
<1> DEFINE f == [con.timer EXCEPT ![t] = "expired"]
           d == [con EXCEPT !.timer = f]
<1>0. con \in Conn /\ ChainInv(con) /\ WriteInv(con) /\ StageInv(con)
      /\ ShutdownInv(con) /\ CallsInv(con) /\ GoesOn(con)
  BY DEF Good, Shape, Story
<1>1. con' = d /\ con.timer[t] = "armed" /\ UNCHANGED <<pcM, orphans, tick>>
  BY <1>0 DEF Expire, Conn
<1>2. f \in [Timers -> Clocks]
  BY <1>0, Kinds DEF Clocks
<1> HIDE DEF f
<1>3. d \in Conn /\ SameBut(con, d) /\ d.op = con.op /\ d.timer = f
  BY <1>0, <1>2, SetTimer
<1> HIDE DEF d
<1>4. /\ d.timer[t] = "expired"
      /\ \A u \in Timers : u # t => d.timer[u] = con.timer[u]
  BY <1>0, <1>3, Kinds DEF f
<1>5. \A u \in Timers : Live(d, u) <=> Live(con, u)
  BY <1>1, <1>4 DEF Live
<1>6. ChainInv(d) /\ WriteInv(d)
  BY <1>0, <1>3, FewerBusy DEF Busy
<1>7. StageInv(d)
  <2> SUFFICES ASSUME NEW s \in Stages
               PROVE  /\ Busy(d, s) => d.timer[s] # "off"
                      /\ Busy(d, s) /\ d.timer[s] = "over" => d.m_state = "closed"
                      /\ d.timer[s] = "armed" => d.op[s] = "pending"
                      /\ Live(d, s) =>
                           /\ d.m_state = "connecting" /\ d.m_internal_state = During(s) /\ ~d.reading
                           /\ \A o \in Chain : Busy(d, o) => o = s
                           /\ \A u \in Timers : Live(d, u) => u = s
    BY DEF StageInv
  <2>1. s \in Timers
    BY <1>0, Kinds
  <2> QED BY <1>0, <1>3, <1>4, <1>5, <2>1 DEF StageInv, Busy, SameBut
<1>8. ShutdownInv(d)
  <2>1. \A o \in Shutdowns : d.timer[o] = con.timer[o] \/ (Live(con, o) /\ Live(d, o))
    BY <1>0, <1>1, <1>4, Kinds DEF Live
  <2> QED BY <1>0, <1>3, <2>1, ShutdownKept DEF Untold, Busy, SameBut
<1>9. CallsInv(d)
  BY <1>0, <1>3 DEF CallsInv, SameBut, Told, Unheard
<1>10. GoesOn(d)
  BY <1>0, <1>3, <1>5, Kinds DEF GoesOn, SameBut, Busy
<1> QED BY <1>1, <1>3, <1>6, <1>7, <1>8, <1>9, <1>10
     DEF Good, Shape, Story, SameBut, Untold

(* The timer of a stage or of a handshake has run out; c is what is left of *)
(* con when the operations are cancelled.                                  *)
LEMMA TimeoutGood ==
  ASSUME Good(con), NEW t, t \in Timers \ Shutdowns, con.timer[t] = "expired",
         NEW c, c \in Conn, SameBut(con, c), c.timer = con.timer,
         \A o \in Ops : Busy(c, o) <=> Busy(con, o),
         NEW d, d = [terminate(c) EXCEPT !.timer[t] = "over"]
  PROVE  Good(d) /\ Untold(con, d)
<1> DEFINE e == terminate(c)
           f == [e.timer EXCEPT ![t] = "over"]
<1>0. con \in Conn /\ ChainInv(con) /\ WriteInv(con) /\ StageInv(con)
      /\ ShutdownInv(con) /\ CallsInv(con)
  BY DEF Good, Shape, Story
<1>1. Shutdowns \subseteq Ops /\ Shutdowns \subseteq Timers /\ t \in Timers
  BY <1>0, Kinds
<1>2. ShutdownInv(c) /\ CallsInv(c)
  <2>1. ShutdownInv(c)
    BY <1>0, <1>1, ShutdownKept DEF Untold, SameBut
  <2> QED BY <1>0, <2>1 DEF CallsInv, SameBut, Told, Unheard
<1>3. /\ e \in Conn /\ SameRest(c, e) /\ e.m_state = "closed"
      /\ \A o \in Ops : o \notin Shutdowns => e.op[o] = c.op[o]
      /\ \A u \in Timers : u \notin Shutdowns =>
           \/ e.timer[u] = c.timer[u]
           \/ u \in {"open", "close"} /\ c.timer[u] = "armed" /\ e.timer[u] = "off"
  BY <1>2, TerminateIs
<1>4. Story(e)
  BY <1>2, TerminateStory
<1> HIDE DEF e
<1>5. f \in [Timers -> Clocks]
  BY <1>3, Kinds DEF Clocks
<1>6. d = [e EXCEPT !.timer = f]
  BY <1>3 DEF Conn, e
<1> HIDE DEF f
<1>7. d \in Conn /\ SameBut(e, d) /\ d.op = e.op /\ d.timer = f
  <2>1. e \in Conn
    BY <1>3
  <2> QED BY ONLY <2>1, <1>5, <1>6, SetTimer
<1>8. d.timer[t] = "over" /\ \A u \in Timers : u # t => d.timer[u] = e.timer[u]
  BY <1>1, <1>3, <1>7, Kinds DEF f
<1>9. ChainInv(d) /\ WriteInv(d)
  <2>1. ChainInv(e) /\ WriteInv(e)
    <3>1. \A o \in Ops : o \notin Shutdowns => (Busy(e, o) => Busy(con, o))
      BY <1>3 DEF Busy
    <3>2. SameRest(con, e)
      BY <1>3 DEF SameRest, SameBut
    <3> QED BY <1>0, <3>1, <3>2, FewerBusy
  <2>2. e \in Conn /\ SameBut(e, d) /\ \A o \in Ops : Busy(d, o) => Busy(e, o)
    BY <1>3, <1>7 DEF Busy
  <2> QED BY <2>1, <2>2, FewerBusy
<1>10. StageInv(d)
  <2>1. \A s \in Stages : ~Live(d, s) /\ (Busy(d, s) => d.timer[s] = "over")
    <3> SUFFICES ASSUME NEW s \in Stages
                 PROVE  ~Live(d, s) /\ (Busy(d, s) => d.timer[s] = "over")
      OBVIOUS
    <3>1. s \in Timers /\ s \notin Shutdowns /\ s \notin {"open", "close"} /\ s \in Ops
      BY <1>0, Kinds
    <3>2. CASE s = t
      BY <1>8, <3>2 DEF Live
    <3>3. CASE s # t
      <4>1. d.timer[s] = con.timer[s]
        BY <1>3, <1>8, <3>1, <3>3
      <4>2. Live(con, t)
        BY DEF Live
      <4>3. ~Live(con, s)
        BY <1>0, <1>1, <3>3, <4>2 DEF StageInv
      <4>4. Busy(d, s) => Busy(con, s)
        BY <1>3, <1>7, <3>1 DEF Busy
      <4>5. con.timer[s] \in Clocks
        BY <1>0, <3>1, Kinds
      <4> QED BY <1>0, <4>1, <4>3, <4>4, <4>5 DEF StageInv, Live, Clocks
    <3> QED BY <3>2, <3>3
  <2>2. d.m_state = "closed"
    BY <1>3, <1>7 DEF SameBut
  <2> QED BY <2>1, <2>2 DEF StageInv, Live
<1>11. ShutdownInv(d)
  <2>1. \A o \in Shutdowns : d.timer[o] = e.timer[o] /\ d.op[o] = e.op[o]
    BY <1>1, <1>7, <1>8
  <2>2. ShutdownInv(e)
    BY <1>4 DEF Story
  <2>3. Untold(e, d) /\ d.m_state = e.m_state
    BY <1>7 DEF Untold, SameBut
  <2>4. \A o \in Shutdowns : d.timer[o] = e.timer[o] /\ (Busy(d, o) => Busy(e, o))
    BY <2>1 DEF Busy
  <2> QED BY ONLY <2>2, <2>3, <2>4, ShutdownKept
<1>12. CallsInv(d) /\ GoesOn(d)
  BY <1>3, <1>4, <1>7 DEF Story, CallsInv, GoesOn, SameBut, Told, Unheard
<1> QED BY <1>3, <1>7, <1>9, <1>10, <1>11, <1>12
     DEF Good, Shape, Story, SameBut, SameRest, Untold

(* What is cancelled is still under way: its handler is to come.            *)
LEMMA CancelKeeps ==
  ASSUME Good(con), NEW ops, ops \subseteq Ops, NEW c, c = Cancel(con, ops)
  PROVE  /\ c \in Conn /\ SameBut(con, c) /\ c.timer = con.timer
         /\ \A o \in Ops : Busy(c, o) <=> Busy(con, o)
<1>1. con \in Conn
  BY DEF Good
<1>2. /\ c \in Conn /\ SameBut(con, c) /\ c.timer = con.timer
      /\ \A o \in Ops :
           c.op[o] = IF o \in ops /\ con.op[o] = "pending" THEN "cancelled" ELSE con.op[o]
  BY <1>1, CancelIs
<1> QED BY <1>2 DEF Busy

LEMMA StageTimeoutGood ==
  ASSUME Good(con), NEW t, t \in Stages, NEW ops, ops \subseteq Ops,
         TimedOut(t, terminate(Cancel(con, ops)))
  PROVE  Good(con') /\ Untold(con, con') /\ UNCHANGED <<pcM, orphans, tick>>
<1> DEFINE c == Cancel(con, ops)
<1>1. /\ con.timer[t] = "expired" /\ UNCHANGED <<pcM, orphans, tick>>
      /\ con' = [terminate(c) EXCEPT !.timer[t] = "over"]
  BY DEF TimedOut
<1>2. /\ c \in Conn /\ SameBut(con, c) /\ c.timer = con.timer
      /\ \A o \in Ops : Busy(c, o) <=> Busy(con, o)
  BY CancelKeeps
<1>3. t \in Timers \ Shutdowns
  BY Kinds DEF Good
<1> HIDE DEF c
<1> QED BY <1>1, <1>2, <1>3, TimeoutGood

LEMMA HandshakeTimeoutGood ==
  ASSUME Good(con), NEW t, t \in {"open", "close"}, TimedOut(t, terminate(con))
  PROVE  Good(con') /\ Untold(con, con') /\ UNCHANGED <<pcM, orphans, tick>>
<1>1. /\ con.timer[t] = "expired" /\ UNCHANGED <<pcM, orphans, tick>>
      /\ con' = [terminate(con) EXCEPT !.timer[t] = "over"]
  BY DEF TimedOut
<1>2. t \in Timers \ Shutdowns /\ con \in Conn /\ SameBut(con, con)
  BY DEF Timers, Shutdowns, Good, SameBut
<1> QED BY <1>1, <1>2, TimeoutGood

LEMMA ShutdownTimeoutGood ==
  ASSUME Good(con), NEW o \in Shutdowns, handle_async_shutdown_timeout(o)
  PROVE  Good(con') /\ Telling(con, con', o) /\ UNCHANGED <<pcM, orphans, tick>>
<1> DEFINE c == Cancel(con, SocketOps)
           e == handle_terminate(c, o)
           f == [e.timer EXCEPT ![o] = "over"]
           d == [e EXCEPT !.timer = f]
<1>0. con \in Conn /\ ShutdownInv(con) /\ o \in Timers
  BY Kinds DEF Good, Story
<1>1. /\ con.timer[o] = "expired" /\ UNCHANGED <<pcM, orphans, tick>>
      /\ con' = [e EXCEPT !.timer[o] = "over"]
  BY DEF handle_async_shutdown_timeout, TimedOut
<1>2. Due(con, o) /\ ~Told(con, Ends(o))
  BY <1>0, <1>1 DEF ShutdownInv
<1>3. /\ c \in Conn /\ SameBut(con, c) /\ c.timer = con.timer
      /\ \A p \in Ops : Busy(c, p) <=> Busy(con, p)
  BY CancelKeeps DEF SocketOps
<1> HIDE DEF c
<1>4. /\ e \in Conn /\ e.calls = Append(c.calls, Ends(o)) /\ e.refused = c.refused
      /\ e.m_state = c.m_state /\ e.m_internal_state = c.m_internal_state
      /\ e.reading = c.reading /\ e.m_write_flag = c.m_write_flag
      /\ e.op = c.op /\ e.timer = c.timer
  BY <1>3, HandleTerminateIs
<1> HIDE DEF e
<1>5. con' = d
  BY <1>1, <1>4 DEF Conn
<1>6. f \in [Timers -> Clocks]
  BY <1>4, Kinds DEF Clocks
<1>7. f[o] = "over" /\ \A t \in Timers : t # o => f[t] = con.timer[t]
  BY <1>0, <1>3, <1>4, Kinds
<1> HIDE DEF f
<1>8. d \in Conn /\ SameBut(e, d) /\ d.op = e.op /\ d.timer = f
  BY <1>4, <1>6, SetTimer
<1> HIDE DEF d
<1>9. /\ d.m_state = con.m_state /\ d.m_internal_state = con.m_internal_state
      /\ d.reading = con.reading /\ d.m_write_flag = con.m_write_flag
      /\ Telling(con, d, o)
  BY <1>2, <1>3, <1>4, <1>8 DEF SameBut, Telling
<1>10. \A p \in Ops : Busy(d, p) <=> Busy(con, p)
  BY <1>3, <1>4, <1>8 DEF Busy
<1>11. Good(d)
  BY <1>7, <1>8, <1>9, <1>10, TellingGood
<1> QED BY <1>1, <1>5, <1>9, <1>11

-----------------------------------------------------------------------------
(* The loop of handle_read_frame.                                          *)

LEMMA Looping ==
  ASSUME Good(con), con.reading
  PROVE  /\ con \in Conn /\ con.m_internal_state = "PROCESS_CONNECTION"
         /\ con.m_state \in {"open", "closing", "closed"}
         /\ Quiet(con) /\ \A o \in Chain : ~Busy(con, o)
<1>1. con \in Conn /\ ChainInv(con) /\ WriteInv(con) /\ StageInv(con) /\ ShutdownInv(con)
      /\ CallsInv(con) /\ GoesOn(con)
  BY DEF Good, Shape, Story
<1>2. con.m_internal_state = "PROCESS_CONNECTION" /\ \A o \in Chain : ~Busy(con, o)
  BY <1>1 DEF ChainInv
<1>3. Quiet(con)
  BY <1>1, QuietIs
<1>4. con.m_state # "connecting"
  <2>1. ~Busy(con, "request") /\ ~Busy(con, "response")
    BY <1>2 DEF Chain
  <2> QED BY <1>1, <1>3, <2>1 DEF GoesOn, Quiet
<1> QED BY <1>1, <1>2, <1>3, <1>4, Kinds

LEMMA QueueGood ==
  ASSUME NEW c, Good(c), c.m_internal_state = "PROCESS_CONNECTION", Quiet(c),
         NEW frame, frame \in Frames, NEW d, d = Queue(c, frame)
  PROVE  /\ Good(d) /\ d.m_state = c.m_state /\ Untold(c, d)
<1> DEFINE q == Append(c.m_send_queue, frame)
           e == [c EXCEPT !.m_send_queue = q]
           p == Post(e, "write_frame")
<1>1. c \in Conn /\ WriteInv(c)
  BY DEF Good, Shape
<1>2. d = IF c.m_write_flag THEN e ELSE p
  BY DEF Queue
<1>3. q \in Seq(Frames)
  BY <1>1 DEF Conn
<1> HIDE DEF q
<1>4. e \in Conn
  BY <1>1, <1>3 DEF Conn
<1>5. /\ e.m_state = c.m_state /\ e.m_internal_state = c.m_internal_state
      /\ e.reading = c.reading /\ e.calls = c.calls /\ e.refused = c.refused
      /\ e.m_write_flag = c.m_write_flag /\ e.timer = c.timer /\ e.op = c.op
  BY <1>1 DEF Conn
<1> HIDE DEF e
<1>6. Busy(e, "write") => e.m_write_flag
  BY <1>1, <1>5 DEF WriteInv, Busy
<1>7. CASE d = e
  BY <1>4, <1>5, <1>6, <1>7, WritesGood DEF Untold
<1>8. CASE d = p
  <2>1. "write_frame" \in Ops /\ "write" \in Ops
    BY DEF Ops
  <2>2. /\ p \in Conn /\ SameBut(e, p) /\ p.timer = e.timer
        /\ p.op = [e.op EXCEPT !["write_frame"] = "pending"]
    BY <1>4, <2>1, PostIs
  <2> HIDE DEF p
  <2>3. \A o \in Ops : o # "write_frame" => p.op[o] = e.op[o]
    BY <1>4, <2>2, Kinds
  <2>4. /\ \A o \in Ops \ {"write", "write_frame"} : p.op[o] = c.op[o]
        /\ Busy(p, "write") => p.m_write_flag
    BY <1>5, <1>6, <2>1, <2>2, <2>3 DEF SameBut, Busy
  <2>5. /\ p.m_state = c.m_state /\ p.m_internal_state = c.m_internal_state
        /\ p.reading = c.reading /\ p.calls = c.calls /\ p.refused = c.refused
        /\ p.timer = c.timer
    BY <1>5, <2>2 DEF SameBut
  <2>6. Good(p)
    BY <2>2, <2>4, <2>5, WritesGood
  <2> QED BY <1>8, <2>5, <2>6 DEF Untold
<1> QED BY <1>2, <1>7, <1>8

(* The closing handshake begins, or begins again.                          *)
LEMMA ClosingGood ==
  ASSUME Good(con), con.reading, con.m_state \in {"open", "closing"},
         NEW e, e = ArmHandshakeTimer([con EXCEPT !.m_state = "closing"], "close")
  PROVE  /\ Good(e) /\ Quiet(e) /\ e.m_internal_state = "PROCESS_CONNECTION"
         /\ e.m_state = "closing" /\ Untold(con, e)
<1> DEFINE b == [con EXCEPT !.m_state = "closing"]
           c == Arm(b, "close")
<1>1. /\ con \in Conn /\ con.m_internal_state = "PROCESS_CONNECTION"
      /\ Quiet(con) /\ \A o \in Chain : ~Busy(con, o)
  BY Looping
<1>2. b \in Conn
  BY <1>1 DEF Conn, States
<1>3. /\ b.m_state = "closing" /\ b.m_internal_state = con.m_internal_state
      /\ b.reading = con.reading /\ b.calls = con.calls /\ b.refused = con.refused
      /\ b.m_write_flag = con.m_write_flag /\ b.timer = con.timer /\ b.op = con.op
  BY <1>1 DEF Conn
<1>4. e = [c EXCEPT !.m_handshake_timer = "close"]
  BY DEF ArmHandshakeTimer
<1> HIDE DEF b
<1>5. "close" \in Timers
  BY DEF Timers
<1>6. /\ c \in Conn /\ SameBut(b, c) /\ c.op = b.op
      /\ c.timer = [b.timer EXCEPT !["close"] =
                      IF b.timer["close"] = "expired" THEN "expired" ELSE "armed"]
  BY <1>2, <1>5, ArmIs
<1> HIDE DEF c
<1>7. e \in Conn
  BY <1>4, <1>6 DEF Conn
<1>8. SameBut(c, e) /\ e.op = c.op /\ e.timer = c.timer
  BY <1>4, <1>6 DEF Conn, SameBut
<1>9. /\ e.m_state = "closing" /\ e.m_internal_state = "PROCESS_CONNECTION"
      /\ e.reading = TRUE /\ e.calls = con.calls /\ e.refused = con.refused
      /\ e.m_write_flag = con.m_write_flag /\ e.op = con.op
  <2>1. con.reading = TRUE
    BY <1>1, Kinds
  <2>2. e.reading = con.reading
    BY <1>3, <1>6, <1>8 DEF SameBut
  <2>3. /\ e.m_state = "closing" /\ e.m_internal_state = "PROCESS_CONNECTION"
        /\ e.calls = con.calls /\ e.refused = con.refused
        /\ e.m_write_flag = con.m_write_flag /\ e.op = con.op
    BY <1>1, <1>3, <1>6, <1>8 DEF SameBut
  <2> QED BY <2>1, <2>2, <2>3
<1>10. /\ Live(e, "close")
       /\ \A t \in Timers : t # "close" => e.timer[t] = con.timer[t]
  BY <1>1, <1>2, <1>3, <1>5, <1>6, <1>8, Kinds DEF Live
<1>11. ChainInv(e) /\ WriteInv(e)
  BY <1>1, <1>9 DEF Good, Shape, ChainInv, WriteInv, Busy
<1>12. StageInv(e) /\ Quiet(e)
  <2>1. \A t \in Stages : e.timer[t] = con.timer[t] /\ (Busy(e, t) => Busy(con, t))
    BY <1>1, <1>9, <1>10, Kinds DEF Busy
  <2> QED BY <1>1, <2>1, QuietStays DEF Good, Shape
<1>13. ShutdownInv(e)
  <2>1. \A o \in Shutdowns : e.timer[o] = con.timer[o]
    BY <1>1, <1>10, Kinds
  <2> QED BY <1>9, <2>1, ShutdownKept DEF Good, Story, Untold, Busy
<1>14. CallsInv(e) /\ GoesOn(e)
  BY <1>9, <1>10 DEF Good, Story, CallsInv, GoesOn, Told, Unheard
<1> QED BY <1>7, <1>9, <1>11, <1>12, <1>13, <1>14 DEF Good, Shape, Story, Untold

(* No more frames are read.                                                *)
LEMMA StopGood ==
  ASSUME NEW c, Good(c), c.m_state \in {"closing", "closed"},
         NEW d, d = [c EXCEPT !.reading = FALSE]
  PROVE  Good(d) /\ Untold(c, d)
<1>1. c \in Conn
  BY DEF Good
<1>2. d \in Conn
  BY <1>1 DEF Conn
<1>3. /\ d.m_state = c.m_state /\ d.m_internal_state = c.m_internal_state
      /\ d.reading = FALSE /\ d.calls = c.calls /\ d.refused = c.refused
      /\ d.m_write_flag = c.m_write_flag /\ d.timer = c.timer /\ d.op = c.op
  BY <1>1 DEF Conn
<1>4. ChainInv(d) /\ WriteInv(d) /\ StageInv(d)
  BY <1>3 DEF Good, Shape, ChainInv, WriteInv, StageInv, Busy, Live
<1>5. ShutdownInv(d) /\ CallsInv(d) /\ GoesOn(d)
  <2>1. ShutdownInv(d)
    BY <1>3, ShutdownKept DEF Good, Story, Untold, Busy
  <2> QED BY <1>3, <2>1 DEF Good, Story, CallsInv, GoesOn, Told, Unheard, Busy, Live
<1> QED BY <1>2, <1>3, <1>4, <1>5 DEF Good, Shape, Story, Untold

LEMMA PingGood ==
  ASSUME Good(con), Ping
  PROVE  Good(con') /\ Untold(con, con') /\ UNCHANGED <<pcM, orphans, tick>>
<1>1. /\ con.reading /\ con' = Queue(con, [terminal |-> FALSE])
      /\ UNCHANGED <<pcM, orphans, tick>>
  BY DEF Ping, InLoop
<1>2. [terminal |-> FALSE] \in Frames
  BY DEF Frames
<1>3. con.m_internal_state = "PROCESS_CONNECTION" /\ Quiet(con)
  BY <1>1, Looping
<1> QED BY <1>1, <1>2, <1>3, QueueGood

LEMMA SendCloseGood ==
  ASSUME Good(con), con.reading, con.m_state \in {"open", "closing"},
         NEW terminal \in BOOLEAN, NEW d, d = send_close_frame(con, terminal)
  PROVE  Good(d) /\ d.m_state = "closing" /\ Untold(con, d)
<1> DEFINE e == ArmHandshakeTimer([con EXCEPT !.m_state = "closing"], "close")
<1>1. /\ Good(e) /\ Quiet(e) /\ e.m_internal_state = "PROCESS_CONNECTION"
      /\ e.m_state = "closing" /\ Untold(con, e)
  BY ClosingGood
<1>2. d = Queue(e, [terminal |-> terminal])
  BY DEF send_close_frame
<1>3. [terminal |-> terminal] \in Frames
  BY DEF Frames
<1> HIDE DEF e
<1> QED BY <1>1, <1>2, <1>3, QueueGood DEF Untold

LEMMA CloseFrameGood ==
  ASSUME Good(con), NEW valid \in BOOLEAN, CloseFrame(valid)
  PROVE  Good(con') /\ Untold(con, con') /\ UNCHANGED <<pcM, orphans, tick>>
<1>1. /\ con.reading /\ con.m_state \in {"open", "closing"}
      /\ con' = send_close_frame(con, FALSE)
      /\ UNCHANGED <<pcM, orphans, tick>>
  BY DEF CloseFrame, InLoop
<1> QED BY <1>1, SendCloseGood

LEMMA ConsumeErrorGood ==
  ASSUME Good(con), ConsumeError
  PROVE  Good(con') /\ Untold(con, con') /\ UNCHANGED <<pcM, orphans, tick>>
<1> DEFINE d == IF con.m_state = "open" THEN send_close_frame(con, TRUE) ELSE terminate(con)
<1>1. /\ con.reading /\ con' = [d EXCEPT !.reading = FALSE]
      /\ UNCHANGED <<pcM, orphans, tick>>
  BY DEF ConsumeError, InLoop
<1>2. Good(d) /\ d.m_state \in {"closing", "closed"} /\ Untold(con, d)
  <2>1. CASE con.m_state = "open"
    BY <1>1, <2>1, SendCloseGood
  <2>2. CASE con.m_state # "open"
    <3>1. /\ con \in Conn /\ ChainInv(con) /\ WriteInv(con) /\ ShutdownInv(con) /\ CallsInv(con)
          /\ \A t \in Stages : ~Live(con, t) /\ (Busy(con, t) => con.timer[t] = "over")
      BY <1>1, Looping DEF Good, Shape, Story, Quiet
    <3>2. Good(terminate(con)) /\ Untold(con, terminate(con))
      BY <3>1, TerminateGood
    <3>3. terminate(con).m_state = "closed"
      BY <3>1, TerminateStory
    <3> QED BY <2>2, <3>2, <3>3
  <2> QED BY <2>1, <2>2
<1> HIDE DEF d
<1> QED BY <1>1, <1>2, StopGood DEF Untold

LEMMA ReadFrameGood ==
  ASSUME Good(con), read_frame
  PROVE  Good(con') /\ Untold(con, con') /\ UNCHANGED <<pcM, orphans, tick>>
<1> DEFINE c == Start(con, "frame")
           d == [c EXCEPT !.reading = FALSE]
<1>1. con.reading /\ con' = d /\ UNCHANGED <<pcM, orphans, tick>>
  BY DEF read_frame, InLoop
<1>2. /\ con \in Conn /\ con.m_internal_state = "PROCESS_CONNECTION"
      /\ con.m_state \in {"open", "closing", "closed"}
      /\ Quiet(con) /\ \A o \in Chain : ~Busy(con, o)
  BY <1>1, Looping
<1>3. "frame" \in Ops /\ "frame" \in Chain /\ "frame" \notin Stages
      /\ "write" \in Ops /\ "write_frame" \in Ops /\ Shutdowns \subseteq Ops \ {"frame"}
  BY DEF Ops, Chain, Stages, Shutdowns
<1>4. /\ c \in Conn /\ SameBut(con, c) /\ c.timer = con.timer
      /\ c.op = [con.op EXCEPT !["frame"] = "pending"]
  BY <1>2, <1>3, StartIs
<1> HIDE DEF c
<1>5. d \in Conn
  BY <1>4 DEF Conn
<1>6. /\ d.reading = FALSE /\ d.m_state = c.m_state /\ d.m_internal_state = c.m_internal_state
      /\ d.calls = c.calls /\ d.refused = c.refused /\ d.m_write_flag = c.m_write_flag
      /\ d.timer = c.timer /\ d.op = c.op
  BY <1>4 DEF Conn
<1> HIDE DEF d
<1>7. /\ d.m_state = con.m_state /\ d.m_internal_state = "PROCESS_CONNECTION"
      /\ d.calls = con.calls /\ d.refused = con.refused /\ d.m_write_flag = con.m_write_flag
      /\ d.timer = con.timer
  BY <1>2, <1>4, <1>6 DEF SameBut
<1>8. Busy(d, "frame") /\ \A o \in Ops : o # "frame" => d.op[o] = con.op[o]
  BY <1>2, <1>3, <1>4, <1>6, Kinds DEF Busy
<1>9. ChainInv(d)
  <2>1. \A o \in Chain : Busy(d, o) => o = "frame"
    BY <1>2, <1>8, Kinds DEF Busy
  <2>2. d.m_internal_state = During("frame")
    BY <1>7 DEF During
  <2> QED BY <1>6, <2>1, <2>2 DEF ChainInv
<1>10. WriteInv(d)
  BY <1>3, <1>7, <1>8 DEF Good, Shape, WriteInv, Busy
<1>11. StageInv(d)
  <2>1. \A t \in Stages : d.timer[t] = con.timer[t] /\ (Busy(d, t) => Busy(con, t))
    BY <1>2, <1>3, <1>7, <1>8, Kinds DEF Busy
  <2> QED BY <1>2, <1>7, <2>1, QuietStays DEF Good, Shape
<1>12. ShutdownInv(d) /\ CallsInv(d)
  <2>1. ShutdownInv(d)
    BY <1>3, <1>7, <1>8, ShutdownKept DEF Good, Story, Untold, Busy
  <2> QED BY <1>7, <2>1 DEF Good, Story, CallsInv, Told, Unheard
<1>13. GoesOn(d)
  BY <1>2, <1>7, <1>8 DEF Good, Story, GoesOn, Live
<1> QED BY <1>1, <1>5, <1>7, <1>9, <1>10, <1>11, <1>12, <1>13 DEF Good, Shape, Story, Untold

-----------------------------------------------------------------------------
(* MDSocket::Run.                                                          *)

LEMMA FreshIs ==
  /\ Fresh \in Conn /\ Bare(Fresh) /\ Shape(Fresh)
  /\ Fresh.m_internal_state = "USER_INIT" /\ Fresh.reading = FALSE /\ Unheard(Fresh)
  /\ \A o \in Ops : ~Busy(Fresh, o)
<1>1. /\ [o \in Ops |-> "none"] \in [Ops -> Statuses]
      /\ [t \in Timers |-> "off"] \in [Timers -> Clocks]
      /\ <<>> \in Seq(Frames) /\ <<>> \in Seq({"OnOpen", "OnFail", "OnClose"})
  BY DEF Statuses, Clocks
<1>2. Fresh \in Conn
  BY <1>1 DEF Fresh, Conn, States, InternalStates, Statuses, Clocks
<1>3. /\ Fresh.m_state = "connecting" /\ Fresh.m_internal_state = "USER_INIT"
      /\ Fresh.reading = FALSE /\ Unheard(Fresh)
      /\ \A o \in Ops : Fresh.op[o] = "none"
      /\ \A t \in Timers : Fresh.timer[t] = "off"
  BY DEF Fresh, Unheard
<1>4. Bare(Fresh) /\ \A o \in Ops : ~Busy(Fresh, o)
  BY <1>3 DEF Bare, Busy, Live, Timers, Shutdowns
<1>5. ChainInv(Fresh) /\ WriteInv(Fresh)
  BY <1>3, <1>4 DEF ChainInv, WriteInv, Chain, Ops
<1>6. StageInv(Fresh)
  BY <1>3, <1>4 DEF StageInv, Live, Stages, Ops, Timers
<1> QED BY <1>2, <1>3, <1>4, <1>5, <1>6 DEF Shape

(* Before the first attempt.                                               *)
LEMMA Initially ==
  ASSUME CInit
  PROVE  ConnectionInv /\ Calls!Init
<1>1. 0 \in 0 .. MaxOrphans
  BY ConnectionAssumption
<1> QED BY <1>1, FreshIs DEF CInit, ConnectionInv, Calls!Init, Unheard

LEMMA ConnectStep ==
  ASSUME ConnectionInv, Connect
  PROVE  ConnectionInv' /\ Calls!Connect
<1>1. pcM = "connect" /\ UNCHANGED <<orphans, tick>>
  BY DEF Connect
<1>2. CASE pcM' = "run" /\ con' = Start(Arm(Fresh, "resolve"), "resolve")
  <2>1. "resolve" \in Stages /\ Fresh.m_internal_state = During("resolve")
    BY FreshIs DEF Stages, During
  <2>2. Good(con') /\ Unheard(con')
    BY <1>2, <2>1, FreshIs, BeginGood
  <2> QED BY <1>1, <1>2, <2>2 DEF ConnectionInv, Good, Unheard, Calls!Connect
<1>3. CASE pcM' = "ended" /\ con' = Fresh
  BY <1>1, <1>3, FreshIs DEF ConnectionInv, Unheard, Calls!Connect
<1> QED BY <1>2, <1>3 DEF Connect

(* Nothing is left to wait for only when the end has been told.             *)
LEMMA ReturnStep ==
  ASSUME ConnectionInv, Return
  PROVE  ConnectionInv' /\ Calls!Return
<1>1. /\ pcM = "run" /\ pcM' = "reinit" /\ UNCHANGED <<con, orphans, tick>>
      /\ ~con.reading /\ \A o \in Ops : ~Busy(con, o)
      /\ \A t \in Timers : ~Live(con, t)
  BY DEF Return, NothingLeft, Busy, Live
<1>2. Story(con) /\ con \in Conn
  BY <1>1 DEF ConnectionInv
<1>3. con.m_state = "closed"
  <2>1. /\ "request" \in Ops /\ "response" \in Ops /\ "frame" \in Ops /\ "close" \in Timers
        /\ Stages \subseteq Timers
    BY DEF Ops, Timers, Stages
  <2> QED BY <1>1, <1>2, <2>1, Kinds DEF Story, GoesOn
<1>4. \A o \in Shutdowns : Due(con, o) => Told(con, Ends(o))
  BY <1>1, <1>2, Kinds DEF Story, ShutdownInv
<1>5. /\ Told(con, "OnOpen") => Told(con, "OnClose")
      /\ ~Told(con, "OnOpen") \/ con.refused => Told(con, "OnFail")
  BY <1>3, <1>4 DEF Due, Ends, Shutdowns
<1>6. con.refused \in BOOLEAN
  BY <1>2 DEF Conn
<1>7. Calls!Return
  BY <1>1, <1>5, <1>6 DEF Calls!Return, Calls!Called, Told
<1> QED BY <1>1, <1>7 DEF ConnectionInv

(* MDSocket knows of an open connection, and of no end of it.               *)
LEMMA OpenOnly ==
  ASSUME Story(con), con.m_state = "open"
  PROVE  Told(con, "OnOpen") /\ ~Told(con, "OnClose")
<1>1. "shutdown_closed" \in Shutdowns /\ ~Due(con, "shutdown_closed")
  BY DEF Due, Shutdowns
<1>2. ~Told(con, "OnClose")
  BY <1>1 DEF Story, ShutdownInv, Ends
<1> QED BY <1>2 DEF Story, CallsInv

LEMMA MessageStep ==
  ASSUME ConnectionInv, OnMessage
  PROVE  ConnectionInv' /\ Calls!Message
<1>1. /\ con.m_state = "open" /\ tick' = 1 - tick /\ con' = con /\ con.reading
      /\ UNCHANGED <<pcM, orphans>>
  BY DEF OnMessage, InLoop
<1>2. pcM = "run" /\ Story(con)
  BY <1>1 DEF ConnectionInv
<1>3. Told(con, "OnOpen") /\ ~Told(con, "OnClose")
  BY <1>1, <1>2, OpenOnly
<1>4. tick' \in {0, 1}
  BY <1>1 DEF ConnectionInv
<1>5. Calls!Message
  BY <1>1, <1>2, <1>3 DEF Calls!Message, Calls!Receiving, Calls!Called, Told
<1> QED BY <1>1, <1>4, <1>5 DEF ConnectionInv, Shape, Story, ChainInv, WriteInv, StageInv,
            ShutdownInv, Due, Told, CallsInv, Unheard, GoesOn, Busy, Live

LEMMA ThrowStep ==
  ASSUME ConnectionInv, OnMessage_Throws
  PROVE  ConnectionInv' /\ Calls!Throw
<1>1. /\ con.reading /\ con.m_state = "open" /\ pcM' = "reinit" /\ UNCHANGED tick
      /\ con' = [Fresh EXCEPT !.calls = con.calls, !.refused = con.refused]
      /\ orphans' = orphans \/ (orphans < MaxOrphans /\ orphans' = orphans + 1)
  BY DEF OnMessage_Throws
<1>2. pcM = "run" /\ Story(con) /\ con \in Conn
  BY <1>1 DEF ConnectionInv
<1>3. Told(con, "OnOpen") /\ ~Told(con, "OnClose")
  BY <1>1, <1>2, OpenOnly
<1>4. con' \in Conn /\ con'.calls = con.calls /\ con'.refused = con.refused
  BY <1>1, <1>2, FreshIs DEF Conn
<1>5. /\ con'.m_state = Fresh.m_state /\ con'.m_internal_state = Fresh.m_internal_state
      /\ con'.op = Fresh.op /\ con'.timer = Fresh.timer
      /\ con'.reading = FALSE /\ con'.m_write_flag = Fresh.m_write_flag
  BY <1>1, FreshIs DEF Conn
<1> DEFINE d == con'
<1>6. ChainInv(d) /\ WriteInv(d) /\ StageInv(d) /\ \A o \in Ops : ~Busy(d, o)
  BY <1>5, FreshIs DEF Shape, ChainInv, WriteInv, StageInv, Busy, Live
<1>7. orphans' \in 0 .. MaxOrphans
  BY <1>1, ConnectionAssumption DEF ConnectionInv
<1>8. Calls!Throw
  BY <1>1, <1>2, <1>3, <1>4 DEF Calls!Throw, Calls!Receiving, Calls!Called, Told
<1> QED BY <1>1, <1>4, <1>5, <1>6, <1>7, <1>8 DEF ConnectionInv, Shape

(* What is under way while run waits.                                      *)
LEMMA Running ==
  ASSUME ConnectionInv, pcM = "run"
  PROVE  Good(con)
BY DEF ConnectionInv, Good

LEMMA StillRunning ==
  ASSUME ConnectionInv, pcM = "run", Good(con'), UNCHANGED <<pcM, orphans, tick>>
  PROVE  ConnectionInv'
<1> QED BY DEF ConnectionInv, Good

(* The handlers that say nothing of the connection to MDSocket.             *)
Silent ==
  \/ \E result \in {"ok", "error", "aborted"} :
       \/ handle_resolve(result) \/ handle_connect(result) \/ handle_post_init(result)
       \/ handle_send_http_request(result)
       \/ handle_read_frame(result) \/ handle_write_frame(result)
  \/ write_frame
  \/ \E t \in Timers : Expire(t)
  \/ handle_resolve_timeout \/ handle_connect_timeout \/ handle_post_init_timeout
  \/ handle_open_handshake_timeout \/ handle_close_handshake_timeout
  \/ Ping \/ ConsumeError \/ read_frame
  \/ \E valid \in BOOLEAN : CloseFrame(valid)

LEMMA SilentStep ==
  ASSUME ConnectionInv, Silent
  PROVE  ConnectionInv' /\ UNCHANGED Calls!vars
<1> SUFFICES /\ pcM = "run" /\ Good(con') /\ Untold(con, con')
             /\ UNCHANGED <<pcM, orphans, tick>>
  BY StillRunning DEF Calls!vars, Untold
<1>1. pcM = "run"
  BY DEF Silent, handle_resolve, handle_connect, handle_post_init, handle_send_http_request,
         handle_read_frame, handle_write_frame, write_frame, Expire, handle_resolve_timeout,
         handle_connect_timeout, handle_post_init_timeout, handle_open_handshake_timeout,
         handle_close_handshake_timeout, Ping, ConsumeError, read_frame, CloseFrame,
         StageEnds, Handles, TimedOut, InLoop, ConnectionInv
<1>2. Good(con)
  BY <1>1, Running
<1>3. CASE \E result \in {"ok", "error", "aborted"} :
             \/ handle_resolve(result) \/ handle_connect(result) \/ handle_post_init(result)
             \/ handle_send_http_request(result)
             \/ handle_read_frame(result) \/ handle_write_frame(result)
  BY <1>1, <1>2, <1>3, ResolveGood, ConnectGood, PostInitGood, RequestGood, FrameGood, WriteGood
<1>4. CASE write_frame
  BY <1>1, <1>2, <1>4, WriteFrameGood
<1>5. CASE \E t \in Timers : Expire(t)
  BY <1>1, <1>2, <1>5, ExpireGood
<1>6. CASE handle_resolve_timeout \/ handle_connect_timeout \/ handle_post_init_timeout
  <2>1. {"resolve"} \subseteq Ops /\ SocketOps \subseteq Ops
    BY DEF Ops, SocketOps
  <2>2. "resolve" \in Stages /\ "connect" \in Stages /\ "tls" \in Stages
    BY DEF Stages
  <2> QED BY <1>1, <1>2, <1>6, <2>1, <2>2, StageTimeoutGood
        DEF handle_resolve_timeout, handle_connect_timeout, handle_post_init_timeout
<1>7. CASE handle_open_handshake_timeout \/ handle_close_handshake_timeout
  BY <1>1, <1>2, <1>7, HandshakeTimeoutGood
     DEF handle_open_handshake_timeout, handle_close_handshake_timeout
<1>8. CASE Ping \/ ConsumeError \/ read_frame
  BY <1>1, <1>2, <1>8, PingGood, ConsumeErrorGood, ReadFrameGood
<1>9. CASE \E valid \in BOOLEAN : CloseFrame(valid)
  BY <1>1, <1>2, <1>9, CloseFrameGood
<1> QED BY <1>3, <1>4, <1>5, <1>6, <1>7, <1>8, <1>9 DEF Silent

(* The handlers that may call one of MDSocket.                             *)
Speaking ==
  \/ \E result \in {"ok", "error", "aborted"} :
       \/ handle_read_http_response(result)
       \/ \E o \in Shutdowns : handle_async_shutdown(o, result)
  \/ \E o \in Shutdowns : handle_async_shutdown_timeout(o)

(* What a handler that ends a shutdown tells MDSocket is due to it.         *)
LEMMA EndIsDue ==
  ASSUME Good(con), pcM = "run", UNCHANGED <<pcM, tick>>,
         NEW o \in Shutdowns, Telling(con, con', o)
  PROVE  Calls!Fail \/ Calls!Close
<1>1. con \in Conn /\ ShutdownInv(con)
  BY DEF Good, Story
<1>2. \A h : Calls!Called(h) <=> Told(con, h)
  BY DEF Calls!Called, Told
<1>3. CASE o = "shutdown_failed"
  <2>1. /\ ~Told(con, "OnFail") /\ con'.calls = Append(con.calls, "OnFail")
        /\ con.refused \/ ~Told(con, "OnOpen")
    BY <1>3 DEF Telling, Due, Ends
  <2>2. con.refused \/ con.calls = <<>>
    <3>1. ~Told(con, "OnOpen") => ~Told(con, "OnClose")
      BY <1>1 DEF ShutdownInv, Due, Ends, Shutdowns
    <3>2. con.calls \in Seq({"OnOpen", "OnFail", "OnClose"})
      BY <1>1 DEF Conn
    <3>3. ASSUME ~Told(con, "OnOpen"), con.calls # <<>> PROVE FALSE
      <4>1. 1 \in DOMAIN con.calls /\ con.calls[1] \in {"OnOpen", "OnFail", "OnClose"}
        BY <3>2, <3>3
      <4> QED BY <2>1, <3>1, <3>3, <4>1 DEF Told
    <3> QED BY <2>1, <3>3
  <2> QED BY <1>2, <2>1, <2>2 DEF Calls!Fail, Calls!Calling, Telling
<1>4. CASE o = "shutdown_closed"
  <2>1. /\ ~Told(con, "OnClose") /\ con'.calls = Append(con.calls, "OnClose")
        /\ Told(con, "OnOpen")
    BY <1>4 DEF Telling, Due, Ends
  <2> QED BY <1>2, <2>1 DEF Calls!Close, Calls!Calling, Telling
<1> QED BY <1>3, <1>4 DEF Shutdowns

LEMMA SpeakingStep ==
  ASSUME ConnectionInv, Speaking
  PROVE  ConnectionInv' /\ [Calls!Next]_(Calls!vars)
<1>1. pcM = "run"
  BY DEF Speaking, handle_read_http_response, handle_async_shutdown,
         handle_async_shutdown_timeout, Handles, TimedOut
<1>2. Good(con)
  BY <1>1, Running
<1>3. /\ Good(con') /\ UNCHANGED <<pcM, orphans, tick>>
      /\ \/ Untold(con, con')
         \/ /\ con.calls = <<>> /\ con'.calls = Append(con.calls, "OnOpen")
            /\ con'.refused \in BOOLEAN
         \/ \E o \in Shutdowns : Telling(con, con', o)
  BY <1>2, ResponseGood, ShutdownGood, ShutdownTimeoutGood DEF Speaking
<1>4. ConnectionInv'
  BY <1>1, <1>3, StillRunning
<1>5. CASE Untold(con, con')
  BY <1>3, <1>4, <1>5 DEF Untold, Calls!vars
<1>6. CASE con.calls = <<>> /\ con'.calls = Append(con.calls, "OnOpen") /\ con'.refused \in BOOLEAN
  <2>1. ~Calls!Called("OnOpen")
    BY <1>6 DEF Calls!Called
  <2>2. Calls!Open
    BY <1>1, <1>3, <1>6, <2>1 DEF Calls!Open, Calls!Calling
  <2> QED BY <1>4, <2>2 DEF Calls!Next
<1>7. CASE \E o \in Shutdowns : Telling(con, con', o)
  BY <1>1, <1>2, <1>3, <1>4, <1>7, EndIsDue DEF Calls!Next
<1> QED BY <1>3, <1>5, <1>6, <1>7

(* Every step keeps the invariant, and is one of Socket or none.            *)
LEMMA Step ==
  ASSUME ConnectionInv, [CNext]_cVars
  PROVE  ConnectionInv' /\ [Calls!Next]_(Calls!vars)
<1>1. CASE Connect
  BY <1>1, ConnectStep DEF Calls!Next
<1>2. CASE Return
  BY <1>2, ReturnStep DEF Calls!Next
<1>3. CASE ReInit
  <2>1. Calls!ReInit
    BY <1>3 DEF ReInit, Calls!ReInit
  <2>2. ConnectionInv'
    BY <1>3 DEF ReInit, ConnectionInv
  <2> QED BY <2>1, <2>2 DEF Calls!Next
<1>4. CASE OrphanEnds
  <2>1. orphans' \in 0 .. MaxOrphans
    BY <1>4, ConnectionAssumption DEF OrphanEnds, ConnectionInv
  <2> QED BY <1>4, <2>1 DEF OrphanEnds, ConnectionInv, Calls!vars
<1>5. CASE Silent
  BY <1>5, SilentStep
<1>6. CASE Speaking
  BY <1>6, SpeakingStep
<1>7. CASE OnMessage
  BY <1>7, MessageStep DEF Calls!Next
<1>8. CASE OnMessage_Throws
  BY <1>8, ThrowStep DEF Calls!Next
<1>9. CASE UNCHANGED cVars
  BY <1>9 DEF cVars, ConnectionInv, Calls!vars
<1>10. CNext => \/ Connect \/ Return \/ ReInit \/ OrphanEnds \/ Silent \/ Speaking
                \/ OnMessage \/ OnMessage_Throws
  BY DEF CNext, OperationEnds, TimeOut, Silent, Speaking
<1> QED BY <1>1, <1>2, <1>3, <1>4, <1>5, <1>6, <1>7, <1>8, <1>9, <1>10

-----------------------------------------------------------------------------
(* One operation of the chain at a time, and writes only after it; each     *)
(* stage alone with its timer; a shutdown begun and told of once for what   *)
(* failed before OnOpen, or was refused, and once for what was closed       *)
(* after it; and as long as the connection is not closed, something of it   *)
(* under way (connection_impl.hpp:1105-1128, 1619-1649, 1698-1828;          *)
(* connection.hpp:496-595 and 1036-1131 of the transport).                  *)
THEOREM ConnectionInvariant == CSpec => []ConnectionInv
<1>1. CInit => ConnectionInv
  BY Initially
<1>2. ConnectionInv /\ [CNext]_cVars => ConnectionInv'
  BY Step
<1> QED BY <1>1, <1>2, PTL DEF CSpec

(* At most one member.                                                     *)
LEMMA AtMostOne ==
  ASSUME NEW S, \A a, b \in S : a = b
  PROVE  Cardinality(S) <= 1
<1>1. CASE S = {}
  BY <1>1, FS_EmptySet
<1>2. CASE S # {}
  <2>1. PICK a : a \in S
    BY <1>2
  <2>2. S = {a}
    BY <2>1
  <2> QED BY <2>2, FS_Singleton
<1> QED BY <1>1, <1>2

(* No two operations meet on a stream, and none is begun while it is under  *)
(* way: there is never more than one to read and one to write, and no       *)
(* handler reads from within the loop of handle_read_frame. TLS is shut     *)
(* down once, and of a closed connection; but when the extensions were      *)
(* refused, once more, and the first time while it is open                  *)
(* (connection_impl.hpp:1619-1649, 1698-1748, 1793-1828, 1105-1128).        *)
THEOREM NoOverlap == CSpec => []OneAtATime
<1>1. ConnectionInv => OneAtATime
  <2> SUFFICES ASSUME ConnectionInv PROVE OneAtATime
    OBVIOUS
  <2>1. CTypeOK
    BY DEF ConnectionInv, CTypeOK, Conn
  <2>2. /\ con \in Conn /\ ChainInv(con) /\ WriteInv(con)
    BY DEF ConnectionInv, Shape
  <2>3. Cardinality(UnderWay({"connect", "tls", "response", "frame"})) <= 1
    <3>1. \A o, p \in UnderWay({"connect", "tls", "response", "frame"}) : o = p
      BY <2>2 DEF UnderWay, ChainInv, Busy, Chain
    <3> QED BY <3>1, AtMostOne
  <2>4. Cardinality(UnderWay({"connect", "tls", "request", "write"})) <= 1
    <3>1. \A o \in {"connect", "tls", "request"} : Busy(con, o) => ~Busy(con, "write")
      BY <2>2 DEF ChainInv, WriteInv, Chain, During
    <3>2. \A o, p \in UnderWay({"connect", "tls", "request", "write"}) : o = p
      BY <2>2, <3>1 DEF UnderWay, ChainInv, Busy, Chain
    <3> QED BY <3>2, AtMostOne
  <2>5. con.reading => UnderWay({"response", "frame"}) = {}
    BY <2>2 DEF UnderWay, ChainInv, Busy, Chain
  <2>6. CASE pcM = "run"
    <3>1. /\ "shutdown_failed" \in Shutdowns /\ "shutdown_closed" \in Shutdowns
          /\ \A o \in Shutdowns : Busy(con, o) => Due(con, o)
      BY <2>6 DEF ConnectionInv, Story, ShutdownInv, Shutdowns
    <3>2. con.op["shutdown_closed"] # "none" => con.m_state = "closed"
      BY <3>1 DEF Due, Busy
    <3>3. con.refused \/ con.op["shutdown_failed"] = "none" \/ con.m_state = "closed"
      BY <3>1 DEF Due, Busy
    <3>4. con.refused \/ Cardinality(UnderWay(Shutdowns)) <= 1
      <4>1. ASSUME ~con.refused, NEW o \in Shutdowns, NEW p \in Shutdowns, Due(con, o), Due(con, p)
            PROVE  o = p
        BY <4>1 DEF Due, Shutdowns
      <4>2. ~con.refused => \A o, p \in UnderWay(Shutdowns) : o = p
        BY <3>1, <4>1 DEF UnderWay, Busy
      <4> QED BY <4>2, AtMostOne
    <3> QED BY <2>1, <2>3, <2>4, <2>5, <3>2, <3>3, <3>4 DEF OneAtATime
  <2>7. CASE pcM # "run"
    <3>1. \A o \in Shutdowns : con.op[o] = "none"
      BY <2>2, <2>7, Kinds DEF ConnectionInv, Busy
    <3>2. Cardinality(UnderWay(Shutdowns)) <= 1
      BY <3>1, AtMostOne DEF UnderWay
    <3> QED BY <2>1, <2>3, <2>4, <2>5, <3>1, <3>2 DEF OneAtATime, Shutdowns
  <2> QED BY <2>6, <2>7
<1> QED BY <1>1, ConnectionInvariant, PTL

(* Of each attempt OnOpen or OnFail is called, and both only when the       *)
(* extensions were refused; none of them, and no OnClose, twice; OnClose    *)
(* and messages after OnOpen only, and no message after OnClose; and run    *)
(* comes back only when no call is due any more, or when OnMessage has      *)
(* thrown (connection.hpp:50-80, connection_impl.hpp:1619-1649,             *)
(* MDSocket.cpp:91-131).                                                    *)
THEOREM ConnectionImplements == CSpec => ImplementsSocket
<1>1. CInit => Calls!Init
  BY Initially
<1>2. ConnectionInv /\ [CNext]_cVars => [Calls!Next]_(Calls!vars)
  BY Step
<1> QED BY <1>1, <1>2, ConnectionInvariant, PTL DEF CSpec, ImplementsSocket, Calls!Spec
=============================================================================
