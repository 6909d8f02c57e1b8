----------------------------- MODULE Connection -----------------------------
(***************************************************************************)
(* The connection of MDSocket, from the look-up of the host to its end:    *)
(* MDSocket::Run and the client of websocketpp with its TLS transport over *)
(* asio (src/lib/websocketpp: impl/connection_impl.hpp,                    *)
(* transport/asio/connection.hpp and endpoint.hpp,                         *)
(* transport/asio/security/tls.hpp, roles/client_endpoint.hpp).            *)
(*                                                                         *)
(* One thread runs all handlers, one at a time. What the peer and the net  *)
(* do is external: an operation ends well or with an error when its        *)
(* handler is called, or never. An expired timer waits for its handler,    *)
(* and cancelling it then has no effect; a cancelled operation may have    *)
(* ended already.                                                          *)
(***************************************************************************)
EXTENDS Integers, Sequences, FiniteSets

CONSTANTS
  MaxQueue,     \* bound: how many frames wait to be sent
  MaxOrphans    \* bound: how many abandoned connections are still at work

ASSUME ConnectionAssumption == MaxQueue \in Nat \ {0} /\ MaxOrphans \in Nat

VARIABLES
  pcM,       \* where MDSocket::Run is
  con,       \* its connection
  orphans,   \* connections run was thrown out of that have work left in asio
  tick       \* flips with every price that OnMessage pushes

cVars == <<pcM, con, orphans, tick>>

(* The asynchronous operations of a connection, the posted write_frame     *)
(* among them, and its timers; those of an operation bear its name. An     *)
(* async_shutdown is bound to what has become of the connection.           *)
Shutdowns == {"shutdown_failed", "shutdown_closed"}
Ops    == {"resolve", "connect", "tls", "request", "response", "frame",
           "write_frame", "write"} \union Shutdowns
SocketOps == Ops \ {"resolve", "write_frame"}
Timers == {"resolve", "connect", "tls", "open", "close"} \union Shutdowns

Fresh ==
  [m_state |-> "connecting", m_internal_state |-> "USER_INIT",
   op    |-> [o \in Ops |-> "none"],
   timer |-> [t \in Timers |-> "off"],
   m_handshake_timer |-> "none",
   reading |-> FALSE,        \* in the loop of handle_read_frame
   m_send_queue |-> <<>>, m_current_msgs |-> <<>>, m_write_flag |-> FALSE,
   calls |-> <<>>,           \* history: the handlers of MDSocket called,
   refused |-> FALSE]        \* and whether the extensions were refused

CInit == pcM = "connect" /\ con = Fresh /\ orphans = 0 /\ tick = 0

-----------------------------------------------------------------------------
(* What the handlers are built from: each maps the connection c to what    *)
(* the call leaves of it.                                                  *)

(* "twice" when it is under way already, which asio does not allow.        *)
Start(c, o) == [c EXCEPT !.op[o] = IF @ = "none" THEN "pending" ELSE "twice"]
Ended(c, o) == [c EXCEPT !.op[o] = "none"]
Post(c, o)  == [c EXCEPT !.op[o] = "pending"]

(* Timers armed twice count as one: each fires, and finds nothing to do.   *)
Arm(c, t) == [c EXCEPT !.timer[t] = IF @ = "expired" THEN @ ELSE "armed"]
CancelTimer(c, t) == [c EXCEPT !.timer[t] = IF @ = "armed" THEN "off" ELSE @]
Expired(c, t)  == c.timer[t] \in {"expired", "over"}   \* is_neg(expires_from_now())

Cancel(c, ops) ==
  [c EXCEPT !.op = [o \in Ops |-> IF o \in ops /\ @[o] = "pending" THEN "cancelled" ELSE @[o]]]

CancelHandshakeTimer(c) ==
  IF c.m_handshake_timer = "none" THEN c
  ELSE [CancelTimer(c, c.m_handshake_timer) EXCEPT !.m_handshake_timer = "none"]

ArmHandshakeTimer(c, t) == [Arm(c, t) EXCEPT !.m_handshake_timer = t]

async_shutdown(c, o) == Start(Arm(c, o), o)

tstat(c) == IF c.m_state = "connecting" THEN "shutdown_failed" ELSE "shutdown_closed"

terminate_Always(c) ==
  async_shutdown([CancelHandshakeTimer(c) EXCEPT !.m_state = "closed"], tstat(c))

terminate(c) ==
  LET d == CancelHandshakeTimer(c) IN
  IF c.m_state = "closed" THEN d
  ELSE async_shutdown([d EXCEPT !.m_state = "closed"], tstat(c))

handle_terminate(c, o) ==
  [c EXCEPT !.calls = Append(@, IF o = "shutdown_failed" THEN "OnFail" ELSE "OnClose")]

(* write_push, and write_frame posted unless a write is under way.         *)
Queue(c, frame) ==
  LET d == [c EXCEPT !.m_send_queue = Append(@, frame)] IN
  IF c.m_write_flag THEN d ELSE Post(d, "write_frame")

send_close_frame_NoTimer(c, terminal) ==
  Queue([c EXCEPT !.m_state = "closing"],
        [terminal |-> terminal])

send_close_frame(c, terminal) ==
  Queue(ArmHandshakeTimer([c EXCEPT !.m_state = "closing"], "close"),
        [terminal |-> terminal])

-----------------------------------------------------------------------------
(* MDSocket::Run.                                                          *)

(* get_connection, and connect: async_connect of the endpoint.             *)
Connect ==
  /\ pcM = "connect"
  /\ \/ /\ pcM' = "run"
        /\ con' = Start(Arm(Fresh, "resolve"), "resolve")
     \/ pcM' = "ended" /\ con' = Fresh
  /\ UNCHANGED <<orphans, tick>>

(* run has nothing left to wait for.                                       *)
NothingLeft ==
  /\ \A o \in Ops : con.op[o] = "none"
  /\ \A t \in Timers : con.timer[t] \in {"off", "over"}

Return ==
  /\ pcM = "run" /\ ~con.reading /\ NothingLeft /\ orphans = 0
  /\ pcM' = "reinit"
  /\ UNCHANGED <<con, orphans, tick>>

(* After a second. Of what ReInit does only the reset has an effect: the   *)
(* endpoint is initialised already, which throws, and keeps its handlers.  *)
ReInit ==
  /\ pcM = "reinit"
  /\ pcM' = "connect"
  /\ UNCHANGED <<con, orphans, tick>>

(* What is left of an abandoned connection ends, in a later run; whether   *)
(* OnClose is called for it makes no difference to MDSocket.               *)
OrphanEnds ==
  /\ pcM = "run" /\ orphans > 0
  /\ orphans' = orphans - 1
  /\ UNCHANGED <<pcM, con, tick>>

-----------------------------------------------------------------------------
(* The handlers of operations and timers.                                  *)

Results(o) ==
  CASE con.op[o] = "none" -> {}
    [] con.op[o] = "cancelled" -> {"ok", "error", "aborted"}
    [] OTHER -> {"ok", "error"}

(* The handler of o is called with a result, and leaves d.                 *)
Handles(o, result, d) ==
  /\ pcM = "run" /\ ~con.reading
  /\ result \in Results(o)
  /\ con' = d
  /\ UNCHANGED <<pcM, orphans, tick>>

(* The stages of connecting test their own timer: its handler has called   *)
(* back, or will. d is the connection when the stage has ended well.       *)
StageEnds(o, result, d) ==
  Handles(o, result,
    IF Expired(con, o) \/ (result = "aborted" /\ o # "tls") THEN Ended(con, o)
    ELSE IF result = "ok" THEN d
    ELSE terminate(CancelTimer(Ended(con, o), o)))

Stage(o) == CancelTimer(Ended(con, o), o)
Begin_NoTimer(c, o) == Start(c, o)
Begin(c, o) == Start(Arm(c, o), o)

handle_resolve(result) == StageEnds("resolve", result, Begin(Stage("resolve"), "connect"))

(* The client's handle_connect and start; of init, post_init takes time.   *)
handle_connect(result) ==
  StageEnds("connect", result,
    Begin([Stage("connect") EXCEPT !.m_internal_state = "TRANSPORT_INIT"], "tls"))

(* handle_post_init, handle_transport_init, send_http_request.             *)
handle_post_init(result) ==
  StageEnds("tls", result,
    Start(ArmHandshakeTimer([Stage("tls") EXCEPT !.m_internal_state = "WRITE_HTTP_REQUEST"],
                            "open"),
          "request"))

Failed(o) == terminate(Ended(con, o))

handle_send_http_request(result) ==
  Handles("request", result,
    IF result = "ok" /\ con.m_state = "closed" THEN Ended(con, "request")
    ELSE IF result = "ok" /\ con.m_state = "connecting" /\ con.m_internal_state = "WRITE_HTTP_REQUEST"
    THEN Start([Ended(con, "request") EXCEPT !.m_internal_state = "READ_HTTP_RESPONSE"],
               "response")
    ELSE Failed("request"))

(* The response may come in parts, and may be no valid one. When it is,    *)
(* OnOpen is called, and the bytes after it are handled as frames: also    *)
(* when its extensions are refused, for which the connection is terminated *)
(* first.                                                                  *)
OpenWith(c, refused) ==
  [c EXCEPT !.m_internal_state = "PROCESS_CONNECTION", !.m_state = "open",
            !.calls = Append(@, "OnOpen"), !.reading = TRUE, !.refused = refused]

handle_read_http_response(result) ==
  \E response \in {"part", "valid", "refused", "invalid"} :
    Handles("response", result,
      IF result = "ok" /\ con.m_state = "closed" THEN Ended(con, "response")
      ELSE IF result # "ok" \/ response = "invalid"
              \/ con.m_state # "connecting" \/ con.m_internal_state # "READ_HTTP_RESPONSE"
      THEN Failed("response")
      ELSE IF response = "part" THEN Start(Ended(con, "response"), "response")
      ELSE IF response = "refused" THEN OpenWith(Failed("response"), TRUE)
      ELSE OpenWith(CancelHandshakeTimer(Ended(con, "response")), FALSE))

handle_read_frame(result) ==
  Handles("frame", result,
    IF result = "ok" /\ con.m_internal_state = "PROCESS_CONNECTION"
    THEN [Ended(con, "frame") EXCEPT !.reading = TRUE]
    ELSE Failed("frame"))

(* All frames up to the first terminal one are written at once.            *)
write_frame_NoFlag ==
  Handles("write_frame", "ok",
    LET c == Ended(con, "write_frame") IN
    IF c.m_send_queue = <<>> THEN c
    ELSE Start([c EXCEPT !.m_current_msgs = c.m_send_queue, !.m_send_queue = <<>>], "write"))

Terminal(msgs) == msgs # <<>> /\ msgs[Len(msgs)].terminal

write_frame ==
  LET c == Ended(con, "write_frame")
      n == Cardinality({i \in DOMAIN c.m_send_queue :
             \A j \in 1 .. i - 1 : ~c.m_send_queue[j].terminal}) IN
  Handles("write_frame", "ok",
    IF c.m_write_flag \/ c.m_send_queue = <<>> THEN c
    ELSE Start([c EXCEPT
           !.m_current_msgs = SubSeq(c.m_send_queue, 1, n),
           !.m_send_queue = SubSeq(@, n + 1, Len(@)),
           !.m_write_flag = TRUE], "write"))

handle_write_frame(result) ==
  LET c == [Ended(con, "write") EXCEPT !.m_current_msgs = <<>>] IN
  Handles("write", result,
    IF result # "ok" \/ Terminal(con.m_current_msgs) THEN terminate(c)
    ELSE IF c.m_send_queue = <<>> THEN [c EXCEPT !.m_write_flag = FALSE]
    ELSE Post([c EXCEPT !.m_write_flag = FALSE], "write_frame"))

handle_async_shutdown(o, result) ==
  Handles(o, result,
    IF result = "aborted" \/ Expired(con, o) THEN Ended(con, o)
    ELSE handle_terminate(Stage(o), o))

Expire(t) ==
  /\ pcM = "run" /\ con.timer[t] = "armed"
  /\ con' = [con EXCEPT !.timer[t] = "expired"]
  /\ UNCHANGED <<pcM, orphans, tick>>

(* The handler of an expired timer is called, and leaves d.                *)
TimedOut(t, d) ==
  /\ pcM = "run" /\ ~con.reading
  /\ con.timer[t] = "expired"
  /\ con' = [d EXCEPT !.timer[t] = "over"]
  /\ UNCHANGED <<pcM, orphans, tick>>

handle_resolve_timeout   == TimedOut("resolve", terminate(Cancel(con, {"resolve"})))
handle_connect_timeout   == TimedOut("connect", terminate(Cancel(con, SocketOps)))
handle_post_init_timeout == TimedOut("tls", terminate(Cancel(con, SocketOps)))
handle_open_handshake_timeout  == TimedOut("open", terminate(con))
handle_close_handshake_timeout == TimedOut("close", terminate(con))
handle_async_shutdown_timeout(o) ==
  TimedOut(o, handle_terminate(Cancel(con, SocketOps), o))

-----------------------------------------------------------------------------
(* The loop of handle_read_frame: a frame a step. process_control_frame,   *)
(* pong and OnMessage are called from it; in the states closing and closed *)
(* only a close frame counts. An assertion of rapidjson may also end the   *)
(* process in OnMessage, as Pipeline has it.                               *)

InLoop(d) ==
  /\ con.reading
  /\ con' = d
  /\ UNCHANGED <<pcM, orphans>>

(* A price, or a message that OnMessage has no use for.                    *)
OnMessage ==
  /\ con.m_state = "open"
  /\ tick' = 1 - tick
  /\ InLoop(con)

(* std::stod throws: through the loop, through run, to Run.                *)
OnMessage_Throws ==
  /\ con.reading /\ con.m_state = "open"
  /\ IF NothingLeft THEN UNCHANGED orphans
     ELSE orphans < MaxOrphans /\ orphans' = orphans + 1
  /\ pcM' = "reinit"
  /\ con' = [Fresh EXCEPT !.calls = con.calls, !.refused = con.refused]
  /\ UNCHANGED tick

Ping ==
  /\ con.m_state = "open" /\ Len(con.m_send_queue) < MaxQueue
  /\ InLoop(Queue(con, [terminal |-> FALSE]))
  /\ UNCHANGED tick

(* send_close_ack; a close frame with an invalid code or reason is         *)
(* acknowledged in the state closing, too.                                 *)
CloseFrame(valid) ==
  /\ con.m_state = "open" \/ (con.m_state = "closing" /\ ~valid)
  /\ Len(con.m_send_queue) < MaxQueue
  /\ InLoop(send_close_frame(con, FALSE))
  /\ UNCHANGED tick

(* consume fails: close, with a terminal frame, and no more reading.       *)
ConsumeError ==
  /\ Len(con.m_send_queue) < MaxQueue
  /\ InLoop([IF con.m_state = "open" THEN send_close_frame(con, TRUE) ELSE terminate(con)
             EXCEPT !.reading = FALSE])
  /\ UNCHANGED tick

(* All bytes are consumed: read_frame.                                     *)
read_frame ==
  /\ InLoop([Start(con, "frame") EXCEPT !.reading = FALSE])
  /\ UNCHANGED tick

-----------------------------------------------------------------------------
OperationEnds(result) ==
  \/ handle_resolve(result) \/ handle_connect(result) \/ handle_post_init(result)
  \/ handle_send_http_request(result) \/ handle_read_http_response(result)
  \/ handle_read_frame(result) \/ handle_write_frame(result)
  \/ \E o \in Shutdowns : handle_async_shutdown(o, result)

TimeOut ==
  \/ handle_resolve_timeout \/ handle_connect_timeout \/ handle_post_init_timeout
  \/ handle_open_handshake_timeout \/ handle_close_handshake_timeout
  \/ \E o \in Shutdowns : handle_async_shutdown_timeout(o)

CNext ==
  \/ Connect \/ Return \/ ReInit \/ OrphanEnds
  \/ \E result \in {"ok", "error", "aborted"} : OperationEnds(result)
  \/ write_frame
  \/ \E t \in Timers : Expire(t)
  \/ TimeOut
  \/ OnMessage \/ OnMessage_Throws \/ Ping \/ ConsumeError \/ read_frame
  \/ \E valid \in BOOLEAN : CloseFrame(valid)

CSpec == CInit /\ [][CNext]_cVars

(* The peer, or TCP for it, brings to an end what is being read once TLS   *)
(* is shut down.                                                           *)
PeerEnds ==
  /\ con.m_state = "closed" /\ \A o \in Shutdowns : con.op[o] = "none"
  /\ \/ handle_send_http_request("error") \/ handle_read_http_response("error")
     \/ handle_read_frame("error")

(* asio calls its handlers in the order they become due, so none is passed *)
(* over for ever; a buffer has an end, and TCP gives up on a write that is *)
(* not acknowledged. Of the peer nothing else is assumed: it may fall      *)
(* silent for ever.                                                        *)
CFairSpec ==
  /\ CSpec
  /\ WF_cVars(\E t \in Timers : Expire(t)) /\ SF_cVars(TimeOut)
  /\ SF_cVars(OperationEnds("aborted")) /\ SF_cVars(write_frame)
  /\ SF_cVars(\E result \in {"ok", "error"} : handle_write_frame(result))
  /\ WF_cVars(read_frame) /\ SF_cVars(PeerEnds)
  /\ WF_cVars(OrphanEnds) /\ WF_cVars(Return)
-----------------------------------------------------------------------------
States == {"connecting", "open", "closing", "closed"}
InternalStates ==
  {"USER_INIT", "TRANSPORT_INIT", "WRITE_HTTP_REQUEST", "READ_HTTP_RESPONSE",
   "PROCESS_CONNECTION"}
Frames == [terminal : BOOLEAN]

(* Types; no operation is begun again while it is under way.                *)
CTypeOK ==
  /\ pcM \in {"connect", "run", "reinit", "ended"}
  /\ con.m_state \in States /\ con.m_internal_state \in InternalStates
  /\ con.op \in [Ops -> {"none", "pending", "cancelled"}]
  /\ con.timer \in [Timers -> {"off", "armed", "expired", "over"}]
  /\ con.m_handshake_timer \in {"none", "open", "close"}
  /\ con.m_send_queue \in Seq(Frames) /\ con.m_current_msgs \in Seq(Frames)
  /\ con.m_write_flag \in BOOLEAN /\ con.reading \in BOOLEAN /\ con.refused \in BOOLEAN
  /\ orphans \in 0 .. MaxOrphans /\ tick \in {0, 1}

UnderWay(ops) == {o \in ops : con.op[o] # "none"}

(* asio allows one read and one write of a stream at a time, and nobody     *)
(* counts them: it follows from the order of the states, the write flag and *)
(* the test in terminate that neither a late part of the handshake nor a    *)
(* frame, a pong or a close from another handler overlaps with one. TLS is  *)
(* shut down once, by whoever finds the connection broken, and not while it *)
(* is in use; unless the extensions were refused: then a shutdown is under  *)
(* way while the connection is open, and there may be a second, but not a   *)
(* third (connection_impl.hpp:1619-1649, 1698-1748, 1793-1828, 1105-1128).  *)
OneAtATime ==
  /\ CTypeOK
  /\ Cardinality(UnderWay({"connect", "tls", "response", "frame"})) <= 1
  /\ Cardinality(UnderWay({"connect", "tls", "request", "write"})) <= 1
  /\ con.reading => UnderWay({"response", "frame"}) = {}
  /\ con.op["shutdown_closed"] # "none" => con.m_state = "closed"
  /\ con.refused \/ Cardinality(UnderWay(Shutdowns)) <= 1
  /\ con.refused \/ con.op["shutdown_failed"] = "none" \/ con.m_state = "closed"

Calls == INSTANCE Socket WITH calls <- con.calls, refused <- con.refused

(* Whatever timers, errors and cancelled operations come together, each     *)
(* attempt that is not refused its extensions has either OnOpen or OnFail   *)
(* called, one that is has both, and whichever has OnOpen has OnClose in    *)
(* the end; each once. run comes back only then, or when OnMessage has      *)
(* thrown (connection.hpp:50-80, connection_impl.hpp:1619-1649,             *)
(* MDSocket.cpp:91-131).                                                    *)
ImplementsSocket == Calls!Spec

(* "Either the fail handler or the open handler will be called for each     *)
(* WebSocket connection attempt" (connection.hpp:54-55).                    *)
EitherOpenOrFail ==
  ~ {"OnOpen", "OnFail"} \subseteq {con.calls[n] : n \in DOMAIN con.calls}

(* Whatever the peer does or does not, an attempt ends: each stage has its  *)
(* timer, and an expired timer is not lost to a result that comes too late  *)
(* (endpoint.hpp:893-1100, connection.hpp:496-595 of the transport).        *)
OpensOrFails ==
  pcM = "run" /\ con.m_state = "connecting" ~> con.m_state # "connecting"

(* A connection that is closing, or has failed, lets run return, so that    *)
(* MDSocket connects again: also when the peer leaves the close frame or    *)
(* the end of TLS unanswered (connection_impl.hpp:1681-1695, 2057-2158;     *)
(* connection.hpp:1036-1131 of the transport).                              *)
ClosingReturns ==
  pcM = "run" /\ con.m_state \in {"closing", "closed"} ~> pcM # "run"
=============================================================================
