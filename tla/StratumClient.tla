--------------------------- MODULE StratumClient ---------------------------
(***************************************************************************)
(* EthStratumClient: one client object driven by the handlers of the single*)
(* io thread.  c is the object together with the part of asio that belongs *)
(* to it: q is the FIFO queue of the handlers that are ready to run, ops   *)
(* counts the asynchronous operations in flight.  Closing or cancelling a  *)
(* socket completes its operations with an error, which only queues their  *)
(* handlers: what was queued before still runs first.  Functions of the    *)
(* class are operators from the object before to the object after.         *)
(*                                                                         *)
(* Time is what the timer compares: a plea is FALSE until responsetimeout  *)
(* has passed since it was made, workLate tells that worktimeout has       *)
(* passed since the last job.                                              *)
(***************************************************************************)
EXTENDS Naturals, Sequences, FiniteSets, Functions

CONSTANTS
    Pools, None, Secure, Version, Reachable,   \* as in PoolClient
    Hosts,       \* the pools given by name, which have to be resolved
    Endpoints,   \* the number of addresses a name resolves to
    MaxPleas,    \* bound: requests that await their answer
    MaxBacklog   \* bound: handlers ready to run when an event comes in

VARIABLES
    c,           \* the client
    pool         \* the remote end of the connection

vars == <<c, pool>>

AutoMode == 999
NoSession == None    \* m_session = nullptr

Op == {"resolve", "connect", "read", "write", "shutdown"}
Session == [subscribed : BOOLEAN, authorized : BOOLEAN,
            firstMiningSet : BOOLEAN, extraNonce : 0 .. 2]
NewSession == [subscribed |-> FALSE, authorized |-> FALSE,
               firstMiningSet |-> FALSE, extraNonce |-> 0]

ASSUME StratumAssumption ==
    /\ None \notin Pools /\ None \notin Session
    /\ Secure \subseteq Pools /\ Reachable \subseteq Pools
    /\ Version \in [Pools -> 0 .. 3 \cup {AutoMode}]
    /\ Endpoints \in Nat /\ MaxPleas \in Nat /\ MaxBacklog \in Nat

\* the constructor, and the URI object it will be given by setConnection()
NewClient(p, u) ==
    [target |-> p, uri |-> u, m_conn |-> FALSE,
     m_connecting |-> FALSE, m_disconnecting |-> FALSE, m_connected |-> FALSE,
     m_authpending |-> FALSE, m_txPending |-> FALSE,
     m_socket |-> "null", m_endpoints |-> 0, m_session |-> NoSession,
     pleas |-> <<>>, older |-> FALSE, workLate |-> FALSE,
     m_workloop_timer |-> FALSE, m_txQueue |-> <<>>, m_sendBuffer |-> <<>>,
     m_current |-> [startNonce |-> 0, due |-> 0], m_newjobprocessed |-> FALSE,
     m_solution_submitted_max_id |-> 0,
     q |-> <<>>, ops |-> [o \in Op |-> 0], down |-> FALSE, up |-> FALSE,
     m_submithrtimer |-> "off", crash |-> "no"]

NewURI == [mode |-> AutoMode, confirmed |-> FALSE, unrecoverable |-> FALSE,
           responds |-> FALSE]

NewPool == [asked |-> {}, login |-> FALSE, nonce |-> 0]

Init ==
    /\ \E p \in Pools : c = NewClient(p, NewURI)
    /\ pool = NewPool

secure(s) == s.target \in Secure
isPendingState(s) == s.m_connecting \/ s.m_disconnecting
isConnected(s) == s.m_connected /\ ~isPendingState(s)
isSubscribed(s) == s.m_session # NoSession /\ s.m_session.subscribed
isAuthorized(s) == s.m_session # NoSession /\ s.m_session.authorized

\* a null pointer is dereferenced: nothing runs any more, what was queued and
\* in flight is gone
Crash(s, what) ==
    [s EXCEPT !.crash = what, !.q = <<>>, !.ops = [o \in Op |-> 0]]

post(s, h) == [s EXCEPT !.q = Append(@, h)]
Handler(n) == [fn |-> n, ec |-> FALSE, lines |-> <<>>]
Failed(n) == [fn |-> n, ec |-> TRUE, lines |-> <<>>]
postDisconnect(s) == post(s, Handler("disconnect"))
start(s, o) == [s EXCEPT !.ops[o] = @ + 1]

\* The operations in flight on the socket, at most one of a kind, are aborted.
abort(s, o, fn) ==
    IF s.ops[o] = 0 THEN s ELSE post([s EXCEPT !.ops[o] = @ - 1], Failed(fn))
cancel(s) ==
    abort(abort(abort(s, "connect", "connect_handler"), "read", "recv"),
          "write", "sent")
close(s) ==
    [abort(cancel(s), "shutdown", "onSSLShutdownCompleted") EXCEPT
        !.m_socket = IF @ = "open" THEN "closed" ELSE @]

-----------------------------------------------------------------------------
(* The pleas: the answers awaited, oldest first.                            *)

enqueue_response_plea(s) ==
    [s EXCEPT !.pleas = Append(@, FALSE),
              !.older = IF s.pleas = <<>> THEN FALSE ELSE @]

\* older becomes the time of the plea that is being answered
dequeue_response_plea(s) ==
    IF s.pleas = <<>> THEN s
    ELSE [s EXCEPT !.older = Head(s.pleas), !.pleas = Tail(@)]

clear_response_pleas(s) == [s EXCEPT !.pleas = <<>>, !.older = FALSE]

(* Sending: one write at a time, everything queued goes into the next one.  *)

\* the mutant that writes although a write may be in flight
sendAlways(s, r) ==
    LET t == [s EXCEPT !.m_txQueue = Append(@, r), !.m_txPending = TRUE]
    IN IF ~isConnected(t) THEN [t EXCEPT !.m_txQueue = <<>>]
       ELSE start([t EXCEPT !.m_sendBuffer = @ \o t.m_txQueue,
                            !.m_txQueue = <<>>], "write")

sendSocketData(s) ==
    IF ~isConnected(s) \/ s.m_txQueue = <<>>
    THEN [s EXCEPT !.m_sendBuffer = <<>>, !.m_txQueue = <<>>,
                   !.m_txPending = FALSE]
    ELSE start([s EXCEPT !.m_sendBuffer = @ \o s.m_txQueue,
                         !.m_txQueue = <<>>], "write")

send(s, r) ==
    LET t == [s EXCEPT !.m_txQueue = Append(@, r)]
    IN IF s.m_txPending THEN t
       ELSE sendSocketData([t EXCEPT !.m_txPending = TRUE])

\* the mutant that leaves the flag set when nothing is left to write
onSendSocketDataCompletedKeepsFlag(s, h) ==
    IF h.ec \/ s.m_txQueue = <<>> THEN s ELSE sendSocketData(s)

\* The code a write on a TLS stream that was shut down fails with makes it
\* post disconnect() even when the client is no longer connected: h.lines
\* tells that code.
onSendSocketDataCompleted(s, h) ==
    IF h.ec
    THEN LET t == [s EXCEPT !.m_sendBuffer = <<>>, !.m_txQueue = <<>>,
                            !.m_txPending = FALSE]
             u == IF h.lines # <<>> THEN postDisconnect(t) ELSE t
         IN IF isConnected(u) THEN postDisconnect(u) ELSE u
    ELSE LET t == [s EXCEPT !.m_sendBuffer = <<>>]
         IN IF t.m_txQueue = <<>> THEN [t EXCEPT !.m_txPending = FALSE]
            ELSE sendSocketData(t)

-----------------------------------------------------------------------------
(* Connecting and disconnecting.                                            *)

\* no more stratum modes, or no autodetection: the owner's m_onDisconnected
\* releases the connection definition
Finished(s) ==
    [clear_response_pleas(s) EXCEPT
        !.m_workloop_timer = FALSE, !.m_solution_submitted_max_id = 0,
        !.m_conn = FALSE, !.down = TRUE]

\* the mutant that lowers the mode of a pool whose mode is settled
disconnect_finalizeDetects(s) ==
    LET t == [(IF secure(s) THEN close(s) ELSE s) EXCEPT
                 !.m_socket = "null", !.m_session = NoSession, !.up = FALSE,
                 !.m_authpending = FALSE, !.m_disconnecting = FALSE,
                 !.m_txPending = FALSE]
    IN IF ~s.m_conn THEN Crash(t, "conn")
       ELSE IF ~s.uri.unrecoverable /\ s.uri.mode \in 1 .. 3
       THEN post([t EXCEPT !.uri.mode = @ - 1], Handler("start_connect"))
       ELSE Finished(t)

disconnect_finalize(s) ==
    LET t == [(IF secure(s) THEN close(s) ELSE s) EXCEPT
                 !.m_socket = "null", !.m_session = NoSession, !.up = FALSE,
                 !.m_authpending = FALSE, !.m_disconnecting = FALSE,
                 !.m_txPending = FALSE]
        u == s.uri
        detecting == ~u.unrecoverable /\ ~u.confirmed /\ u.responds
    IN IF ~s.m_conn THEN Crash(t, "conn")
       ELSE IF detecting /\ u.mode > 0
       THEN post([t EXCEPT !.uri.mode = @ - 1], Handler("start_connect"))
       ELSE Finished([t EXCEPT !.uri.unrecoverable = @ \/ detecting])

disconnect(s) ==
    LET t == [cancel(s) EXCEPT !.m_disconnecting = TRUE, !.m_connected = FALSE]
    IN IF s.m_disconnecting THEN s
       ELSE IF t.m_socket = "open" /\ secure(t)
       THEN enqueue_response_plea(start(t, "shutdown"))
       ELSE disconnect_finalize(close(t))

onSSLShutdownCompleted(s) ==
    post(clear_response_pleas(s), Handler("disconnect_finalize"))

init_socket(s) == IF s.m_socket = "null" THEN [s EXCEPT !.m_socket = "closed"]
                                         ELSE s

\* setConnection(), connect()
connect(s) ==
    LET t == init_socket([s EXCEPT !.m_conn = TRUE, !.uri.responds = FALSE,
                                   !.m_workloop_timer = TRUE,
                                   !.m_authpending = FALSE,
                                   !.m_endpoints = 0])
    IN IF s.target \in Hosts THEN start(t, "resolve")
       ELSE post([t EXCEPT !.m_endpoints = 1], Handler("start_connect"))

resolve_handler(s, h) ==
    IF h.ec THEN disconnect_finalize([s EXCEPT !.m_connecting = FALSE])
    ELSE post([s EXCEPT !.m_endpoints = Endpoints], Handler("start_connect"))

\* async_connect opens the socket
start_connect(s) ==
    IF s.m_connecting THEN s
    ELSE IF ~s.m_conn THEN Crash(s, "conn")
    ELSE IF s.m_endpoints = 0
    THEN disconnect_finalize([s EXCEPT !.m_connecting = FALSE])
    ELSE start([enqueue_response_plea(clear_response_pleas(init_socket(s)))
                   EXCEPT !.m_connecting = TRUE, !.m_socket = "open",
                          !.m_solution_submitted_max_id = 0], "connect")

\* the first request of the mode in use, with the read that takes the answer
login(s) == send(enqueue_response_plea(start(s, "read")), "login")

\* h.lines tells that the TLS handshake fails
connect_handler(s, h) ==
    LET t == [s EXCEPT !.m_connecting = FALSE]
        u == [t EXCEPT !.uri.responds = TRUE, !.m_connected = TRUE,
                       !.up = FALSE, !.m_txQueue = <<>>]
        v == [clear_response_pleas([u EXCEPT !.m_sendBuffer = <<>>]) EXCEPT
                 !.uri.mode = IF Version[s.target] # AutoMode
                              THEN Version[s.target]
                              ELSE IF @ = AutoMode THEN 3 ELSE @,
                 !.uri.confirmed = @ \/ Version[s.target] # AutoMode]
    IN IF s.m_socket = "null" THEN Crash(s, "socket")
       ELSE IF h.ec \/ s.m_socket # "open"
       THEN post([close(t) EXCEPT !.m_endpoints = @ - 1],
                 Handler("start_connect"))
       ELSE IF h.lines # <<>>
       THEN postDisconnect([u EXCEPT !.uri.unrecoverable = TRUE])
       ELSE login(v)

-----------------------------------------------------------------------------
(* What the pool says.                                                      *)

unusable(s) == postDisconnect([s EXCEPT !.uri.unrecoverable = TRUE])

\* It calls the owner's m_onConnected, which arms the hashrate timer.
startSession(s) ==
    [s EXCEPT !.uri.confirmed = TRUE, !.m_session = NewSession,
              !.workLate = FALSE, !.up = s.m_connected,
              !.m_submithrtimer = "armed"]

requestAuthorize(s) ==
    enqueue_response_plea([s EXCEPT !.m_authpending = TRUE])

\* A mode that was given with the pool cannot be changed for another.
rejected(s) == IF s.uri.confirmed THEN unusable(s) ELSE postDisconnect(s)

subscribedSession(s) ==
    [startSession(s) EXCEPT !.m_session.subscribed = TRUE]

ethereumStratum2(s, m) ==
    IF m.v = "ok" /\ m.as = 3
    THEN send(enqueue_response_plea(startSession(s)), "subscribe")
    ELSE rejected(s)

ethereumStratum(s, m) ==
    IF m.v = "ok" /\ m.as = 2
    THEN send(requestAuthorize(send(subscribedSession(s), "other")),
              "authorize")
    ELSE rejected(s)

\* any answer without an error will do in the modes 1 and 0
ethProxy(s, m) ==
    IF m.v # "err"
    THEN send([subscribedSession(s) EXCEPT !.m_session.authorized = TRUE],
              "getWork")
    ELSE rejected(s)

stratum(s, m) ==
    LET t == requestAuthorize(subscribedSession(s))
    IN CASE m.v = "err" -> rejected(s)
         [] m.v = "bad" -> postDisconnect(t)
         [] m.v = "ok" -> send([t EXCEPT !.m_session.extraNonce = m.nonce],
                               "authorize")

\* id 1: the answer to the login of the mode that is tried
loginResponse(s, m) ==
    LET t == dequeue_response_plea(s)
    IN CASE s.uri.mode = 3 -> ethereumStratum2(t, m)
         [] s.uri.mode = 2 -> ethereumStratum(t, m)
         [] s.uri.mode = 1 -> ethProxy(t, m)
         [] s.uri.mode = 0 -> stratum(t, m)

\* id 2: the session id of EthereumStratum/2.0.0
subscribeResponse(s, m) ==
    LET t == dequeue_response_plea(s)
    IN IF m.v # "ok" THEN unusable(t)
       ELSE IF s.m_session = NoSession THEN Crash(t, "session")
       ELSE send(requestAuthorize([t EXCEPT !.m_session.subscribed = TRUE]),
                 "authorize")

\* id 3
authorizeResponse(s, m) ==
    LET t == dequeue_response_plea(s)
        u == [t EXCEPT !.m_authpending = FALSE,
                       !.m_session.authorized = m.v = "ok"]
    IN IF s.uri.mode = 3 /\ m.v # "ok" THEN unusable(t)
       ELSE IF s.m_session = NoSession THEN Crash(t, "session")
       ELSE IF m.v = "ok" THEN u ELSE unusable(u)

\* ids 40 and above: m_onSolutionAccepted or m_onSolutionRejected
submitResponse(s) ==
    IF s.m_solution_submitted_max_id = 0 THEN s ELSE dequeue_response_plea(s)

\* id 999: an error for a login or an authorisation
ethermineResponse(s) ==
    IF ~s.uri.confirmed \/ ~isSubscribed(s) \/ ~isAuthorized(s)
    THEN postDisconnect(s) ELSE s

\* the mutant that dispatches a job without the pool's extranonce
miningNotifyOldNonce(s, m) ==
    IF (IF s.uri.mode # 3 THEN ~isSubscribed(s) \/ s.m_newjobprocessed
                          ELSE s.m_session = NoSession)
    THEN s
    ELSE [s EXCEPT !.m_current.due = m.nonce, !.workLate = FALSE,
                   !.m_newjobprocessed = TRUE]

\* In the modes below 3 the first job of a transmission is the one kept.
miningNotify(s, m) ==
    IF (IF s.uri.mode # 3 THEN ~isSubscribed(s) \/ s.m_newjobprocessed
        ELSE s.m_session = NoSession \/ ~s.m_session.firstMiningSet)
    THEN s
    ELSE [s EXCEPT !.m_current = [startNonce |-> s.m_session.extraNonce,
                                  due |-> m.nonce],
                   !.workLate = FALSE, !.m_newjobprocessed = TRUE]

\* mining.set_extranonce of mode 2, mining.set of mode 3
miningSet(s, m) ==
    LET t == [s EXCEPT !.m_session.firstMiningSet = @ \/ s.uri.mode = 3]
    IN IF s.m_session = NoSession THEN Crash(s, "session")
       ELSE IF m.v # "ok" THEN postDisconnect(t)
       ELSE [t EXCEPT !.m_session.extraNonce = m.nonce]

notification(s, m) ==
    IF ~s.uri.confirmed THEN s
    ELSE CASE m.k = "notify" -> miningNotify(s, m)
           [] m.k = "set" -> miningSet(s, m)
           [] m.k = "bye" -> postDisconnect(s)
           [] m.k = "get_version" -> send(s, "other")

processResponse(s, m) ==
    IF s.crash # "no" THEN s
    ELSE IF m.k = "invalid" THEN postDisconnect(s)
    ELSE IF ~s.m_conn THEN Crash(s, "conn")
    ELSE CASE m.k = "login" -> loginResponse(s, m)
           [] m.k = "subscribe" -> subscribeResponse(s, m)
           [] m.k = "authorize" -> authorizeResponse(s, m)
           [] m.k = "submit" -> submitResponse(s)
           [] m.k = "999" -> ethermineResponse(s)
           [] OTHER -> notification(s, m)

\* the lines of a transmission, one or two (Receive)
processLines(s, lines) ==
    LET t == processResponse(s, lines[1])
    IN IF Len(lines) = 1 THEN t ELSE processResponse(t, lines[2])

\* A job found in the lines is handed to m_onWorkReceived; m_current is it.
\* (The one before is forgotten: a new job replaces all that is kept of it.)
onRecvSocketDataCompleted(s, h) ==
    IF h.ec
    THEN IF ~isConnected(s) THEN s
         ELSE postDisconnect([s EXCEPT
                 !.uri.unrecoverable = @ \/ s.m_authpending])
    ELSE LET t == processLines(
                     [s EXCEPT !.m_newjobprocessed = FALSE,
                               !.m_current = [startNonce |-> 0, due |-> 0]],
                     h.lines)
         IN IF t.crash = "no" /\ isConnected(t) THEN start(t, "read") ELSE t

-----------------------------------------------------------------------------
(* The work loop timer.                                                     *)

Fake == [fn |-> "processResponse", ec |-> FALSE,
         lines |-> <<[k |-> "login", v |-> "err", nonce |-> 0, as |-> 0]>>]

\* the mutant that gives the endpoint up and stays connected
giveUpStays(s) ==
    IF s.m_endpoints = 0 THEN Crash(s, "endpoint")
    ELSE clear_response_pleas([s EXCEPT !.m_endpoints = @ - 1])

\* no response or no work: the endpoint is given up
giveUp(s) ==
    IF s.m_endpoints = 0 THEN Crash(s, "endpoint")
    ELSE postDisconnect(clear_response_pleas([s EXCEPT !.m_endpoints = @ - 1]))

rearm(s) == [s EXCEPT !.m_workloop_timer = s.crash = "no"]

\* The pending states close the socket as long as the timeout has NOT passed
\* and leave without arming the timer again.  idle: nothing was sent to a
\* mode 3 pool for so long that a mining.noop is due.
workloop_timer_elapsed(s, idle) ==
    LET t == IF s.uri.mode = 3 /\ s.m_session # NoSession /\ idle
             THEN send(s, "other") ELSE s
    IN IF ~s.m_conn THEN Crash(s, "conn")
       ELSE IF t.pleas # <<>> /\ isPendingState(t) /\ ~t.older
               /\ t.m_connecting
       THEN IF t.m_socket = "null" THEN Crash(t, "socket") ELSE close(t)
       ELSE IF t.pleas # <<>> /\ isPendingState(t) /\ ~t.older
               /\ secure(t) /\ t.m_socket = "open"
       THEN close(t)
       ELSE IF t.pleas # <<>> /\ isConnected(t) /\ t.older
       THEN IF ~t.uri.confirmed /\ ~t.uri.unrecoverable
            THEN rearm(post(clear_response_pleas(t), Fake))
            ELSE rearm(giveUp(t))
       ELSE IF t.pleas # <<>> /\ isConnected(t) /\ t.m_session # NoSession
               /\ t.workLate
       THEN rearm(giveUp(t))
       ELSE rearm(t)

-----------------------------------------------------------------------------
(* The io thread and the calls of the owner.                                *)

run(s, h, idle) ==
    CASE h.fn = "start_connect" -> start_connect(s)
      [] h.fn = "disconnect" -> disconnect(s)
      [] h.fn = "disconnect_finalize" -> disconnect_finalize(s)
      [] h.fn = "resolve_handler" -> resolve_handler(s, h)
      [] h.fn = "connect_handler" -> connect_handler(s, h)
      [] h.fn = "recv" -> onRecvSocketDataCompleted(s, h)
      [] h.fn = "sent" -> onSendSocketDataCompleted(s, h)
      [] h.fn = "onSSLShutdownCompleted" -> onSSLShutdownCompleted(s)
      [] h.fn = "processResponse" -> processResponse(s, h.lines[1])
      [] h.fn = "timer" -> workloop_timer_elapsed(s, idle)

\* A closed connection has no remote end.
IoStep ==
    /\ c.crash = "no" /\ c.q # <<>>
    /\ \E idle \in BOOLEAN :
          LET h == Head(c.q)
              d == run([c EXCEPT !.q = Tail(@)], h, idle)
          IN /\ idle => h.fn = "timer" /\ c.m_txQueue = <<>>
             /\ c' = d
             /\ pool' = IF h.fn = "connect_handler" \/ d.m_socket # "open"
                        THEN NewPool ELSE pool

\* The owner makes the client and connects it.
Connect ==
    /\ ~c.m_conn /\ ~c.down
    /\ c' = connect(c)
    /\ UNCHANGED pool

\* rotateConnect puts a new client in the place of one that is down.
Reconnect ==
    /\ c.down /\ c.q = <<>> /\ c.crash = "no" /\ ~c.uri.unrecoverable
    /\ c' = connect([NewClient(c.target, c.uri) EXCEPT !.m_submithrtimer =
                        IF c.m_submithrtimer = "kept" THEN "armed" ELSE "off"])
    /\ pool' = NewPool

\* PoolManager leaves the pool.  stop() does so after it saw the client
\* connected, a selection after m_onConnected, the failover timer when its
\* handler runs: the client may have been closed and may be connecting again,
\* or be down, by then.  (rotateConnect may follow stop(), as it follows the
\* others: the model does not keep who called.)
OwnerDisconnects ==
    /\ c.crash = "no" /\ c.uri.responds /\ (c.m_conn \/ c.down)
    /\ c' = disconnect(c)
    /\ UNCHANGED pool

\* PoolManager sends a solution while the client is connected.
submitSolution ==
    /\ c.crash = "no" /\ isConnected(c) /\ isAuthorized(c)
    /\ Len(c.pleas) < MaxPleas
    /\ c' = send(enqueue_response_plea(
                     [c EXCEPT !.m_solution_submitted_max_id = 40]), "submit")
    /\ UNCHANGED pool

\* PoolManager's timer reports the hashrate, in mode 3 with the worker id of
\* the session.  (Bounded: it comes when nothing waits to be sent.)
submitHashrate ==
    /\ c.crash = "no" /\ c.m_submithrtimer = "armed" /\ isConnected(c)
    /\ c.m_txQueue = <<>>
    /\ c' = IF c.uri.mode = 3 /\ c.m_session = NoSession
            THEN Crash(c, "hashrate") ELSE send(c, "other")
    /\ UNCHANGED pool

\* The timer expired just before m_onDisconnected cancels it: its handler runs
\* before rotateConnect, does nothing and arms the timer again.
submithrtimerLate ==
    /\ c.crash = "no" /\ c.down /\ c.m_submithrtimer = "armed"
    /\ c' = [c EXCEPT !.m_submithrtimer = "kept"]
    /\ UNCHANGED pool

-----------------------------------------------------------------------------
(* The network and the pool.                                                *)

\* the reactor has room for another event
Ready == c.crash = "no" /\ Len(c.q) < MaxBacklog

complete(o, h) ==
    [c EXCEPT !.ops[o] = @ - 1, !.q = Append(@, h)]

Resolved ==
    /\ Ready /\ c.ops["resolve"] > 0
    /\ \E ec \in BOOLEAN :
          c' = complete("resolve", [Handler("resolve_handler") EXCEPT !.ec = ec])
    /\ UNCHANGED pool

\* A connection is made, refused, or fails its TLS handshake.
ConnectDone ==
    /\ Ready /\ c.ops["connect"] > 0
    /\ \/ c' = complete("connect", Failed("connect_handler"))
       \/ /\ c.target \in Reachable
          /\ c' = complete("connect", Handler("connect_handler"))
       \/ /\ c.target \in Reachable \cap Secure
          /\ c' = complete("connect", [Handler("connect_handler") EXCEPT
                                          !.lines = <<"handshake">>])
    /\ UNCHANGED pool

\* The pool has the lines, or the write fails.
WriteDone ==
    /\ Ready /\ c.ops["write"] > 0
    /\ \/ /\ c' = complete("write", Handler("sent"))
          /\ pool' = [pool EXCEPT
                        !.asked = @ \cup (Range(c.m_sendBuffer) \ {"other"})]
       \/ /\ c' = complete("write", Failed("sent"))
          /\ UNCHANGED pool
       \/ /\ secure(c)
          /\ c' = complete("write", [Failed("sent") EXCEPT
                                        !.lines = <<"shutdown">>])
          /\ UNCHANGED pool

Msg(p, k, v) == [k |-> k, v |-> v, nonce |-> p.nonce, as |-> c.uri.mode]

answered(p, r) == [p EXCEPT !.asked = @ \ {r}]

\* The extranonces: the answer to the subscription of the modes 2 and 0 tells
\* the first one, the messages that set it the others.
LoginNonce == 1
otherNonce(n) == IF n = 2 THEN 0 ELSE 2

\* What a pool p that follows the protocol may say next, and what it is then:
\* it answers what it was asked, and sends notifications after the login.
Says(p) ==
    LET mode == c.uri.mode
        ans(r, v, k) == {<<Msg(p, k, v), answered(p, r)>> : x \in {r} \cap p.asked}
        in(S) == IF p.login THEN S ELSE {}
    IN {<<Msg(p, "invalid", "ok"), p>>}
       \cup ans("login", "err", "login") \cup ans("login", "err", "999")
       \cup (IF mode # 1 THEN ans("login", "bad", "login") ELSE {})
       \cup {<<[Msg(p, "login", "ok") EXCEPT !.nonce = n],
               [answered(p, "login") EXCEPT !.login = TRUE, !.nonce = n]>> :
               n \in IF "login" \notin p.asked THEN {}
                     ELSE IF mode \in {0, 2} THEN {LoginNonce} ELSE {0}}
       \cup ans("subscribe", "ok", "subscribe")
       \cup ans("subscribe", "bad", "subscribe")
       \cup ans("authorize", "ok", "authorize")
       \cup ans("authorize", "err", "authorize")
       \cup ans("authorize", "err", "999")
       \cup ans("submit", "ok", "submit")
       \cup ans("getWork", "ok", "notify")
       \cup in({<<Msg(p, "notify", "ok"), p>>})
       \cup in({<<Msg(p, "get_version", "ok"), p>> :
                 x \in {c.m_txQueue} \cap {<<>>}})
       \cup (IF mode \in {2, 3}
             THEN in({<<[Msg(p, "set", "ok") EXCEPT !.nonce = otherNonce(@)],
                        [p EXCEPT !.nonce = otherNonce(@)]>>,
                      <<Msg(p, "set", "bad"), p>>})
             ELSE {})
       \cup (IF mode = 3 THEN in({<<Msg(p, "bye", "ok"), p>>}) ELSE {})

\* The client reads one or two lines.
Receive ==
    /\ Ready /\ c.ops["read"] > 0
    /\ \E a \in Says(pool) :
          \/ /\ c' = complete("read", [Handler("recv") EXCEPT
                                          !.lines = <<a[1]>>])
             /\ pool' = a[2]
          \/ \E b \in Says(a[2]) :
                /\ a[1].k \in {"login", "set", "notify"}
                /\ b[1].k \in {"set", "notify", "invalid"}
                /\ c' = complete("read", [Handler("recv") EXCEPT
                                             !.lines = <<a[1], b[1]>>])
                /\ pool' = b[2]

HangUp ==
    /\ Ready /\ c.ops["read"] > 0
    /\ c' = complete("read", Failed("recv"))
    /\ UNCHANGED pool

ShutdownDone ==
    /\ Ready /\ c.ops["shutdown"] > 0
    /\ c' = complete("shutdown", Handler("onSSLShutdownCompleted"))
    /\ UNCHANGED pool

TimerExpires ==
    /\ Ready /\ c.m_workloop_timer
    /\ c' = [c EXCEPT !.m_workloop_timer = FALSE,
                      !.q = Append(@, Handler("timer"))]
    /\ UNCHANGED pool

\* responsetimeout passes since the oldest pleas were made
ResponseOverdue ==
    /\ c.crash = "no" /\ c.pleas # <<>>
    /\ \E k \in 0 .. Len(c.pleas) :
          LET d == [c EXCEPT !.older = TRUE,
                             !.pleas = [i \in DOMAIN @ |-> @[i] \/ i <= k]]
          IN d # c /\ c' = d
    /\ UNCHANGED pool

\* worktimeout passes since the last job
WorkOverdue ==
    /\ c.crash = "no" /\ c.m_session # NoSession /\ ~c.workLate
    /\ c' = [c EXCEPT !.workLate = TRUE]
    /\ UNCHANGED pool

Next ==
    \/ IoStep \/ Connect \/ Reconnect \/ OwnerDisconnects
    \/ submitSolution \/ submitHashrate \/ submithrtimerLate
    \/ Resolved \/ ConnectDone \/ WriteDone \/ Receive \/ HangUp
    \/ ShutdownDone \/ TimerExpires \/ ResponseOverdue \/ WorkOverdue

Spec == Init /\ [][Next]_vars

-----------------------------------------------------------------------------
(* The client that PoolManager is specified with.                           *)

state ==
    CASE ~c.m_conn -> IF c.down THEN "down" ELSE "none"
      [] c.m_conn /\ c.m_disconnecting -> "closing"
      [] c.m_conn /\ ~c.m_disconnecting /\ c.m_connected ->
            IF c.uri.unrecoverable THEN "leaving"
            ELSE IF c.up THEN "session" ELSE "open"
      [] OTHER -> "connecting"

Abstract == INSTANCE PoolClient WITH
    st <- state,
    m_conn <- IF c.m_conn THEN c.target ELSE None,
    uri <- [p \in Pools |-> IF p = c.target THEN c.uri ELSE NewURI]

-----------------------------------------------------------------------------
(* Properties.                                                              *)

Queued(fn) == Cardinality({i \in DOMAIN c.q : c.q[i].fn = fn})
Writes == c.ops["write"] + Queued("sent")

\* The types; a TLS stream is not shut down twice.
TypeOK ==
    /\ c.target \in Pools /\ c.m_conn \in BOOLEAN /\ c.down \in BOOLEAN
    /\ \A f \in {"m_connecting", "m_disconnecting", "m_connected",
                  "m_authpending", "m_txPending", "m_workloop_timer", "older",
                  "workLate", "up", "m_newjobprocessed"} : c[f] \in BOOLEAN
    /\ c.m_socket \in {"null", "closed", "open"}
    /\ c.m_endpoints \in 0 .. Endpoints \cup {1}
    /\ c.m_session \in Session \cup {NoSession}
    /\ c.ops \in [Op -> 0 .. 2] /\ c.ops["shutdown"] <= 1
    /\ c.m_submithrtimer \in {"off", "armed", "kept"}
    /\ c.crash \in {"no", "conn", "socket", "session", "endpoint", "hashrate"}
    /\ pool.asked \subseteq {"login", "subscribe", "authorize", "getWork",
                            "submit"}

\* The handlers of answers use m_session and the timer pops m_endpoints
\* without looking whether there is one: with a pool that answers what it was
\* asked there always is, however late the answer and the timer run.
SessionAndEndpointThere == c.crash \notin {"session", "endpoint"}

\* "Run in sync so no 2 different async reads may overlap": neither two reads
\* nor two writes are in flight or waiting to be handled, even when a
\* connection is given up and the next one made at once.
OneReadOneWrite == c.ops["read"] + Queued("recv") <= 1 /\ Writes <= 1

\* No request is forgotten: as long as the client lives, a line waits in
\* m_txQueue, or m_txPending is set, only while a write will come back to it.
RequestsLeave ==
    c.crash = "no" /\ (c.m_txQueue # <<>> \/ c.m_txPending) => Writes = 1

\* m_connecting, which makes connect() and start_connect() return at once, is
\* set only while a connect_handler will clear it.
ConnectingEnds ==
    c.crash = "no" /\ c.m_connecting
        => c.ops["connect"] + Queued("connect_handler") = 1

\* Neither of the two flags that make a call return at once outlives the
\* operation whose handler clears it: requests and connections go on.
NothingStalls == RequestsLeave /\ ConnectingEnds

\* The job handed to the farm starts at the extranonce the pool had set when
\* it sent the job, however the messages were grouped into transmissions.  The
\* one in the answer to a subscription counts in mode 0 only: mode 2 does not
\* read it (SubscribedNonceUsed).
JobHasItsNonce ==
    c.m_newjobprocessed /\ (c.uri.mode = 0 \/ c.m_current.due # LoginNonce)
        => c.m_current.startNonce = c.m_current.due

\* Whatever the order of its handlers, what PoolManager sees of the client is
\* a behaviour of PoolClient.
ImplementsPoolClient == Abstract!ClientSpec

-----------------------------------------------------------------------------
(* Expectations the code does not meet (README, Deviations).               *)

\* "this event may trigger late after clean disconnection. Check status of
\* connection before triggering all stack of calls": data that is handled when
\* the client is no longer connected has no effect.
LateDataIgnored ==
    [][IoStep /\ Head(c.q).fn = "recv" /\ ~isConnected(c)
         => c' = [c EXCEPT !.q = Tail(@), !.m_newjobprocessed = FALSE]]_c

\* "If pool provides it then set Extranonce now", which mode 0 does, holds for
\* the other mode whose subscription is answered with an extranonce.
SubscribedNonceUsed ==
    c.m_newjobprocessed => c.m_current.startNonce = c.m_current.due

\* The hashrate is reported by a session: the report of mode 3 takes the
\* worker id from m_session, which a timer that outlived the connection it was
\* armed for finds null.
HashrateOfSession == c.crash # "hashrate"

=============================================================================
