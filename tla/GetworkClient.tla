--------------------------- MODULE GetworkClient ---------------------------
(***************************************************************************)
(* EthGetworkClient: the client of a solo node, polled over HTTP.  Every   *)
(* request is one exchange: connect, write, read until the node closes the *)
(* connection.  g is the object with the part of asio that belongs to it:  *)
(* q is the FIFO queue of the handlers that are ready to run on the io     *)
(* thread, op the socket operations in flight.  The client lives until     *)
(* rotateConnect, posted by m_onDisconnected, replaces it.                 *)
(*                                                                         *)
(* A job is the number of the template the node had when it answered; late *)
(* tells that m_worktimeout has passed since m_current_tstamp.             *)
(***************************************************************************)
EXTENDS Naturals, Sequences, FiniteSets

CONSTANTS
    Endpoints,     \* the number of addresses the host resolves to
    Miners,        \* the indices of the miners
    MaxTemplates,  \* bound: templates the node comes up with
    MaxQueue,      \* bound: requests waiting, handlers ready to run
    MaxFound       \* bound: solutions found during the life of the client

VARIABLES
    g,             \* the client
    node           \* the node, and what the rest of the program was told

getworkVars == <<g, node>>

Request == {"getblocktemplate"} \cup Miners    \* a miner: its pprpcsb
Nothing == "nothing"

NewGetwork ==
    [m_conn |-> TRUE, m_connecting |-> FALSE, m_connected |-> FALSE,
     m_session |-> FALSE, m_txPending |-> FALSE, m_txQueue |-> <<>>,
     m_pendingJReq |-> Nothing, m_endpoints |-> 0, m_socket |-> "closed",
     m_current |-> 0, late |-> FALSE, timer |-> FALSE,
     op |-> <<>>, q |-> <<>>, life |-> "new", crash |-> "no"]

\* job: the last job passed to m_onWorkReceived; read: the last template read;
\* mute: an answer to a poll has been read that re-arms no timer; silent: the
\* node neither answers nor closes the connection any more
NewNode == [template |-> 1, job |-> 0, read |-> 0,
            found |-> [m \in Miners |-> 0], answered |-> [m \in Miners |-> 0],
            mute |-> FALSE, silent |-> FALSE]

GetworkInit == g = NewGetwork /\ node = NewNode

Crash(s, what) == [s EXCEPT !.crash = what]
post(s, fn, ec) == [s EXCEPT !.q = Append(@, [fn |-> fn, ec |-> ec])]
start(s, o) == [s EXCEPT !.op = Append(@, o)]

-----------------------------------------------------------------------------

\* m_onDisconnected releases m_conn and posts rotateConnect.
\* The sockets and their operations are left alone.
disconnect(s) ==
    IF ~s.m_session THEN Crash(s, "session")
    ELSE post([s EXCEPT !.m_connected = FALSE, !.m_session = FALSE,
                        !.m_connecting = FALSE, !.m_txPending = FALSE,
                        !.timer = FALSE, !.m_txQueue = <<>>,
                        !.m_conn = FALSE, !.life = "down"],
              "rotateConnect", FALSE)

begin_connect(s) ==
    IF s.m_endpoints > 0 THEN start(s, "connect")
    ELSE IF ~s.m_conn THEN Crash(s, "conn") ELSE disconnect(s)

send(s, r) ==
    LET t == [s EXCEPT !.m_txQueue = Append(@, r)]
    IN IF t.m_txPending THEN t
       ELSE begin_connect([t EXCEPT !.m_txPending = TRUE])

\* A host given by name is resolved first, an address is used as it is.
connect ==
    /\ g.life = "new" /\ ~g.m_connecting
    /\ LET s == [g EXCEPT !.m_connecting = TRUE, !.life = "up"]
       IN \/ g' = start(s, "resolve")
          \/ g' = send([s EXCEPT !.m_endpoints = 1], "getblocktemplate")
    /\ UNCHANGED node

handle_resolve(s, ec) ==
    IF ec THEN disconnect(s)
    ELSE send([s EXCEPT !.m_endpoints = Endpoints], "getblocktemplate")

\* The next address, after the one in front did not work
popEndpoint(s) ==
    IF ~s.m_conn THEN Crash(s, "conn")
    ELSE IF s.m_endpoints = 0 THEN Crash(s, "endpoints")
    ELSE begin_connect([s EXCEPT !.m_endpoints = @ - 1])

\* The first connection makes the session and calls m_onConnected.
handle_connect(s, ec) ==
    IF ec THEN popEndpoint(s)
    ELSE LET t == IF s.m_connecting
                  THEN [s EXCEPT !.m_connected = TRUE, !.m_session = TRUE,
                                 !.m_connecting = FALSE, !.late = FALSE]
                  ELSE s
         IN IF t.m_txQueue = <<>> THEN [t EXCEPT !.m_txPending = FALSE]
            ELSE start([t EXCEPT !.m_pendingJReq = Head(t.m_txQueue),
                                 !.m_txQueue = Tail(@)], "write")

handle_write(s, ec) == IF ec THEN popEndpoint(s) ELSE start(s, "read")

armTimer(s) == [s EXCEPT !.timer = TRUE]

-----------------------------------------------------------------------------
(* The answers.  "job" is a whole template; "error" an error or a template  *)
(* with members missing; "mute" one without an id or a result, or not JSON, *)
(* or an empty page; "status" not HTTP, or an error status without a body.  *)

Answer == {"job", "error", "mute", "status"}

\* the mutant that arms the timer for new templates only
processResponseDisarmed(s, a, t) ==
    IF s.m_pendingJReq # "getblocktemplate" \/ a = "mute" THEN s
    ELSE IF a = "job" /\ s.m_current # t
         THEN armTimer([s EXCEPT !.m_current = t, !.late = FALSE])
         ELSE s

\* t is the template in the answer
processResponse(s, a, t) ==
    IF s.m_pendingJReq # "getblocktemplate" \/ a = "mute" THEN s
    ELSE IF a = "job" /\ s.m_current # t
         THEN armTimer([s EXCEPT !.m_current = t, !.late = FALSE])
         ELSE armTimer(s)

afterRead(s) ==
    IF s.m_txQueue # <<>> THEN begin_connect(s)
    ELSE [s EXCEPT !.m_txPending = FALSE]

handle_read(s, a, t) ==
    LET u == [s EXCEPT !.m_socket = "closed"]
    IN IF a = "status"
       THEN IF u.m_conn THEN disconnect(u) ELSE Crash(u, "conn")
       ELSE afterRead(processResponse(u, a, t))

\* m_onSolutionAccepted or m_onSolutionRejected for _id - 40, m_onWorkReceived
told(s, a) ==
    LET r == s.m_pendingJReq
        oneMore == [node.answered EXCEPT ![r] = @ + 1]
    IN [node EXCEPT
          !.answered = IF r \in Miners /\ a \in {"job", "error"}
                       THEN oneMore ELSE @,
          !.job = IF r = "getblocktemplate" /\ a = "job"
                  THEN processResponse(s, a, node.template).m_current ELSE @,
          !.read = IF r = "getblocktemplate" /\ a = "job"
                   THEN node.template ELSE @,
          !.mute = @ \/ (r = "getblocktemplate" /\ a = "mute")]

getwork_timer_elapsed(s) ==
    IF ~s.late THEN send(s, "getblocktemplate")
    ELSE IF s.m_endpoints = 0 THEN Crash(s, "endpoints")
    ELSE disconnect([s EXCEPT !.m_endpoints = @ - 1])

-----------------------------------------------------------------------------
(* What the program and the network do.                                     *)

running == g.crash = "no" /\ g.life \in {"up", "down"}

\* The next handler runs.  Answers are read from the handler's own record.
handler ==
    /\ running /\ g.q # <<>>
    /\ LET h == Head(g.q)
           s == [g EXCEPT !.q = Tail(@)]
       IN /\ h.fn \notin {"handle_read", "rotateConnect"}
          /\ g' = CASE h.fn = "handle_resolve" -> handle_resolve(s, h.ec)
                    [] h.fn = "handle_connect" -> handle_connect(s, h.ec)
                    [] h.fn = "handle_write" -> handle_write(s, h.ec)
                    [] h.fn = "getwork_timer_elapsed" -> getwork_timer_elapsed(s)
          /\ UNCHANGED node

readHandler ==
    /\ running /\ g.q # <<>> /\ Head(g.q).fn = "handle_read"
    /\ LET s == [g EXCEPT !.q = Tail(@)]
       IN IF Head(g.q).ec
          THEN /\ g' = IF s.m_conn THEN disconnect(s) ELSE Crash(s, "conn")
               /\ UNCHANGED node
          ELSE \E a \in Answer :
                 /\ g' = handle_read(s, a, node.template)
                 /\ node' = told(s, a)

\* p_client = nullptr: the operations in flight are aborted, and their
\* handlers look at nothing but the error
rotateConnect ==
    /\ running /\ g.q # <<>> /\ Head(g.q).fn = "rotateConnect"
    /\ g' = [g EXCEPT !.life = "gone", !.q = <<>>, !.op = <<>>]
    /\ UNCHANGED node

HandlerOf == [resolve |-> "handle_resolve", connect |-> "handle_connect",
              write |-> "handle_write", read |-> "handle_read"]

\* An operation ends.  A connected socket cannot be connected once more.  The
\* client has no timeout for the answer of a node.
complete ==
    /\ running /\ g.op # <<>> /\ Len(g.q) < MaxQueue
    /\ Head(g.op) = "read" => ~node.silent
    /\ \E ec \in BOOLEAN :
         LET o == Head(g.op)
             fails == ec \/ (o = "connect" /\ g.m_socket = "connected")
         IN g' = [post(g, HandlerOf[o], fails) EXCEPT
                     !.op = Tail(@),
                     !.m_socket = IF o = "connect" /\ ~fails THEN "connected"
                                  ELSE @]
    /\ UNCHANGED node

\* the timer expires: its handler is queued, and cancel() comes too late
timerExpires ==
    /\ running /\ g.timer /\ Len(g.q) < MaxQueue
    /\ g' = post([g EXCEPT !.timer = FALSE], "getwork_timer_elapsed", FALSE)
    /\ UNCHANGED node

\* no new work for m_worktimeout seconds
timePasses ==
    /\ running /\ g.m_session /\ ~g.late
    /\ g' = [g EXCEPT !.late = TRUE]
    /\ UNCHANGED node

newTemplate ==
    /\ running /\ node.template < MaxTemplates
    /\ node' = [node EXCEPT !.template = @ + 1]
    /\ UNCHANGED g

fallsSilent ==
    /\ running /\ "read" \in {g.op[i] : i \in DOMAIN g.op} /\ ~node.silent
    /\ node' = [node EXCEPT !.silent = TRUE]
    /\ UNCHANGED g

\* A miner finds a solution and the client is connected: submitSolution
submitSolution(m) ==
    /\ running /\ g.m_connected /\ Len(g.m_txQueue) < MaxQueue
    /\ node.found[m] < MaxFound
    /\ g' = IF g.m_session THEN send(g, m) ELSE g
    /\ node' = [node EXCEPT !.found[m] = @ + 1]

\* PoolManager leaves the node.  It saw the client connected, as stop() does,
\* or had a timer from that time: the client may be down when it is called.
disconnectAsked ==
    /\ running /\ (g.m_connected \/ g.life = "down")
    /\ g' = disconnect(g)
    /\ UNCHANGED node

GetworkNext ==
    \/ connect \/ handler \/ readHandler \/ rotateConnect \/ complete
    \/ timerExpires \/ timePasses \/ newTemplate \/ fallsSilent
    \/ disconnectAsked
    \/ \E m \in Miners : submitSolution(m)

\* The io thread runs its handlers, timers expire, and operations end, unless
\* the node falls silent.
GetworkFairness ==
    WF_getworkVars(handler) /\ WF_getworkVars(readHandler)
    /\ WF_getworkVars(rotateConnect) /\ WF_getworkVars(complete)
    /\ WF_getworkVars(timerExpires)

GetworkSpec == GetworkInit /\ [][GetworkNext]_getworkVars /\ GetworkFairness

-----------------------------------------------------------------------------
(* Properties                                                               *)

GetworkTypeOK ==
    /\ DOMAIN g = DOMAIN NewGetwork
    /\ g.m_txQueue \in Seq(Request) /\ Len(g.m_txQueue) <= MaxQueue + 1
    /\ g.m_endpoints \in 0 .. Endpoints
    /\ g.m_pendingJReq \in Request \cup {Nothing}
    /\ g.op \in Seq(DOMAIN HandlerOf) /\ g.m_socket \in {"closed", "connected"}
    /\ node.job \in 0 .. MaxTemplates
    /\ g.m_txQueue # <<>> => g.m_txPending

Queued(fns) == {i \in DOMAIN g.q : g.q[i].fn \in fns}
InFlight(ops) == {<<"op", i>> : i \in {j \in DOMAIN g.op : g.op[j] \in ops}}
                 \cup {<<"q", i>> : i \in Queued({HandlerOf[o] : o \in ops})}
Sending(r) == g.m_pendingJReq = r /\ InFlight({"write", "read"}) # {}
\* after a failed write every address fails, as the socket was not closed
Failing == g.m_socket = "connected" /\ InFlight({"connect"}) # {}
Waiting(r) == {i \in DOMAIN g.m_txQueue : g.m_txQueue[i] = r}

\* A connected client has one exchange under way at most: m_txPending keeps
\* send(), the timer and handle_read from starting a second one on the socket.
OneExchange == g.m_connected => \A x, y \in InFlight(DOMAIN HandlerOf) : x = y

\* Polling goes on: a connected client that has read no mute answer awaits an
\* answer to a poll, has one to send, or has the timer for the next one.
PollPending ==
    running /\ g.m_connected /\ ~node.mute =>
      \/ g.timer \/ Queued({"getwork_timer_elapsed"}) # {}
      \/ Waiting("getblocktemplate") # {}
      \/ Sending("getblocktemplate") \/ Failing

\* A solution is sent and answered once: what has been answered to a miner, is
\* being sent, and waits in m_txQueue is never more than the miner found.
SolutionsOnce ==
    \A m \in Miners :
      node.answered[m] + (IF Sending(m) THEN 1 ELSE 0)
        + Cardinality(Waiting(m)) <= node.found[m]

\* The farm mines the last template the client has read.
FarmHasLastJob == node.job = node.read

\* Work older than m_worktimeout is replaced by a new template or the node is
\* given up, unless an answer stopped the polling or none comes.
LateWorkEnds ==
    (g.late /\ g.m_connected)
        ~> (~g.late \/ ~g.m_connected \/ node.mute \/ node.silent)

-----------------------------------------------------------------------------
(* Expectations the code does not meet (README, Deviations).               *)

\* "If no new work received from pool after this amount of time the connection
\* is dropped": a node that stops answering is left, too.
WorkTimeoutHeld ==
    (g.late /\ g.m_connected) ~> (~g.late \/ ~g.m_connected \/ node.mute)

\* disconnect() finds the session whose duration it adds up.
DisconnectHasSession == g.crash # "session"

=============================================================================
