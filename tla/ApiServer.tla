----------------------------- MODULE ApiServer -----------------------------
(***************************************************************************)
(* ApiServer and ApiConnection: the JSON and HTTP interface of the miner.  *)
(* The main thread starts and stops the server, its own thread makes the   *)
(* first accept, everything else runs on the io thread.  A connection      *)
(* object is bound to its handlers by a bare pointer; the entry in         *)
(* m_sessions is what keeps it alive.                                      *)
(*                                                                         *)
(* A request is a line: the method, whether its envelope (id, jsonrpc,     *)
(* method) is sound and its parameters are, and whether PoolManager or the *)
(* farm agree to it.  An answer is "result", "error", or "empty" when it   *)
(* has neither member.                                                     *)
(***************************************************************************)
EXTENDS Naturals, Sequences

CONSTANTS
    Sessions,     \* the connections made, by session id: 1 .. n
    Batches,      \* the sequences of requests one read may bring
    MaxReads      \* bound: reads that bring data, on all connections

\* A request has the parameters it needs ("good") or not ("bad"); only that to
\* select a pool takes an index or a "uri".
Requests ==
    {r \in [method : STRING, sound : BOOLEAN, params : {"good", "bad", "uri"},
            refused : BOOLEAN] :
       r.params = "uri" => r.method = "miner_setactiveconnection"}

ASSUME ApiAssumption ==
    Sessions \subseteq Nat \ {0} /\ Batches \subseteq Seq(Requests)

VARIABLES
    api,          \* the server, and where the main thread stands
    conn,         \* the connections
    effect        \* what the last step changed in the miner, for whom

vars == <<api, conn, effect>>

Reads == {"miner_getstat1", "miner_getstatdetail", "miner_ping",
          "miner_getconnections", "miner_getscramblerinfo"}
Protected == {"miner_restart", "miner_reboot", "miner_addconnection",
              "miner_setactiveconnection", "miner_removeconnection",
              "miner_setscramblerinfo", "miner_pausegpu", "miner_setverbosity"}
NoParams == {"miner_restart", "miner_reboot", "miner_shuffle"} \cup Reads

NoEffect == [method |-> "none", session |-> 0]

\* ApiServer(): the sign of the port number makes it read only
Init ==
    /\ \E ro, psw \in BOOLEAN :
         api = [m_readonly |-> ro, m_password |-> psw, m_running |-> FALSE,
                acceptor |-> "closed", main |-> "new", m_workThread |-> "none",
                lastSessionId |-> 0, accepting |-> 0, ready |-> 0,
                aborted |-> FALSE, m_sessions |-> <<>>, early |-> FALSE,
                reads |-> 0]
    /\ conn = [i \in Sessions |-> [life |-> "new"]]
    /\ effect = NoEffect

\* proved: the last api_authorize had the password; due: the number of requests
\* taken; got: the answers written to the socket, by number; overlap: a write was started
\* with another one in flight; short: a message of less than 4 characters
NewConnection ==
    [life |-> "live", m_is_authenticated |-> ~api.m_password, proved |-> FALSE,
     reading |-> FALSE, writes |-> <<>>, m_sendBuffer |-> <<>>,
     due |-> 0, got |-> <<>>, overlap |-> FALSE, short |-> FALSE]

-----------------------------------------------------------------------------
(* The requests.                                                            *)

Reply(auth, did, answer) == [auth |-> auth, did |-> did, answer |-> answer]

\* the mutant that leaves the session authorised when a new password is wrong
api_authorizeKeeps(c, r) ==
    IF r.params = "good" THEN Reply(TRUE, FALSE, "empty")
    ELSE Reply(c.m_is_authenticated, FALSE, "error")

\* "good" parameters are the right password
api_authorize(c, r) ==
    IF r.params = "good" THEN Reply(TRUE, FALSE, "empty")
    ELSE Reply(FALSE, FALSE, "error")

\* the members a request needs are there and of their types
getRequestValue(r) == r.method \in NoParams \/ r.params = "good"

checkApiWriteAccess(r) == r.method \in Protected => ~api.m_readonly

\* A command that may change the miner.  setActiveConnection(uri) throws even
\* when it has found and selected the pool.
command(auth, r) ==
    IF ~checkApiWriteAccess(r) THEN Reply(auth, FALSE, "error")
    ELSE IF ~getRequestValue(r)
    THEN Reply(auth, r.params = "uri" /\ ~r.refused, "error")
    ELSE IF r.refused THEN Reply(auth, FALSE, "error")
    ELSE Reply(auth, TRUE, "result")

parseRequestId(r) == r.sound

\* r.refused: what was asked throws, as the statistics do before the first job
processRequest(c, r) ==
    LET auth == c.m_is_authenticated
    IN IF ~parseRequestId(r) THEN Reply(auth, FALSE, "error")
       ELSE IF r.method = "api_authorize" THEN api_authorize(c, r)
       ELSE IF ~auth THEN Reply(auth, FALSE, "error")
       ELSE IF r.method \in Reads
       THEN Reply(auth, FALSE, IF r.refused THEN "error" ELSE "result")
       ELSE IF r.method \in Protected \cup {"miner_shuffle"} THEN command(auth, r)
       ELSE Reply(auth, FALSE, "error")

-----------------------------------------------------------------------------
(* Connections.                                                             *)

\* async_write of the whole m_sendBuffer, which is emptied when it completes;
\* the socket takes what it is given at once
sendSocketData(c, close) ==
    LET buffer == Append(c.m_sendBuffer, c.due)
    IN [c EXCEPT !.m_sendBuffer = buffer, !.got = @ \o buffer,
                 !.overlap = @ \/ c.writes # <<>>,
                 !.writes = Append(@, [size |-> Len(buffer), close |-> close])]

recvSocketData(c) == [c EXCEPT !.reading = TRUE]

\* one line: m_is_authenticated after processRequest
processLine(c, r) ==
    [c EXCEPT !.m_is_authenticated = processRequest(c, r).auth,
              !.proved = IF r.sound /\ r.method = "api_authorize"
                         THEN r.params = "good" ELSE @,
              !.due = @ + 1]

\* the mutant that answers nothing to a line that is no request
answerLineSilent(c, r) ==
    IF r.sound THEN sendSocketData(processLine(c, r), FALSE) ELSE processLine(c, r)

answerLine(c, r) == sendSocketData(processLine(c, r), FALSE)

\* The connection after the first k lines of a batch, each answered in its turn
afterLines(c, batch) ==
    LET after[k \in 0 .. Len(batch)] ==
          IF k = 0 THEN c ELSE answerLine(after[k - 1], batch[k])
    IN after

processLines(c, batch) == afterLines(c, batch)[Len(batch)]

\* the effects of the lines, each with the connection as it found it
Effects(i, c, batch) ==
    LET before(k) == afterLines(c, batch)[k - 1]
        reply(k) == processRequest(before(k), batch[k])
    IN {[method |-> batch[k].method, session |-> i,
         proved |-> before(k).proved, answer |-> reply(k).answer] :
          k \in {j \in DOMAIN batch : reply(j).did}}

\* find_if and erase: the first session with the id leaves the vector
erase(s, id) ==
    IF \E k \in DOMAIN s : s[k] = id
    THEN LET k == CHOOSE j \in DOMAIN s :
                    s[j] = id /\ \A l \in 1 .. j - 1 : s[l] # id
         IN SubSeq(s, 1, k - 1) \o SubSeq(s, k + 1, Len(s))
    ELSE s

\* What is left of a connection c when its object is destroyed: the handlers
\* of the operations still in flight, which its socket aborts
Gone(c) == [life |-> "gone",
            late |-> Len(c.writes) + (IF c.reading THEN 1 ELSE 0)]

\* the session is erased from m_sessions, and with it the object
disconnectConn(i, c) ==
    /\ conn' = [conn EXCEPT ![i] = Gone(c)]
    /\ api' = [api EXCEPT !.m_sessions = erase(@, i)]

live(i) == conn[i].life = "live"

\* onRecvSocketDataCompleted, JSON: the lines are answered and reading goes on
recvLines(i) ==
    /\ live(i) /\ conn[i].reading /\ api.reads < MaxReads
    /\ \E b \in Batches :
         LET c == [conn[i] EXCEPT !.reading = FALSE]
         IN /\ conn' = [conn EXCEPT ![i] = recvSocketData(processLines(c, b))]
            /\ \/ Effects(i, c, b) = {} /\ effect' = NoEffect
               \/ effect' \in Effects(i, c, b)
    /\ api' = [api EXCEPT !.reads = @ + 1]

\* HTTP: one page, found or not, after which the connection is closed
recvHttp(i) ==
    /\ live(i) /\ conn[i].reading /\ api.reads < MaxReads
    /\ LET c == [conn[i] EXCEPT !.reading = FALSE, !.due = @ + 1]
       IN conn' = [conn EXCEPT ![i] = sendSocketData(c, TRUE)]
    /\ api' = [api EXCEPT !.reads = @ + 1]
    /\ effect' = NoEffect

\* a fragment of less than 4 characters: return, without another read
recvShort(i) ==
    /\ live(i) /\ conn[i].reading /\ api.reads < MaxReads
    /\ conn' = [conn EXCEPT ![i] = [@ EXCEPT !.reading = FALSE, !.short = TRUE]]
    /\ api' = [api EXCEPT !.reads = @ + 1]
    /\ effect' = NoEffect

\* end of file or an error
recvFails(i) ==
    /\ live(i) /\ conn[i].reading
    /\ disconnectConn(i, [conn[i] EXCEPT !.reading = FALSE])
    /\ effect' = NoEffect

\* the buffer is consumed first; an error or a page closes the connection
onSendSocketDataCompleted(i) ==
    /\ live(i) /\ conn[i].writes # <<>>
    /\ \/ disconnectConn(i, [conn[i] EXCEPT !.writes = Tail(@)])
       \/ LET w == Head(conn[i].writes)
              b == conn[i].m_sendBuffer
          IN /\ ~w.close
             /\ conn' = [conn EXCEPT
                           ![i].m_sendBuffer = SubSeq(b, w.size + 1, Len(b)),
                           ![i].writes = Tail(@)]
             /\ UNCHANGED api
    /\ effect' = NoEffect

\* A handler bound to an object that is no more calls disconnect() on it: the
\* process dies, or nothing comes of it as there is no such session.
lateHandler(i) ==
    /\ conn[i].life = "gone" /\ conn[i].late > 0
    /\ \/ /\ api' = [api EXCEPT !.main = "dead", !.m_workThread = "dead",
                                !.accepting = 0, !.ready = 0,
                                !.aborted = FALSE, !.m_sessions = <<>>]
          /\ conn' = [j \in Sessions |-> [life |-> "dead"]]
       \/ /\ conn' = [conn EXCEPT ![i].late = @ - 1]
          /\ UNCHANGED api
    /\ effect' = NoEffect

-----------------------------------------------------------------------------
(* The server.                                                              *)

\* a new ApiConnection and async_accept for it, on the model's last id none
begin_accept(a) ==
    IF ~a.m_running \/ a.lastSessionId + 1 \notin Sessions THEN a
    ELSE IF a.acceptor = "closed"
    THEN [a EXCEPT !.aborted = TRUE]
    ELSE [a EXCEPT !.lastSessionId = @ + 1, !.accepting = a.lastSessionId + 1]

\* start() makes the thread, and only then sets m_running
start ==
    /\ api.main = "new"
    /\ api' = [api EXCEPT !.acceptor = "open", !.m_workThread = "begin",
                          !.main = "starting"]
    /\ effect' = NoEffect
    /\ UNCHANGED conn

started ==
    /\ api.main = "starting"
    /\ api' = [api EXCEPT !.m_running = TRUE, !.main = "up"]
    /\ effect' = NoEffect
    /\ UNCHANGED conn

workThread ==
    /\ api.m_workThread = "begin"
    /\ api' = [begin_accept(api) EXCEPT !.m_workThread = "ended",
                                        !.early = ~api.m_running]
    /\ effect' = NoEffect
    /\ UNCHANGED conn

\* a client connects: the handler is ready to run
accepted ==
    /\ api.accepting # 0
    /\ api' = [api EXCEPT !.ready = api.accepting, !.accepting = 0]
    /\ effect' = NoEffect
    /\ UNCHANGED conn

handle_accept ==
    /\ api.ready # 0
    /\ conn' = [conn EXCEPT ![api.ready] = recvSocketData(NewConnection)]
    /\ api' = begin_accept([api EXCEPT !.m_sessions = Append(@, api.ready),
                                       !.ready = 0])
    /\ effect' = NoEffect

\* the accept was cancelled: session.reset(), and another begin_accept()
handle_acceptFails ==
    /\ api.aborted
    /\ api' = begin_accept([api EXCEPT !.aborted = FALSE])
    /\ effect' = NoEffect
    /\ UNCHANGED conn

\* stop(): cancel and close, then join, then the flag and the sessions
stop ==
    /\ api.main = "up" /\ api.m_running
    /\ api' = [api EXCEPT !.acceptor = "closed", !.main = "stopping",
                          !.aborted = @ \/ api.accepting # 0, !.accepting = 0]
    /\ effect' = NoEffect
    /\ UNCHANGED conn

stopped ==
    /\ api.main = "stopping" /\ api.m_workThread = "ended"
    /\ api' = [api EXCEPT !.m_running = FALSE, !.m_sessions = <<>>,
                          !.main = "stopped"]
    /\ conn' = [i \in Sessions |->
                  IF live(i) THEN Gone(conn[i]) ELSE conn[i]]
    /\ effect' = NoEffect

connection(i) ==
    \/ recvLines(i) \/ recvHttp(i) \/ recvShort(i) \/ recvFails(i)
    \/ onSendSocketDataCompleted(i) \/ lateHandler(i)

Next ==
    \/ start \/ started \/ workThread \/ accepted \/ handle_accept
    \/ handle_acceptFails \/ stop \/ stopped
    \/ \E i \in Sessions : connection(i)

\* The threads run and clients come.
Fairness ==
    /\ WF_vars(started) /\ WF_vars(workThread) /\ WF_vars(accepted)
    /\ WF_vars(handle_accept) /\ WF_vars(handle_acceptFails) /\ WF_vars(stopped)

Spec == Init /\ [][Next]_vars /\ Fairness

-----------------------------------------------------------------------------
(* Properties                                                               *)

TypeOK ==
    /\ api.lastSessionId \in {0} \cup Sessions
    /\ api.accepting = 0 \/ api.ready = 0
    /\ \A i \in Sessions :
         live(i) => /\ Len(conn[i].m_sendBuffer) <= conn[i].due
                    /\ conn[i].m_sendBuffer # <<>> => conn[i].writes # <<>>

\* m_sessions holds the living connections, each one once, except those that
\* an accept under way when stop() ran has brought in after it.
SessionsAreLive ==
    /\ \A i \in Sessions :
         live(i) <=> \E k \in DOMAIN api.m_sessions : api.m_sessions[k] = i
    /\ \A j, k \in DOMAIN api.m_sessions :
         api.m_sessions[j] = api.m_sessions[k] => j = k

closing(i) == \E k \in DOMAIN conn[i].writes : conn[i].writes[k].close
InOrder(i) == conn[i].got = [k \in 1 .. conn[i].due |-> k]

\* Every request is answered once and in its order, as long as no write was
\* started while another was in flight: two requests in one read are.
AnsweredOnce ==
    \A i \in Sessions : live(i) => conn[i].overlap \/ InOrder(i)

\* A living connection listens for the next request or is being closed, unless
\* a short fragment has come in.
Served ==
    \A i \in Sessions :
      live(i) => \/ conn[i].reading \/ conn[i].short
                 \/ closing(i)

\* The miner changes for a client that has proved the password last, if there
\* is one, and for no client of a read only server, except by miner_shuffle; it
\* is told so, except when it selects a pool by its URI.
WritesAllowed ==
    effect # NoEffect =>
      /\ effect.answer = "result" \/ effect.method = "miner_setactiveconnection"
      /\ api.m_password => effect.proved
      /\ api.m_readonly => effect.method \notin Protected

\* A server that is up accepts every client that comes, until it is stopped,
\* unless its thread ran before m_running was set.
AcceptsAll ==
    \A i \in Sessions :
      (api.main = "up" /\ api.m_workThread = "ended")
        ~> (conn[i].life # "new" \/ api.main # "up" \/ api.early)

-----------------------------------------------------------------------------
(* Expectations the code does not meet (README, Deviations).               *)

\* "Wait for other data to come in": a connection that got a short fragment
\* waits for the rest of it.
WaitsForMore ==
    \A i \in Sessions : live(i) => conn[i].reading \/ closing(i)

\* "miner_shuffle | Initializes a new random scramble nonce | Yes" (write
\* protected): a read only server changes nothing.
ReadOnlyChangesNothing == effect # NoEffect => ~api.m_readonly

\* A connection object outlives the operations whose handlers point to it.
HandlersFindConnection ==
    \A i \in Sessions : conn[i].life = "gone" => conn[i].late = 0

\* One write at a time uses m_sendBuffer.
WritesInTurn == \A i \in Sessions : live(i) => ~conn[i].overlap

=============================================================================
