----------------------------- MODULE PoolManager -----------------------------
(***************************************************************************)
(* PoolManager (libpoolprotocols/PoolManager.cpp) with the client it owns, *)
(* the part of Farm it switches on and off, and the main thread of         *)
(* firominer/main.cpp that starts and stops it.                            *)
(*                                                                         *)
(* One thread runs g_io_service.  It takes the posted handlers in order    *)
(* from queue; the completions of the client and the requests of the API   *)
(* arrive between them.  The handler of an expired timer stays in queue    *)
(* when the timer is cancelled afterwards.  The main thread runs start()   *)
(* and stop() beside it.                                                   *)
(***************************************************************************)
EXTENDS PoolClient, Sequences, FiniteSets

CONSTANTS
    Configured,      \* the connections of the command line, in order
    ExitPools,       \* the pools whose Host() is "exit"
    MaxRetries,      \* connectionMaxRetries
    FailoverTimeout, \* whether poolFailoverTimeout is not 0
    ReportHashrate,  \* reportHashrate
    MaxBacklog       \* bound: handlers of one kind waiting in the queue

ASSUME PoolManagerAssumption ==
    /\ Configured \in Seq(Pools) /\ Configured # <<>>
    /\ \A i, j \in 1 .. Len(Configured) : Configured[i] = Configured[j] => i = j
    /\ ExitPools \subseteq Pools
    /\ MaxRetries \in Nat /\ MaxBacklog \in Nat
    /\ FailoverTimeout \in BOOLEAN /\ ReportHashrate \in BOOLEAN

VARIABLES
    m_connections,         \* m_Settings.connections
    m_activeConnectionIdx, \* 0-based, as in the code
    m_connectionAttempt,
    m_running, m_stopping, m_async_pending,
    m_failovertimer, m_submithrtimer,  \* whether a wait is armed
    queue,                 \* the handlers posted to g_io_service
    farm,                  \* what PoolManager decides of the Farm
    main,                  \* where the main thread is
    g_running,
    crashed,               \* a null pointer has been followed
    wanted,                \* history: the pool an API request selected
    reply                  \* history: the answer to the API request of this step

list == <<m_connections, m_activeConnectionIdx, m_connectionAttempt>>
flags == <<m_running, m_stopping, m_async_pending>>
timers == <<m_failovertimer, m_submithrtimer>>
threads == <<main, g_running>>

vars == <<clientVars, list, flags, timers, queue, farm, threads, crashed,
          wanted, reply>>

Handler == {"rotate", "failover", "submithr", "restart"}

MainPC == {"boot", "test", "block", "wait", "stop", "stopFlag", "stopTest",
           "stopDisconnect", "stopWait", "stopFailover", "stopSubmit",
           "stopFarm", "done", "exited"}

\* mining: m_isMining; paused: m_paused; suspended: the miners hold the pause
\* reason PauseDueToFarmPaused
Farm == [mining : BOOLEAN, paused : BOOLEAN, suspended : BOOLEAN]

Init ==
    /\ ClientInit
    /\ m_connections = Configured
    /\ m_activeConnectionIdx = 0
    /\ m_connectionAttempt = 0
    /\ m_running = FALSE /\ m_stopping = FALSE /\ m_async_pending = FALSE
    /\ m_failovertimer = FALSE /\ m_submithrtimer = FALSE
    /\ queue = <<>>
    /\ farm = [mining |-> FALSE, paused |-> FALSE, suspended |-> FALSE]
    /\ main = "boot"
    /\ g_running = TRUE
    /\ crashed = FALSE
    /\ wanted = None
    /\ reply = "none"

Active == m_connections[m_activeConnectionIdx + 1]

\* connections.erase(connections.begin() + i)
erase(i) ==
    [j \in 1 .. Len(m_connections) - 1 |->
        IF j <= i THEN m_connections[j] ELSE m_connections[j + 1]]

Crash ==
    /\ crashed' = TRUE
    /\ UNCHANGED <<clientVars, list, flags, timers, queue, farm, threads, wanted>>

-----------------------------------------------------------------------------
(* Farm, as far as PoolManager drives it.                                  *)

\* new miners start without a reason to pause
FarmStart == IF farm.mining THEN farm
             ELSE [farm EXCEPT !.mining = TRUE, !.suspended = FALSE]

FarmStop == IF farm.mining
            THEN [farm EXCEPT !.mining = FALSE, !.suspended = FALSE]
            ELSE farm

FarmPause == [farm EXCEPT !.paused = TRUE, !.suspended = farm.mining]

FarmResume == [farm EXCEPT !.paused = FALSE, !.suspended = FALSE]

-----------------------------------------------------------------------------
(* The io thread.                                                          *)

ioRuns == main # "exited" /\ ~crashed

onConnectedNoResume ==
    /\ m_failovertimer' = (m_activeConnectionIdx # 0 /\ FailoverTimeout)
    /\ farm' = FarmStart
    /\ m_submithrtimer' = IF ReportHashrate THEN TRUE ELSE m_submithrtimer
    /\ m_async_pending' = FALSE
    /\ UNCHANGED <<m_running, m_stopping, queue>>

\* the handler of a client that has started a session
onConnected ==
    /\ m_failovertimer' = (m_activeConnectionIdx # 0 /\ FailoverTimeout)
    /\ farm' = IF ~farm.mining THEN FarmStart
               ELSE IF farm.paused THEN FarmResume ELSE farm
    /\ m_submithrtimer' = IF ReportHashrate THEN TRUE ELSE m_submithrtimer
    /\ m_async_pending' = FALSE
    /\ UNCHANGED <<m_running, m_stopping, queue>>

\* the mutant of onDisconnected that does not test m_stopping
onDisconnectedNeverStops(q, pending) ==
    /\ m_failovertimer' = FALSE /\ m_submithrtimer' = FALSE
    /\ m_async_pending' = TRUE
    /\ farm' = FarmPause
    /\ queue' = Append(q, "rotate")
    /\ UNCHANGED <<m_running, m_stopping>>

\* The handler of a client that is down.  It finds q in the queue and the
\* value pending in m_async_pending.
onDisconnected(q, pending) ==
    /\ m_failovertimer' = FALSE /\ m_submithrtimer' = FALSE
    /\ IF m_stopping
       THEN /\ farm' = FarmStop
            /\ m_running' = FALSE
            /\ m_async_pending' = pending
            /\ queue' = q
       ELSE /\ m_async_pending' = TRUE
            /\ farm' = FarmPause
            /\ queue' = Append(q, "rotate")
            /\ UNCHANGED m_running
    /\ UNCHANGED m_stopping

\* the mutant of Reacts that does not wait for the end of the TLS shutdown
ReactsEarly(q, pending) ==
    IF st' \in {"down", "closing"} THEN onDisconnected(q, pending)
    ELSE /\ queue' = q
         /\ m_async_pending' = pending
         /\ UNCHANGED <<m_running, m_stopping, timers, farm>>

\* what a step of the client means for its owner
Reacts(q, pending) ==
    IF st' = "down" THEN onDisconnected(q, pending)
    ELSE /\ queue' = q
         /\ m_async_pending' = pending
         /\ UNCHANGED <<m_running, m_stopping, timers, farm>>

clientEvent ==
    /\ \/ connect_handler \/ handshakeFails \/ refused
       \/ noEndpoint \/ connectionLost \/ shutdownCompleted
    /\ Reacts(queue, m_async_pending)
    /\ UNCHANGED <<list, threads, crashed, wanted>>

sessionStarts ==
    /\ startSession
    /\ onConnected
    /\ UNCHANGED <<list, threads, crashed, wanted>>

\* raise(SIGTERM) and signalHandler: only a main thread that waits is notified
RaiseSigterm ==
    /\ g_running' = FALSE
    /\ main' = IF main = "wait" THEN "test" ELSE main

\* the mutant of Rotated that never gives up a connection
RotatedStays ==
    LET i == m_activeConnectionIdx
    IN IF uri[m_connections[i + 1]].unrecoverable
       THEN [conns |-> erase(i), attempt |-> 0,
             idx |-> IF i >= Len(m_connections) - 1 THEN 0 ELSE i]
       ELSE [conns |-> m_connections, idx |-> i, attempt |-> 0]

\* The connection rotateConnect() settles on, with its index and the number of
\* attempts it has had: an unrecoverable connection is discarded, one that has
\* had its attempts gives way to the next.
Rotated ==
    LET n == Len(m_connections)
        i == IF m_activeConnectionIdx >= n THEN 0 ELSE m_activeConnectionIdx
        left == erase(i)
    IN IF uri[m_connections[i + 1]].unrecoverable
       THEN [conns |-> left, idx |-> IF i >= n - 1 THEN 0 ELSE i, attempt |-> 0]
       ELSE IF m_connectionAttempt < MaxRetries
       THEN [conns |-> m_connections, idx |-> i, attempt |-> m_connectionAttempt]
       ELSE [conns |-> m_connections, attempt |-> 0,
             idx |-> IF n = 1 THEN i ELSE IF i + 1 >= n THEN 0 ELSE i + 1]

rotateConnect ==
    /\ queue # <<>> /\ Head(queue) = "rotate"
    /\ queue' = Tail(queue)
    /\ IF isConnected
       THEN UNCHANGED <<clientVars, list, flags, farm, threads, wanted>>
       ELSE /\ m_connections # <<>>           \* or else at(0) throws
            /\ m_connections' = Rotated.conns
            /\ m_activeConnectionIdx' = Rotated.idx
            /\ wanted' = None
            /\ LET go == /\ Rotated.conns # <<>>
                         /\ Rotated.conns[Rotated.idx + 1] \notin ExitPools
               IN \/ /\ go
                     /\ m_connectionAttempt' = Rotated.attempt + 1
                     /\ connect(Rotated.conns[Rotated.idx + 1])
                     /\ UNCHANGED <<flags, farm, threads>>
                  \/ /\ ~go
                     /\ m_connectionAttempt' = Rotated.attempt
                     /\ farm' = FarmStop
                     /\ m_running' = FALSE
                     /\ RaiseSigterm
                     /\ UNCHANGED <<clientVars, m_stopping, m_async_pending>>
    /\ UNCHANGED <<timers, crashed>>

Backlog(h) == Cardinality({k \in 1 .. Len(queue) : queue[k] = h})

failovertimer_fires ==
    /\ m_failovertimer /\ Backlog("failover") < MaxBacklog
    /\ m_failovertimer' = FALSE
    /\ queue' = Append(queue, "failover")
    /\ UNCHANGED <<clientVars, list, flags, m_submithrtimer, farm, threads,
                   crashed, wanted>>

submithrtimer_fires ==
    /\ m_submithrtimer /\ Backlog("submithr") < MaxBacklog
    /\ m_submithrtimer' = FALSE
    /\ queue' = Append(queue, "submithr")
    /\ UNCHANGED <<clientVars, list, flags, m_failovertimer, farm, threads,
                   crashed, wanted>>

failovertimer_elapsed ==
    /\ queue # <<>> /\ Head(queue) = "failover"
    /\ IF m_running /\ m_activeConnectionIdx # 0
       THEN \/ m_conn = None /\ Crash
            \/ /\ m_conn # None
               /\ m_activeConnectionIdx' = 0
               /\ m_connectionAttempt' = 0
               /\ disconnect /\ Reacts(Tail(queue), m_async_pending)
               /\ UNCHANGED <<m_connections, threads, crashed, wanted>>
       ELSE /\ queue' = Tail(queue)
            /\ UNCHANGED <<clientVars, list, flags, timers, farm, threads,
                           crashed, wanted>>

\* the mutant of submithrtimer_elapsed that does not resubmit the actor
submithrtimer_elapsedOnce ==
    /\ queue # <<>> /\ Head(queue) = "submithr"
    /\ queue' = Tail(queue)
    /\ UNCHANGED <<clientVars, list, flags, timers, farm, threads, crashed, wanted>>

submithrtimer_elapsed ==
    /\ queue # <<>> /\ Head(queue) = "submithr"
    /\ queue' = Tail(queue)
    /\ m_submithrtimer' = (m_submithrtimer \/ m_running)
    /\ UNCHANGED <<clientVars, list, flags, m_failovertimer, farm, threads,
                   crashed, wanted>>

\* the handler of Farm::onMinerRestart
onMinerRestart ==
    /\ queue # <<>> /\ Head(queue) = "restart"
    /\ queue' = Tail(queue)
    /\ farm' = [farm EXCEPT !.mining = TRUE, !.suspended = FALSE]
    /\ UNCHANGED <<clientVars, list, flags, timers, threads, crashed, wanted>>

-----------------------------------------------------------------------------
(* The requests of the API, served by the io thread from api.start() until *)
(* api.stop().  A call that throws is answered with an error.              *)

apiRuns == main \in {"boot", "test", "block", "wait"}

NothingButReply ==
    UNCHANGED <<clientVars, list, flags, timers, queue, farm, threads, crashed,
                wanted>>

\* addConnection: a new URI object
addConnection(p) ==
    /\ p \notin {m_connections[i] : i \in 1 .. Len(m_connections)} \cup {m_conn}
    /\ m_connections' = Append(m_connections, p)
    /\ uri' = [uri EXCEPT ![p] = NewURI]
    /\ reply' = "ok"
    /\ UNCHANGED <<st, m_conn, m_activeConnectionIdx, m_connectionAttempt, flags,
                   timers, queue, farm, threads, crashed, wanted>>

removeConnection(i) ==
    IF m_async_pending \/ i >= Len(m_connections) \/ i = m_activeConnectionIdx
    THEN reply' = "error" /\ NothingButReply
    ELSE /\ m_connections' = erase(i)
         /\ m_activeConnectionIdx' = IF m_activeConnectionIdx > i
                                     THEN m_activeConnectionIdx - 1
                                     ELSE m_activeConnectionIdx
         /\ reply' = "ok"
         /\ UNCHANGED <<clientVars, m_connectionAttempt, flags, timers, queue,
                        farm, threads, crashed, wanted>>

\* the mutant of setActiveConnectionCommon that keeps the count of attempts
setActiveConnectionKeepsAttempt(i) ==
    /\ m_conn # None
    /\ m_activeConnectionIdx' = i
    /\ wanted' = m_connections[i + 1]
    /\ disconnect /\ Reacts(queue, TRUE)
    /\ UNCHANGED <<m_connections, m_connectionAttempt, threads, crashed>>

\* setActiveConnectionCommon for another index than the active one, when no
\* operation is outstanding
setActiveConnectionCommon(i) ==
    \/ m_conn = None /\ Crash
    \/ /\ m_conn # None
       /\ m_activeConnectionIdx' = i
       /\ m_connectionAttempt' = 0
       /\ wanted' = m_connections[i + 1]
       /\ disconnect /\ Reacts(queue, TRUE)
       /\ UNCHANGED <<m_connections, threads, crashed>>

\* the mutant of setActiveConnection that takes the length for an index
setActiveConnectionOffByOne(i) ==
    /\ i = Len(m_connections) /\ ~m_async_pending /\ m_conn # None
    /\ reply' = "ok"
    /\ m_activeConnectionIdx' = i
    /\ m_connectionAttempt' = 0
    /\ disconnect /\ Reacts(queue, TRUE)
    /\ UNCHANGED <<m_connections, threads, crashed, wanted>>

setActiveConnection(i) ==
    \/ /\ i >= Len(m_connections) \/ m_async_pending
       /\ reply' = "error" /\ NothingButReply
    \/ /\ i = m_activeConnectionIdx /\ i < Len(m_connections) /\ ~m_async_pending
       /\ reply' = "ok" /\ NothingButReply
    \/ /\ i # m_activeConnectionIdx /\ i < Len(m_connections) /\ ~m_async_pending
       /\ reply' = "ok"
       /\ setActiveConnectionCommon(i)

\* setActiveConnection(std::string&): found is never set
setActiveConnectionByUri(p) ==
    LET others == {i \in 0 .. Len(m_connections) - 1 :
                     m_connections[i + 1] = p /\ i # m_activeConnectionIdx}
    IN /\ reply' = "error"
       /\ \/ /\ ~m_async_pending
             /\ \E i \in others : setActiveConnectionCommon(i)
          \/ /\ m_async_pending \/ others = {}
             /\ NothingButReply

\* miner_restart
restart_async ==
    /\ Backlog("restart") < MaxBacklog
    /\ queue' = Append(queue, "restart")
    /\ reply' = "ok"
    /\ UNCHANGED <<clientVars, list, flags, timers, farm, threads, crashed, wanted>>

-----------------------------------------------------------------------------
(* The main thread: doMiner() and PoolManager::stop().                     *)

start ==
    /\ main = "boot"
    /\ m_running' = TRUE /\ m_async_pending' = TRUE
    /\ queue' = Append(queue, "rotate")
    /\ main' = "test"
    /\ UNCHANGED <<clientVars, list, m_stopping, timers, farm, g_running, crashed,
                   wanted>>

\* while (g_running) g_shouldstop.wait(): signalHandler, which does not hold
\* the mutex, can come between the test and the wait
doMinerWaits ==
    /\ \/ main = "test" /\ main' = IF g_running THEN "block" ELSE "stop"
       \/ main = "block" /\ main' = "wait"
    /\ UNCHANGED <<clientVars, list, flags, timers, queue, farm, g_running,
                   crashed, wanted>>

signal ==
    /\ RaiseSigterm
    /\ UNCHANGED <<clientVars, list, flags, timers, queue, farm, crashed, wanted>>

\* m_async_pending and m_stopping are two stores, and the io thread goes on.
stop ==
    /\ \/ /\ main = "stop" /\ m_running
          /\ m_async_pending' = TRUE /\ main' = "stopFlag"
          /\ UNCHANGED m_stopping
       \/ /\ main = "stop" /\ ~m_running
          /\ main' = "done"
          /\ UNCHANGED <<m_async_pending, m_stopping>>
       \/ /\ main = "stopFlag"
          /\ m_stopping' = TRUE /\ main' = "stopTest"
          /\ UNCHANGED m_async_pending
    /\ UNCHANGED <<clientVars, list, m_running, timers, queue, farm, g_running,
                   crashed, wanted>>

\* the test p_client && p_client->isConnected()
stopTests ==
    /\ main = "stopTest"
    /\ main' = IF isConnected THEN "stopDisconnect" ELSE "stopFailover"
    /\ UNCHANGED <<clientVars, list, flags, timers, queue, farm, g_running,
                   crashed, wanted>>

\* The else branch: the two timers are cancelled and the miners stopped, one
\* after the other, whatever the client has become since the test.
stopWithoutClient ==
    /\ \/ /\ main = "stopFailover" /\ main' = "stopSubmit"
          /\ m_failovertimer' = FALSE
          /\ UNCHANGED <<m_submithrtimer, farm>>
       \/ /\ main = "stopSubmit" /\ main' = "stopFarm"
          /\ m_submithrtimer' = FALSE
          /\ UNCHANGED <<m_failovertimer, farm>>
       \/ /\ main = "stopFarm" /\ main' = "done"
          /\ farm' = FarmStop
          /\ UNCHANGED timers
    /\ UNCHANGED <<clientVars, list, flags, queue, g_running, crashed, wanted>>

\* The call of disconnect(), on whatever the client has become since the test
stopDisconnects ==
    /\ main = "stopDisconnect"
    /\ \/ (m_conn = None \/ st = "connecting") /\ Crash
       \/ /\ m_conn # None
          /\ disconnect /\ Reacts(queue, m_async_pending)
          /\ main' = "stopWait"
          /\ UNCHANGED <<list, g_running, crashed, wanted>>

stopReturns ==
    /\ main = "stopWait" /\ ~m_running
    /\ st' = "none" /\ m_conn' = None           \* p_client = nullptr
    /\ main' = "done"
    /\ UNCHANGED <<uri, list, flags, timers, queue, farm, g_running, crashed,
                   wanted>>

\* ~MinerCLI stops g_io_service and joins its thread.
exits ==
    /\ main = "done"
    /\ main' = "exited"
    /\ UNCHANGED <<clientVars, list, flags, timers, queue, farm, g_running,
                   crashed, wanted>>

-----------------------------------------------------------------------------
ioStep ==
    /\ ioRuns /\ reply' = "none"
    /\ \/ clientEvent \/ sessionStarts \/ rotateConnect
       \/ failovertimer_elapsed \/ submithrtimer_elapsed \/ onMinerRestart

timerStep ==
    /\ ioRuns /\ reply' = "none"
    /\ failovertimer_fires \/ submithrtimer_fires

apiStep ==
    /\ ioRuns /\ apiRuns
    /\ \/ \E p \in Pools : addConnection(p) \/ setActiveConnectionByUri(p)
       \/ \E i \in 0 .. Cardinality(Pools) :
              removeConnection(i) \/ setActiveConnection(i)
       \/ restart_async

mainStep ==
    /\ ioRuns /\ reply' = "none"
    /\ \/ start \/ doMinerWaits \/ stop \/ stopTests \/ stopWithoutClient
       \/ stopDisconnects \/ stopReturns \/ exits

signalStep == ioRuns /\ reply' = "none" /\ signal

Over == ~ioRuns /\ UNCHANGED vars

Next == ioStep \/ timerStep \/ apiStep \/ mainStep \/ signalStep \/ Over

Spec == Init /\ [][Next]_vars


(***************************************************************************)
(* The io thread runs what is posted, and the main thread runs.  The       *)
(* system ends every attempt to connect and every shutdown.  As for the    *)
(* pools: one that has accepted a connection answers the login or hangs    *)
(* up, and one that can be reached and is tried again and again is         *)
(* connected in the end and accepts a login in the end.  Nobody is obliged *)
(* to use the API or to send a signal, and no timer of PoolManager is owed.*)
(***************************************************************************)
posted == rotateConnect \/ failovertimer_elapsed \/ submithrtimer_elapsed
          \/ onMinerRestart

Io(A) == ioRuns /\ reply' = "none" /\ A

Fairness ==
    /\ WF_vars(mainStep)
    /\ WF_vars(Io(posted))
    /\ WF_vars(Io(st \in {"connecting", "leaving"} /\ clientEvent))
    /\ WF_vars(Io(st = "closing" /\ clientEvent /\ st' # "closing"))
    /\ WF_vars(Io(st = "open" /\ (clientEvent \/ sessionStarts)))
    /\ \A p \in Pools :
         SF_vars(Io(m_conn = p /\ st = "connecting" /\ clientEvent /\ st' = "open"))
    /\ SF_vars(Io(st = "open" /\ sessionStarts))

FairSpec == Spec /\ Fairness

-----------------------------------------------------------------------------
(* Properties.                                                             *)

Queued(h) == \E k \in 1 .. Len(queue) : queue[k] = h

\* The types; a client that exists and is not down has a connection.
TypeOK ==
    /\ ClientTypeOK
    /\ m_connections \in Seq(Pools)
    /\ m_activeConnectionIdx \in Nat
    /\ m_connectionAttempt \in Nat
    /\ m_running \in BOOLEAN /\ m_stopping \in BOOLEAN
    /\ m_async_pending \in BOOLEAN
    /\ m_failovertimer \in BOOLEAN /\ m_submithrtimer \in BOOLEAN
    /\ queue \in Seq(Handler)
    /\ farm \in Farm
    /\ main \in MainPC
    /\ g_running \in BOOLEAN /\ crashed \in BOOLEAN
    /\ wanted \in Pools \cup {None}
    /\ reply \in {"none", "ok", "error"}

\* The index of the active connection stays within the list through failover,
\* removals and the discarding of unrecoverable connections, so that
\* connections.at() never throws while one is left.
ActiveInBounds ==
    m_connections # <<>> => m_activeConnectionIdx < Len(m_connections)

\* A connected client works for the connection that getActiveConnection() and
\* the API report as active, whatever has been removed from the list around it.
ClientUsesActive ==
    isConnected => m_connections # <<>> /\ m_conn = Active

\* rotateConnect() replaces p_client only when the client has no operation in
\* flight whose handler would find it freed, and runs once per disconnection.
ClientIdleAtRotate ==
    Queued("rotate") =>
        /\ st \in {"none", "down"}
        /\ Backlog("rotate") = 1
        /\ m_connections # <<>>

\* The client fits the active connection: it works for that one, and another
\* client takes its place only after it has finished.
ClientFitsActive == ClientUsesActive /\ ClientIdleAtRotate

\* While a session is up the miners run and are not suspended, in whatever
\* order disconnections (Farm::pause), restarts and reconnections came, until
\* stop() has raised m_stopping.
SessionMines ==
    st = "session" /\ ~m_stopping => farm.mining /\ ~farm.suspended

\* While a session is up the hash rate is going to be reported, if the manager
\* runs: the timer is armed, or its handler is queued and will arm it again.
HashrateReported ==
    st = "session" /\ ReportHashrate /\ m_running
        => m_submithrtimer \/ Queued("submithr")

\* A session with another pool than the primary one ends when the failover
\* timeout expires: its timer is armed, or its handler is queued.
FailoverPending ==
    st = "session" /\ FailoverTimeout /\ m_activeConnectionIdx # 0
        => m_failovertimer \/ Queued("failover")

\* The two timers a session depends on, which re-arm themselves from their own
\* handlers, are not lost while connections come and go, until stop() has raised
\* m_stopping.
TimersArmed == ~m_stopping => HashrateReported /\ FailoverPending

\* The pool selected by setActiveConnection() is the one rotateConnect()
\* connects to next, unless it has been found unrecoverable.
SelectionHonoured ==
    [][wanted # None /\ wanted' = None /\ st' = "connecting"
         => m_conn' = wanted \/ uri[wanted].unrecoverable]_vars

\* A manager without a connection finds one again by trying its pools in turn,
\* as long as one of them can be reached.
FindsLivePool ==
    (st = "down") ~>
        \/ st = "session" \/ ~g_running \/ crashed
        \/ \A i \in 1 .. Len(m_connections) : m_connections[i] \notin Reachable

\* stop() returns: "Wait for async operations to complete".
StopReturns == (main = "stopWait") ~> (main = "done" \/ crashed)

-----------------------------------------------------------------------------
(* Expectations the code does not meet (README, Deviations).               *)

\* onDisconnected has to "Stop timing actors": a manager without a session has
\* no timer armed and no handler of a timer about to act.
TimersStopped ==
    st = "down" => ~m_failovertimer /\ ~m_submithrtimer /\ ~Queued("failover")

\* A request that is answered with an error has changed nothing.
ErrorChangesNothing == [][reply' = "error" => UNCHANGED m_activeConnectionIdx]_vars

\* stop() leaves no session behind that mines on, or that has lost its timers.
StoppedIsQuiet == main = "done" => ~farm.mining /\ st # "session"

\* A signal ends the wait of the main thread.
SignalEndsWait == (~g_running /\ main = "wait") ~> (main # "wait")

=============================================================================
