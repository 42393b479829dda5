----------------------------- MODULE PoolClient -----------------------------
(***************************************************************************)
(* The stratum PoolClient as PoolManager sees it: the life of p_client from*)
(* setConnection() and connect() to the call of m_onDisconnected, and what *)
(* it leaves behind in the URI object of the pool, which outlives it.      *)
(*                                                                         *)
(*   "none"        there is no client (p_client is null)                   *)
(*   "connecting"  resolving or connecting, isConnected() is false         *)
(*   "open"        the socket is connected, the login is not answered yet  *)
(*   "session"     startSession() has called m_onConnected                 *)
(*   "leaving"     a fatal error was found and disconnect() is posted      *)
(*   "closing"     the TLS shutdown is under way (m_disconnecting)         *)
(*   "down"        m_onDisconnected has been called and m_conn released    *)
(***************************************************************************)
EXTENDS Naturals

CONSTANTS
    Pools,       \* the connections, one URI object each
    None,        \* m_conn = nullptr
    Secure,      \* the pools whose SecLevel() is not NONE
    Version,     \* URI::Version() of each pool: a stratum mode, or AutoMode
    Reachable    \* the pools that accept connections

AutoMode == 999      \* version: detect the mode; mode: not tested yet
TopMode == 3     \* ETHEREUMSTRATUM2, the first mode to be tested

ASSUME PoolClientAssumption ==
    /\ None \notin Pools
    /\ Secure \subseteq Pools
    /\ Reachable \subseteq Pools
    /\ Version \in [Pools -> 0 .. TopMode \cup {AutoMode}]

VARIABLES
    st,          \* the state of the client
    m_conn,      \* the pool it is connected or connecting to
    uri          \* the mutable part of each URI object

clientVars == <<st, m_conn, uri>>

ClientState == {"none", "connecting", "open", "session", "leaving", "closing",
                "down"}

URI == [mode : 0 .. TopMode \cup {AutoMode}, confirmed : BOOLEAN,
        unrecoverable : BOOLEAN, responds : BOOLEAN]

NewURI == [mode |-> AutoMode, confirmed |-> FALSE, unrecoverable |-> FALSE,
           responds |-> FALSE]

ClientInit ==
    /\ st = "none"
    /\ m_conn = None
    /\ uri = [p \in Pools |-> NewURI]

isConnected == st \in {"open", "session", "leaving"}

\* A new client takes the place of the old one: setConnection(p), connect().
connect(p) ==
    /\ st' = "connecting"
    /\ m_conn' = p
    /\ uri' = [uri EXCEPT ![p].responds = FALSE]

\* connect_handler without an error; it sends the login of the current mode
connect_handler ==
    /\ st = "connecting" /\ m_conn \in Reachable
    /\ st' = "open"
    /\ LET u == uri[m_conn]
       IN uri' = [uri EXCEPT ![m_conn] =
                    IF Version[m_conn] # AutoMode
                    THEN [u EXCEPT !.responds = TRUE, !.mode = Version[m_conn],
                                   !.confirmed = TRUE]
                    ELSE [u EXCEPT !.responds = TRUE,
                                   !.mode = IF u.mode = AutoMode THEN TopMode
                                            ELSE u.mode]]
    /\ UNCHANGED m_conn

\* connect_handler when the TLS handshake fails
handshakeFails ==
    /\ st = "connecting" /\ m_conn \in Reachable \cap Secure
    /\ st' = "leaving"
    /\ uri' = [uri EXCEPT ![m_conn].responds = TRUE,
                          ![m_conn].unrecoverable = TRUE]
    /\ UNCHANGED m_conn

\* The answer to a login comes late: it is handled when its connection
\* has been given up and the mode lowered to one that takes any answer.
lateAnswer ==
    st = "connecting" /\ uri[m_conn].mode \in {0, 1} /\ uri[m_conn].responds

\* The login is accepted: the mode is confirmed and the session starts.  The
\* answer may also come when its connection is being closed.
startSession ==
    /\ \/ st = "open" /\ st' = "session"
       \/ /\ (st = "closing" /\ uri[m_conn].responds) \/ lateAnswer
          /\ UNCHANGED st
    /\ uri' = [uri EXCEPT ![m_conn].confirmed = TRUE]
    /\ UNCHANGED m_conn

\* The pool refuses a login whose mode is not in doubt, or the authorisation.
refused ==
    /\ \/ st = "session"
       \/ (st \in {"open", "closing"} \/ lateAnswer) /\ uri[m_conn].confirmed
    /\ st' = IF st \in {"closing", "connecting"} THEN st ELSE "leaving"
    /\ uri' = [uri EXCEPT ![m_conn].unrecoverable = TRUE]
    /\ UNCHANGED m_conn

\* disconnect_finalize: during autodetection it lowers the mode and connects
\* again; otherwise it calls m_onDisconnected, which releases m_conn.
disconnect_finalize ==
    LET u == uri[m_conn]
        detecting == ~u.unrecoverable /\ ~u.confirmed /\ u.responds
    IN \/ /\ detecting /\ u.mode > 0
          /\ st' = "connecting"
          /\ uri' = [uri EXCEPT ![m_conn].mode = @ - 1]
          /\ UNCHANGED m_conn
       \/ /\ detecting /\ u.mode = 0
          /\ st' = "down" /\ m_conn' = None
          /\ uri' = [uri EXCEPT ![m_conn].unrecoverable = TRUE]
       \/ /\ ~detecting
          /\ st' = "down" /\ m_conn' = None
          /\ UNCHANGED uri

\* disconnect() on a client that has a connection definition.  Called while it
\* is connecting it tears the socket down under the pending connect_handler: a
\* socket that is open already goes through the TLS shutdown.
disconnect ==
    \/ /\ isConnected \/ st = "connecting"
       /\ m_conn \in Secure /\ st' = "closing"
       /\ UNCHANGED <<m_conn, uri>>
    \/ isConnected /\ m_conn \notin Secure /\ disconnect_finalize
    \/ st = "closing" /\ UNCHANGED clientVars
    \/ st = "connecting" /\ disconnect_finalize

\* The host does not resolve, or no endpoint is left to try.
noEndpoint == st = "connecting" /\ disconnect_finalize

\* The pool hangs up, stops answering, or has been found useless.
connectionLost == isConnected /\ disconnect

\* onSSLShutdownCompleted, or the timeout that stands for it
shutdownCompleted == st = "closing" /\ disconnect_finalize

ClientNext ==
    \/ \E p \in Pools : connect(p)
    \/ connect_handler \/ handshakeFails \/ startSession \/ refused
    \/ disconnect \/ noEndpoint \/ shutdownCompleted

ClientSpec == ClientInit /\ [][ClientNext]_clientVars

ClientTypeOK ==
    /\ st \in ClientState
    /\ m_conn \in Pools \cup {None}
    /\ uri \in [Pools -> URI]
    /\ st \in {"none", "down"} <=> m_conn = None

=============================================================================
