----------------------------- MODULE MCNetwork -----------------------------
(***************************************************************************)
(* The parts besides stratum that serve a connection, each in behaviours   *)
(* of its own: the getwork client, the simulated pool and the API server.  *)
(* An API request comes alone in its read, or with another one of a few.   *)
(***************************************************************************)
EXTENDS ApiServer

CONSTANTS Endpoints, Miners, MaxTemplates, MaxQueue, MaxFound,
          FirstBlock, MaxSolutions

ASSUME NetworkAssumption ==
    /\ FirstBlock \in Nat /\ Endpoints \in Nat
    /\ "getblocktemplate" \notin Miners /\ "nothing" \notin Miners

VARIABLES g, node, sim, thread, job, family

netVars == <<api, conn, effect, g, node, sim, thread, job, family>>

Getwork == INSTANCE GetworkClient
Simulate == INSTANCE SimulateClient

Request(m, s, p, f) == [method |-> m, sound |-> s, params |-> p, refused |-> f]

MCMethods == Reads \cup Protected \cup {"miner_shuffle", "unknown"}

MCSingles ==
    {Request(m, TRUE, "good", f) : m \in MCMethods, f \in BOOLEAN}
    \cup {Request(m, TRUE, "bad", FALSE) : m \in Protected \ NoParams}
    \cup {Request("miner_setactiveconnection", TRUE, "uri", f) : f \in BOOLEAN}
    \cup {Request("api_authorize", TRUE, p, FALSE) : p \in {"good", "bad"}}
    \cup {Request("miner_ping", FALSE, "good", FALSE)}

MCPaired == {Request("api_authorize", TRUE, "good", FALSE),
             Request("api_authorize", TRUE, "bad", FALSE),
             Request("miner_restart", TRUE, "good", FALSE)}

MCBatches == {<<r>> : r \in MCSingles} \cup {<<r, s>> : r, s \in MCPaired}

-----------------------------------------------------------------------------
\* the server of a process without an API is read only and never starts
NetInit ==
    /\ family \in {"GETWORK", "SIMULATION", "API"}
    /\ Getwork!GetworkInit /\ Simulate!SimInit /\ Init
    /\ family # "API" => api.m_readonly /\ api.m_password

getworkStep == family = "GETWORK" /\ Getwork!GetworkNext /\ UNCHANGED <<sim, thread, job>>
simulationStep == family = "SIMULATION" /\ Simulate!SimNext /\ UNCHANGED <<g, node>>
apiStep == family = "API" /\ Next /\ UNCHANGED <<g, node, sim, thread, job, family>>

NetNext ==
    \/ (getworkStep \/ simulationStep) /\ UNCHANGED <<api, conn, effect, family>>
    \/ apiStep

NetSpec == NetInit /\ [][NetNext]_netVars
           /\ Getwork!GetworkFairness /\ Simulate!SimFairness /\ Fairness

-----------------------------------------------------------------------------
\* All three are well formed.
NetTypeOK == Getwork!GetworkTypeOK /\ Simulate!SimTypeOK /\ TypeOK

\* The getwork client has one exchange at most on its socket, polls for ever
\* unless a mute answer stops it, and the farm mines the last template it read
\* (m_txPending, m_getwork_timer and m_current of EthGetworkClient).
GetworkPolls == Getwork!OneExchange /\ Getwork!PollPending /\ Getwork!FarmHasLastJob

\* A solution counts once: it is sent to the node and answered to its miner
\* once (EthGetworkClient::submitSolution), and the simulation hands out no
\* more blocks than were solved (SimulateClient::solution_arrived).
SolutionsOnce == Getwork!SolutionsOnce /\ Simulate!BlocksWereSolved

\* The sessions of the API server are the living connections; each goes on
\* reading or is being closed, and its requests are answered once, in order.
SessionsServed == SessionsAreLive /\ Served /\ AnsweredOnce

\* No handler of a connected getwork client follows a null pointer, or pops an
\* endpoint that is not there.
ConnectedNeverCrashes == [][g.m_connected => g'.crash = "no"]_<<g, node>>

\* Nobody gets stuck: the getwork client gets new work or gives the node up and
\* does not crash meanwhile, the simulation turns every solution into a block
\* and its thread ends with the client, and the API server goes on accepting.
NetworkProgress ==
    /\ ConnectedNeverCrashes /\ Getwork!LateWorkEnds
    /\ Simulate!SolutionMovesOn /\ Simulate!DisconnectedIsDestroyed
    /\ AcceptsAll

\* The expectations about the getwork client that are not met.
WorkTimeoutHeld == Getwork!WorkTimeoutHeld
DisconnectHasSession == Getwork!DisconnectHasSession

=============================================================================
