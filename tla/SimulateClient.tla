--------------------------- MODULE SimulateClient ---------------------------
(***************************************************************************)
(* SimulateClient: the pool of a benchmark.  The owner (PoolManager, on the*)
(* io thread, or on the main thread when it stops) connects, submits the   *)
(* solutions that are found, disconnects and destroys the client; the      *)
(* thread of the Worker base class hands out the blocks.  The Worker part  *)
(* is the one of Worker.cpp cut down to the calls this class makes of it.  *)
(***************************************************************************)
EXTENDS Naturals

CONSTANTS
    FirstBlock,    \* the block the benchmark starts with
    MaxSolutions   \* bound: solutions found during the life of the client

VARIABLES
    sim,           \* the client: owner is where its owner stands
    thread,        \* where the thread of the client stands
    job            \* the last block passed to m_onWorkReceived, and how often

simVars == <<sim, thread, job>>

NewSimulation ==
    [owner |-> "new", m_session |-> FALSE, m_connected |-> FALSE,
     m_state |-> "None", solution_arrived |-> FALSE, m_block |-> FirstBlock,
     solutions |-> 0, accounted |-> 0, pure |-> FALSE]

SimInit == sim = NewSimulation /\ thread = "none" /\ job = 0

\* connect(): m_onConnected, then startWorking()
connect ==
    /\ sim.owner = "new"
    /\ sim' = [sim EXCEPT !.m_connected = TRUE, !.m_session = TRUE,
                          !.m_state = "Starting", !.owner = "starting"]
    /\ thread' = "begin"
    /\ UNCHANGED job

\* startWorking() returns
connectReturns ==
    /\ sim.owner = "starting" /\ sim.m_state # "Starting"
    /\ sim' = [sim EXCEPT !.owner = "up"]
    /\ UNCHANGED <<thread, job>>

\* A solution is verified on the spot and accounted to its miner.
submitSolution ==
    /\ sim.owner = "up" /\ sim.solutions < MaxSolutions /\ job # 0
    /\ sim' = [sim EXCEPT !.solution_arrived = TRUE, !.solutions = @ + 1,
                          !.accounted = @ + 1]
    /\ UNCHANGED <<thread, job>>

\* m_onDisconnected posts rotateConnect, or tells stop() to go on
disconnect ==
    /\ sim.owner = "up"
    /\ sim' = [sim EXCEPT !.m_session = FALSE, !.m_connected = FALSE,
                          !.owner = "down"]
    /\ UNCHANGED <<thread, job>>

\* p_client = nullptr: the part of SimulateClient is gone when ~Worker runs
destroy ==
    /\ sim.owner = "down"
    /\ sim' = [sim EXCEPT !.m_state = "Killing", !.owner = "dying"]
    /\ UNCHANGED <<thread, job>>

joined ==
    /\ sim.owner = "dying" /\ thread = "exited"
    /\ sim' = [sim EXCEPT !.owner = "gone"]
    /\ UNCHANGED <<thread, job>>

-----------------------------------------------------------------------------
(* The thread.                                                              *)

\* Starting becomes Started; a failed exchange is ignored
threadBegins ==
    /\ thread = "begin"
    /\ sim' = [sim EXCEPT !.m_state = IF @ = "Starting" THEN "Started" ELSE @]
    /\ thread' = "call"
    /\ UNCHANGED job

\* workLoop() is called: it is pure virtual once ~Worker has been entered
callWorkLoop ==
    /\ thread = "call"
    /\ thread' = IF sim.owner = "dying" THEN "aborted" ELSE "first"
    /\ sim' = [sim EXCEPT !.pure = sim.owner = "dying"]
    /\ UNCHANGED job

firstJob ==
    /\ thread = "first"
    /\ job' = sim.m_block
    /\ thread' = "loop"
    /\ UNCHANGED sim

\* while (m_session), and the 200 ms that follow
loop ==
    /\ thread = "loop"
    /\ thread' = IF sim.m_session THEN "slept" ELSE "ended"
    /\ UNCHANGED <<sim, job>>

\* the mutant that never sees a solution
testArrivedNever ==
    /\ thread = "slept"
    /\ thread' = "loop"
    /\ UNCHANGED <<sim, job>>

testArrived ==
    /\ thread = "slept"
    /\ thread' = IF sim.solution_arrived THEN "arrived" ELSE "loop"
    /\ UNCHANGED <<sim, job>>

\* the mutant that leaves the flag set
nextBlockKeepsFlag ==
    /\ thread = "arrived"
    /\ sim' = [sim EXCEPT !.m_block = @ + 1]
    /\ thread' = "submit"
    /\ UNCHANGED job

nextBlock ==
    /\ thread = "arrived"
    /\ sim' = [sim EXCEPT !.solution_arrived = FALSE, !.m_block = @ + 1]
    /\ thread' = "submit"
    /\ UNCHANGED job

nextJob ==
    /\ thread = "submit"
    /\ job' = sim.m_block
    /\ thread' = "loop"
    /\ UNCHANGED sim

\* exchange(Stopped): what it replaced is put back when it was an order
workLoopEnds ==
    /\ thread = "ended"
    /\ sim' = [sim EXCEPT !.m_state = "Stopped"]
    /\ thread' = IF sim.m_state = "Killing" THEN "putBack" ELSE "idle"
    /\ UNCHANGED job

putBack ==
    /\ thread = "putBack"
    /\ sim' = [sim EXCEPT !.m_state = "Killing"]
    /\ thread' = "idle"
    /\ UNCHANGED job

idle ==
    /\ thread = "idle" /\ sim.m_state # "Stopped"
    /\ thread' = IF sim.m_state = "Killing" THEN "exited" ELSE "begin"
    /\ UNCHANGED <<sim, job>>

ownerStep ==
    connect \/ connectReturns \/ submitSolution \/ disconnect \/ destroy \/ joined

threadStep ==
    \/ threadBegins \/ callWorkLoop \/ firstJob \/ loop \/ testArrived
    \/ nextBlock \/ nextJob \/ workLoopEnds \/ putBack \/ idle

SimNext == ownerStep \/ threadStep

\* The thread is scheduled, and the owner finishes what it has begun.
SimFairness ==
    /\ WF_simVars(threadStep)
    /\ WF_simVars(connectReturns \/ destroy \/ joined)

-----------------------------------------------------------------------------
(* Properties                                                               *)

SimTypeOK ==
    /\ DOMAIN sim = DOMAIN NewSimulation
    /\ sim.m_state \in {"None", "Starting", "Started", "Stopped", "Killing"}
    /\ sim.m_block \in FirstBlock .. FirstBlock + MaxSolutions
    /\ job \in {0} \cup (FirstBlock .. sim.m_block)

\* The next block is handed out for a solution only: the blocks handed out are
\* never more than the solutions, one of which may still be waiting, and the
\* flag, set and cleared by two threads, counts none twice.
BlocksWereSolved ==
    sim.m_block - FirstBlock + (IF sim.solution_arrived /\ thread # "arrived"
                                THEN 1 ELSE 0) <= sim.solutions

\* A solution that arrives while the session lasts brings a new job.
SolutionMovesOn ==
    sim.solution_arrived ~> (~sim.solution_arrived \/ ~sim.m_session)

\* A client that was disconnected is destroyed: its thread sees that the session
\* has gone and the join of ~Worker returns, unless the thread had not yet
\* entered workLoop() and makes the pure virtual call.
DisconnectedIsDestroyed == (sim.owner = "down") ~> (sim.owner = "gone" \/ sim.pure)

=============================================================================
