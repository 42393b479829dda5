------------------------------ MODULE CPUMiner ------------------------------
(***************************************************************************)
(* One CPU miner (libethash-cpu/CPUMiner.cpp on top of libethcore/Miner):  *)
(* how a job, a pause and the order to stop get to the mining thread.      *)
(*                                                                         *)
(* Two threads call the miner.  One hands over jobs: the io thread, or the *)
(* thread of SimulateClient.  The other pauses, resumes and stops it: the  *)
(* io thread for the API and for collectData(), the main thread in         *)
(* PoolManager::stop().  Farm's mutex x_minerWork keeps setWork() and      *)
(* stop() apart; pause() does not take it.  A pause by the API that        *)
(* overlaps a stop by the main thread is left out.                         *)
(* They share m_work and the flag m_new_work, which kick_miner() sets, with*)
(* the mining thread.  Of the Worker underneath only the way from Started  *)
(* to Stopped matters here: a miner is started once and then destroyed.    *)
(*                                                                         *)
(* Miner::setWork() and Miner::work() hold x_work; Miner::pause() clears   *)
(* the header of m_work without it.  A copy taken meanwhile may be the old *)
(* job, no job, or a mixture of both (Torn), and so may the header be when *)
(* setWork() writes it at the same time.                                   *)
(***************************************************************************)
EXTENDS Naturals

CONSTANTS
    Jobs,        \* work packages with a header
    Unsupported, \* the jobs whose algo is not "progpow"
    NoWork,      \* a work package whose header is h256()
    Torn,        \* a header copied while it was being cleared
    Reasons      \* MinerPauseEnum

ASSUME CPUMinerAssumption ==
    /\ Unsupported \subseteq Jobs
    /\ NoWork \notin Jobs /\ Torn \notin Jobs \cup {NoWork}

VARIABLES
    m_state,       \* WorkerState of the miner
    m_work,
    m_new_work,
    m_pauseFlags,
    feed,          \* where the thread is that calls setWork()
    job,           \* what it has found paused() to leave of its job
    ctl,           \* where the thread is that pauses, resumes and stops
    race,          \* the writes of the header during which another one ended
    thread,        \* where the mining thread is in workLoop()
    w,             \* its copy of the job
    fresh,         \* history: m_work has been stored and not been read since
    through        \* history: the jobs stored in this pause, counted to two

feeder == <<feed, job>>
vars == <<m_state, m_work, m_new_work, m_pauseFlags, feeder, ctl, race, thread,
          w, fresh, through>>

FeedPC == {"idle", "store", "kick"}

ControlPC == {"idle", "clearing", "kick", "stopKick", "stopWait", "gone"}

ThreadPC == {"test", "claim", "read", "search", "returned"}

Init ==
    /\ m_state = "Started"
    /\ m_work = NoWork
    /\ m_new_work = FALSE
    /\ m_pauseFlags = {}
    /\ feed = "idle" /\ job = NoWork
    /\ ctl = "idle"
    /\ race = {}
    /\ thread = "test"
    /\ w = NoWork
    /\ fresh = FALSE
    /\ through = 0

paused == m_pauseFlags # {}
stopped == ctl \in {"stopKick", "stopWait", "gone"}

-----------------------------------------------------------------------------
(* The thread that hands over jobs.                                        *)

threadVars == <<thread, w>>

\* the mutant of setWork that ignores the pause
setWorkAlways(j) ==
    /\ feed = "idle" /\ ~stopped
    /\ job' = j
    /\ feed' = "store"
    /\ UNCHANGED <<m_state, m_work, m_new_work, m_pauseFlags, ctl, race, fresh,
                   through, threadVars>>

\* Miner::setWork up to the answer of paused(); it holds x_work from here
setWork(j) ==
    /\ feed = "idle" /\ ~stopped
    /\ job' = IF paused THEN NoWork ELSE j
    /\ feed' = "store"
    /\ UNCHANGED <<m_state, m_work, m_new_work, m_pauseFlags, ctl, race, fresh,
                   through, threadVars>>

\* the header after two writes that overlap
Mixed(h, g) == IF h = g THEN {h} ELSE {h, g, Torn}

\* the store, whatever has been paused since the test
setWorkStores ==
    /\ feed = "store"
    /\ m_work' \in IF "store" \in race THEN Mixed(job, NoWork) ELSE {job}
    /\ fresh' = TRUE
    /\ race' = IF ctl = "clearing" THEN {"clear"} ELSE {}
    /\ through' = IF paused /\ m_work' # NoWork
                  THEN IF through = 0 THEN 1 ELSE 2 ELSE through
    /\ feed' = "kick"
    /\ UNCHANGED <<m_state, m_new_work, m_pauseFlags, job, ctl, threadVars>>

\* the mutant of setWorkKicks that only interrupts a search
setWorkKicksSearching ==
    /\ feed = "kick"
    /\ m_new_work' = (m_new_work \/ thread = "search")
    /\ feed' = "idle"
    /\ UNCHANGED <<m_state, m_work, m_pauseFlags, job, ctl, race, fresh, through,
                   threadVars>>

\* kick_miner() at the end of setWork()
setWorkKicks ==
    /\ feed = "kick"
    /\ m_new_work' = TRUE
    /\ feed' = "idle"
    /\ UNCHANGED <<m_state, m_work, m_pauseFlags, job, ctl, race, fresh, through,
                   threadVars>>

-----------------------------------------------------------------------------
(* The controlling thread.                                                 *)

\* Miner::pause up to the write of the header
pause(r) ==
    /\ ctl = "idle"
    /\ m_pauseFlags' = m_pauseFlags \cup {r}
    /\ through' = IF paused THEN through ELSE 0
    /\ ctl' = "clearing"
    /\ UNCHANGED <<m_state, m_work, m_new_work, feeder, race, fresh, threadVars>>

pauseClears ==
    /\ ctl = "clearing"
    /\ m_work' \in IF "clear" \in race THEN Mixed(NoWork, m_work) ELSE {NoWork}
    /\ race' = IF feed = "store" THEN {"store"} ELSE {}
    /\ ctl' = "kick"
    /\ UNCHANGED <<m_state, m_new_work, m_pauseFlags, feeder, fresh, through,
                   threadVars>>

\* kick_miner() at the end of pause()
kick_miner ==
    /\ ctl = "kick"
    /\ m_new_work' = TRUE
    /\ ctl' = "idle"
    /\ UNCHANGED <<m_state, m_work, m_pauseFlags, feeder, race, fresh, through,
                   threadVars>>

resume(r) ==
    /\ ctl = "idle" /\ r \in m_pauseFlags
    /\ m_pauseFlags' = m_pauseFlags \ {r}
    /\ UNCHANGED <<m_state, m_work, m_new_work, feeder, ctl, race, fresh, through,
                   threadVars>>

\* Farm::stop: triggerStopWorking(), kick_miner(), and the destructor, whose
\* stopWorking() waits for Stopped
stop ==
    /\ ctl = "idle" /\ feed = "idle"
    /\ m_state' = IF m_state = "Started" THEN "Stopping" ELSE m_state
    /\ ctl' = "stopKick"
    /\ UNCHANGED <<m_work, m_new_work, m_pauseFlags, feeder, race, fresh, through,
                   threadVars>>

stopKicks ==
    /\ ctl = "stopKick"
    /\ m_new_work' = TRUE
    /\ ctl' = "stopWait"
    /\ UNCHANGED <<m_state, m_work, m_pauseFlags, feeder, race, fresh, through,
                   threadVars>>

stopReturns ==
    /\ ctl = "stopWait" /\ m_state = "Stopped"
    /\ ctl' = "gone"
    /\ m_new_work' = TRUE
    /\ UNCHANGED <<m_state, m_work, m_pauseFlags, feeder, race, fresh, through,
                   threadVars>>

-----------------------------------------------------------------------------
(* The mining thread: workLoop() and search().                             *)

controlVars == <<m_work, m_pauseFlags, feeder, ctl, race, through>>

\* while (!shouldStop()); Worker's thread function follows when it returns
tests ==
    /\ thread = "test"
    /\ IF m_state = "Started" THEN thread' = "claim" /\ UNCHANGED m_state
                              ELSE thread' = "returned" /\ m_state' = "Stopped"
    /\ UNCHANGED <<m_new_work, w, fresh, controlVars>>

\* compare_exchange_strong on m_new_work; without new work it sleeps at most
\* 50 ms and goes round
claims ==
    /\ thread = "claim"
    /\ thread' = IF m_new_work THEN "read" ELSE "test"
    /\ m_new_work' = FALSE
    /\ UNCHANGED <<m_state, w, fresh, controlVars>>

\* what a copy of m_work can be
Copies == IF ctl = "clearing" /\ m_work # NoWork THEN {m_work, NoWork, Torn}
                                                 ELSE {m_work}

readsCached ==
    /\ thread = "read" /\ feed # "store"
    /\ w' = IF w # NoWork THEN w ELSE m_work
    /\ thread' = IF w' = NoWork THEN "test" ELSE "search"
    /\ fresh' = FALSE
    /\ UNCHANGED <<m_state, m_new_work, controlVars>>

\* w = work(), the test of w, and the exception for another algorithm, which
\* ends workLoop() and is caught by Worker's thread function
reads ==
    /\ thread = "read" /\ feed # "store"      \* x_work is free
    /\ w' \in Copies
    /\ \/ w' = NoWork /\ thread' = "test" /\ UNCHANGED m_state
       \/ /\ w' \in Unsupported \/ (w' = Torn /\ Unsupported # {})
          /\ thread' = "returned" /\ m_state' = "Stopped"
       \/ w' \notin Unsupported \cup {NoWork} /\ thread' = "search"
                                           /\ UNCHANGED m_state
    /\ fresh' = FALSE
    /\ UNCHANGED <<m_new_work, controlVars>>

\* the mutant of searchInterrupted that only heeds the order to stop
searchInterruptedByStop ==
    /\ thread = "search" /\ m_new_work /\ m_state # "Started"
    /\ thread' = "test"
    /\ UNCHANGED <<m_state, m_new_work, w, fresh, controlVars>>

\* search() returns because of m_new_work
searchInterrupted ==
    /\ thread = "search" /\ m_new_work
    /\ thread' = "test"
    /\ UNCHANGED <<m_state, m_new_work, w, fresh, controlVars>>

\* search() finds a solution in the block it is working on and returns
searchFinds ==
    /\ thread = "search"
    /\ thread' = "test"
    /\ UNCHANGED <<m_state, m_new_work, w, fresh, controlVars>>

Gone == ctl = "gone" /\ UNCHANGED vars

control ==
    \/ \E j \in Jobs : setWork(j)
    \/ setWorkStores \/ setWorkKicks
    \/ \E r \in Reasons : pause(r) \/ resume(r)
    \/ pauseClears \/ kick_miner \/ stop \/ stopKicks \/ stopReturns

mining == tests \/ claims \/ reads \/ searchInterrupted \/ searchFinds

Next == control \/ mining \/ Gone

Spec == Init /\ [][Next]_vars

(***************************************************************************)
(* The threads run, and work() gets a mutex that is free again and again.  *)
(* A call in progress proceeds; none is ever owed, and neither is a        *)
(* solution.                                                               *)
(***************************************************************************)
Fairness ==
    /\ WF_vars(tests) /\ WF_vars(claims) /\ SF_vars(reads)
    /\ WF_vars(searchInterrupted)
    /\ WF_vars(setWorkStores \/ setWorkKicks)
    /\ WF_vars(pauseClears \/ kick_miner \/ stopKicks \/ stopReturns)

FairSpec == Spec /\ Fairness

-----------------------------------------------------------------------------
(* Properties.                                                             *)

\* The types; the thread searches only with a job that has a header.
TypeOK ==
    /\ m_state \in {"Started", "Stopping", "Stopped"}
    /\ m_work \in Jobs \cup {NoWork, Torn}
    /\ m_new_work \in BOOLEAN
    /\ m_pauseFlags \subseteq Reasons
    /\ feed \in FeedPC /\ job \in Jobs \cup {NoWork}
    /\ ctl \in ControlPC
    /\ race \subseteq {"store", "clear"}
    /\ thread \in ThreadPC
    /\ w \in Jobs \cup {NoWork, Torn}
    /\ fresh \in BOOLEAN
    /\ through \in {0, 1, 2}
    /\ thread = "search" => w # NoWork

\* A job handed over by setWork() is not overlooked: until the thread has read
\* it, the flag is set, or about to be, or already claimed by the thread.
NoLostWork ==
    fresh => m_new_work \/ feed = "kick" \/ thread \in {"read", "returned"}

\* Neither pause() nor setWork() is between its write of the header and its kick.
Settled == ctl \notin {"clearing", "kick"} /\ feed # "kick"

\* A search for anything but the current job is about to be interrupted.
StaleSearchEnds ==
    thread = "search" /\ w # m_work => m_new_work \/ ~Settled

\* Of the jobs that arrive during a pause at most one gets through to the miner:
\* one that setWork() is about to store when the pause begins.  Without it, a
\* search that still runs when pause() has returned is about to be interrupted.
PausedMinerStops ==
    paused =>
        /\ through # 2
        /\ through = 0 /\ Settled /\ thread = "search" => m_new_work

\* A job is searched, unless it is replaced, or the miner is paused or ends.
JobIsSearched ==
    \A j \in Jobs :
        (m_work = j /\ fresh) ~> \/ thread = "search" /\ w = j
                                 \/ m_work # j \/ paused \/ m_state # "Started"

-----------------------------------------------------------------------------
(* Expectations the code does not meet (README, Deviations).               *)

\* "Pause mining": a search that still runs when pause() has returned is about
\* to be interrupted, also when a job arrives while the pause begins.
PauseObeyed == paused /\ Settled /\ thread = "search" => m_new_work

\* kick_miner() makes the miner "stop working on the current block" when the
\* "miner should stop": the destructor's stopWorking() returns.
StopCompletes == (ctl = "stopWait") ~> (ctl = "gone")

=============================================================================
