--------------------------- MODULE CPUMinerProofs ---------------------------
(* The safety properties of CPUMiner, for any jobs and reasons to pause.    *)
EXTENDS CPUMiner, TLAPS

\* While the miner is paused and no job has got through, it has no job, except
\* in pause() itself; and no setWork() is about to store a second one.
PausedHasNoWork ==
    paused =>
        /\ through = 0 /\ ctl # "clearing" => m_work = NoWork
        /\ through = 0 /\ "clear" \in race => m_work = NoWork
        /\ through # 0 /\ feed = "store" => job = NoWork
        /\ through # 2

\* The writes that overlap: one that is still under way.
RaceInv ==
    /\ "store" \in race => feed = "store"
    /\ "clear" \in race => ctl = "clearing"
    /\ ctl = "clearing" => paused

\* A paused miner stops because it has no job, so that whatever it searches
\* for is stale.
IInv == TypeOK /\ NoLostWork /\ StaleSearchEnds /\ PausedHasNoWork /\ RaceInv

\* A miner that has just been started satisfies the invariant.
LEMMA InitIInv == Init => IInv
<1> SUFFICES ASSUME Init PROVE IInv
  OBVIOUS
<1>1. TypeOK
  BY DEF Init, TypeOK, FeedPC, ControlPC, ThreadPC
<1>2. NoLostWork /\ StaleSearchEnds
  BY DEF Init, NoLostWork, StaleSearchEnds
<1>3. PausedHasNoWork /\ RaceInv
  BY DEF Init, PausedHasNoWork, RaceInv, paused
<1> QED
  BY <1>1, <1>2, <1>3 DEF IInv

\* The types survive every step of the controlling and of the mining thread.
LEMMA TypeStep == TypeOK /\ [Next]_vars => TypeOK'
<1> SUFFICES ASSUME TypeOK, [Next]_vars PROVE TypeOK'
  OBVIOUS
<1> USE CPUMinerAssumption DEF TypeOK, FeedPC, ControlPC, ThreadPC, feeder, paused,
                               threadVars, controlVars
<1>1. ASSUME NEW j \in Jobs, setWork(j) PROVE TypeOK'
  BY <1>1 DEF setWork
<1>2. CASE setWorkStores
  <2>1. fresh' \in BOOLEAN
    BY <1>2, Zenon DEF setWorkStores
  <2>2. m_work' \in Jobs \cup {NoWork, Torn}
    BY <1>2 DEF setWorkStores, Mixed
  <2> QED
    BY <1>2, <2>1, <2>2 DEF setWorkStores
<1>3. CASE setWorkKicks
  <2>1. m_new_work' \in BOOLEAN
    BY <1>3, Zenon DEF setWorkKicks
  <2> QED
    BY <1>3, <2>1 DEF setWorkKicks
<1>4. ASSUME NEW r \in Reasons, pause(r) PROVE TypeOK'
  <2>1. /\ m_pauseFlags' \subseteq Reasons /\ ctl' \in ControlPC
        /\ race' \subseteq {"store", "clear"} /\ through' \in {0, 1, 2}
    BY <1>4 DEF pause
  <2> QED
    BY <1>4, <2>1 DEF pause
<1>5. ASSUME NEW r \in Reasons, resume(r) PROVE TypeOK'
  <2>1. m_pauseFlags' \subseteq Reasons /\ through' \in {0, 1, 2}
    BY <1>5 DEF resume
  <2> QED
    BY <1>5, <2>1 DEF resume
<1>6. CASE pauseClears
  <2>1. m_work' \in Jobs \cup {NoWork, Torn} /\ ctl' \in ControlPC
    BY <1>6 DEF pauseClears, Mixed
  <2> QED
    BY <1>6, <2>1 DEF pauseClears
<1>7. CASE kick_miner
  <2>1. m_new_work' \in BOOLEAN
    BY <1>7, Zenon DEF kick_miner
  <2> QED
    BY <1>7, <2>1 DEF kick_miner
<1>8. CASE stop
  BY <1>8 DEF stop
<1>9. CASE stopKicks \/ stopReturns
  <2>1. m_new_work' \in BOOLEAN
    BY <1>9, Zenon DEF stopKicks, stopReturns
  <2>2. CASE stopKicks
    BY <2>1, <2>2 DEF stopKicks
  <2>3. CASE stopReturns
    BY <2>1, <2>3 DEF stopReturns
  <2> QED
    BY <1>9, <2>2, <2>3
<1>10. CASE tests
  BY <1>10 DEF tests
<1>11. CASE claims
  <2>1. m_new_work' \in BOOLEAN /\ thread' \in ThreadPC /\ thread' # "search"
    BY <1>11 DEF claims
  <2> QED
    BY <1>11, <2>1 DEF claims
<1>12. CASE reads
  <2>1. w' \in Jobs \cup {NoWork, Torn}
    BY <1>12 DEF reads, Copies
  <2>2. /\ m_state' \in {"Started", "Stopping", "Stopped"}
        /\ thread' \in ThreadPC
        /\ thread' = "search" => w' # NoWork
    BY <1>12 DEF reads
  <2> QED
    BY <1>12, <2>1, <2>2 DEF reads
<1>13. CASE searchInterrupted
  <2>1. m_new_work' \in BOOLEAN
    BY <1>13, Zenon DEF searchInterrupted
  <2> QED
    BY <1>13, <2>1 DEF searchInterrupted
<1>14. CASE searchFinds
  BY <1>14 DEF searchFinds
<1>15. CASE UNCHANGED vars
  BY <1>15 DEF vars
<1> QED
  BY <1>1, <1>2, <1>3, <1>4, <1>5, <1>6, <1>7, <1>8, <1>9, <1>10, <1>11, <1>12,
     <1>13, <1>14, <1>15 DEF Next, control, mining, Gone

\* Every step keeps the relations between job, flag, pause and search.
LEMMA IInvStep == IInv /\ [Next]_vars => IInv'
<1> SUFFICES ASSUME IInv, [Next]_vars
             PROVE (NoLostWork /\ StaleSearchEnds /\ PausedHasNoWork /\ RaceInv)'
  BY TypeStep DEF IInv
<1> DEFINE Goal == NoLostWork /\ StaleSearchEnds /\ PausedHasNoWork /\ RaceInv
<1> USE CPUMinerAssumption
        DEF IInv, TypeOK, NoLostWork, StaleSearchEnds, PausedHasNoWork, RaceInv,
            paused, Settled, feeder, threadVars, controlVars
<1>1. ASSUME NEW j \in Jobs, setWork(j) PROVE Goal'
  BY <1>1 DEF setWork
<1>2. CASE setWorkStores
  BY <1>2 DEF setWorkStores, Mixed
<1>3. CASE setWorkKicks \/ kick_miner
  BY <1>3 DEF setWorkKicks, kick_miner
<1>4. ASSUME NEW r \in Reasons, pause(r) PROVE Goal'
  BY <1>4 DEF pause
<1>5. ASSUME NEW r \in Reasons, resume(r) PROVE Goal'
  BY <1>5 DEF resume
<1>6. CASE pauseClears
  BY <1>6 DEF pauseClears, Mixed
<1>7. CASE stop \/ stopKicks \/ stopReturns
  BY <1>7 DEF stop, stopKicks, stopReturns
<1>8. CASE tests \/ claims
  BY <1>8 DEF tests, claims
<1>9. CASE reads
  BY <1>9 DEF reads, Copies
<1>10. CASE searchInterrupted \/ searchFinds
  BY <1>10 DEF searchInterrupted, searchFinds
<1>11. CASE UNCHANGED vars
  BY <1>11 DEF vars
<1> QED
  BY <1>1, <1>2, <1>3, <1>4, <1>5, <1>6, <1>7, <1>8, <1>9, <1>10, <1>11
     DEF Next, control, mining, Gone

\* The inductive invariant holds in every reachable state of the miner.
THEOREM IInvHolds == Spec => []IInv
BY InitIInv, IInvStep, PTL DEF Spec

\* A job that setWork() stored is not overlooked by workLoop().
THEOREM NoLostWorkHolds == Spec => []NoLostWork
<1>1. IInv => NoLostWork
  BY DEF IInv
<1> QED
  BY <1>1, IInvHolds, PTL

\* search() on a job that is not the current one is about to be interrupted.
THEOREM StaleSearchEndsHolds == Spec => []StaleSearchEnds
<1>1. IInv => StaleSearchEnds
  BY DEF IInv
<1> QED
  BY <1>1, IInvHolds, PTL

\* However many jobs arrive during a pause, at most the one whose
\* setWork() had tested paused() before gets through; without it a search that
\* still runs after pause() is about to be interrupted.
THEOREM PausedMinerStopsHolds == Spec => []PausedMinerStops
<1>1. IInv => PausedMinerStops
  BY DEF IInv, TypeOK, StaleSearchEnds, PausedHasNoWork, PausedMinerStops, Settled
<1> QED
  BY <1>1, IInvHolds, PTL

=============================================================================
