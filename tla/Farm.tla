-------------------------------- MODULE Farm --------------------------------
(***************************************************************************)
(* Farm and Miner (libethcore/Farm.cpp, Miner.cpp): the miners of a rig,   *)
(* the epoch context and the nonce segments they are given, the pauses,    *)
(* the loading of the DAG in turns, the accounting of solutions and the    *)
(* collection of hash rates, with the callbacks of PoolManager and the API *)
(* methods that drive them.                                                *)
(*                                                                         *)
(* Everything but the mining threads and a shutdown by the main thread     *)
(* runs on the io thread, one handler after the other; with SimulateClient *)
(* setWork() has a thread of its own ("sim").  A mining thread is the      *)
(* common part of the work loops: it takes the job, loads the DAG when the *)
(* epoch has changed, and searches until it is kicked.  It runs between    *)
(* the steps in which setWork() goes through the miners, and it may pause  *)
(* itself.                                                                 *)
(***************************************************************************)
EXTENDS Integers, Sequences, FiniteSetsExt

CONSTANTS N,            \* devices subscribed for mining
          Jobs,         \* the jobs of the pool, in the order it sends them
          None,
          Bits,         \* width of a nonce (64 in the code)
          Digit,        \* bits of a digit of the extranonce (4)
          DefaultWidth, \* m_nonce_segment_with at start (32)
          Widths,       \* what the API may set it to
          Scramblers,   \* what shuffle() may draw
          Sensors,      \* miners with a temperature reading
          Scopes,       \* bound: sets of events one behaviour is about
          MaxFound,     \* bound: solutions found
          MaxStarts     \* bound: times the farm is started

ASSUME FarmAssumption ==
    /\ N \in Nat \ {0} /\ MaxStarts \in Nat \ {0} /\ MaxFound \in Nat
    /\ Jobs \in Seq([epoch : Nat, ex : Nat, start : Nat])
    /\ None \notin Nat
    /\ Scramblers \subseteq Nat /\ Scramblers # {}

\* pow(2, n) and the shift of a segment
pow2[n \in 0 .. Bits] == IF n = 0 THEN 1 ELSE 2 * pow2[n - 1]

\* The bits of a nonce that the pool of job j leaves to the rig.
Residual(j) == Bits - Digit * Jobs[j].ex

\* A width of 10 to 50 of 64 bits, which is what the API accepts, leaves room
\* for every device, and so does the segment that a pool gives to the rig with
\* an extranonce of Digit * ex bits.
ASSUME SegmentAssumption ==
    /\ Bits \in Nat /\ Digit \in Nat
    /\ Widths \cup {DefaultWidth} \subseteq 0 .. Bits
    /\ \A w \in Widths \cup {DefaultWidth} : N * pow2[w] <= pow2[Bits]
    /\ \A j \in DOMAIN Jobs : Jobs[j].ex > 0 =>
          /\ Residual(j) \in 0 .. Bits
          /\ N <= pow2[Residual(j)]
          /\ Jobs[j].start + pow2[Residual(j)] <= pow2[Bits]

VARIABLES farm,    \* the Farm object
          miner,   \* m_miners, by index
          feed,    \* the call of setWork() in progress
          dagTurn, \* Miner::s_dagLoadIndex
          tele,    \* m_telemetry: solutions and hash rates
          net,     \* connection, solutions posted and submitted
          crash    \* what a thread has died of

vars == <<farm, miner, feed, dagTurn, tele, net, crash>>

Miners == 0 .. N - 1
Kind == {"accepted", "rejected", "failed"}
Reason == {"heat", "api", "farm", "memory", "epoch"}
Epoch(j) == Jobs[j].epoch

NewMiner == [pc |-> "top", stop |-> FALSE, flags |-> {}, kick |-> FALSE,
             work |-> None, ctx |-> None, cur |-> 0, old |-> None,
             size |-> None, dag |-> None, hr |-> 0, upd |-> FALSE,
             quiet |-> 0]

\* at: the miner that setWork() has got to; pc: what it does next
NoFeed == [pc |-> "idle", at |-> 0, job |-> None]

NewAccount == [k \in Kind |-> 0]

Init ==
    /\ \E events \in Scopes :
       farm = [mining |-> FALSE, paused |-> FALSE, ec |-> None, wp |-> 0,
               scrambler |-> CHOOSE s \in Scramblers : TRUE,
               width |-> DefaultWidth, stopping |-> "no", collect |-> N,
               starts |-> 0, events |-> events]
    /\ miner = [i \in Miners |-> NewMiner]
    /\ feed = NoFeed
    /\ dagTurn = 0
    /\ tele = [farm |-> NewAccount, miners |-> <<>>, rate |-> <<>>]
    /\ net = [connected |-> FALSE, found |-> 0, q |-> <<>>, sent |-> <<>>]
    /\ crash = "no"

\* m_Settings.dagLoadMode
Sequential == "sequential" \in farm.events

\* m_miners.size(): the miners exist while the farm is mining
size == IF farm.mining THEN N ELSE 0

-----------------------------------------------------------------------------
(* A miner.                                                                 *)

paused(m) == m.flags # {}

pause(m, why) ==
    [m EXCEPT !.flags = @ \cup {why}, !.work = None, !.kick = TRUE]

resume(m, why) == [m EXCEPT !.flags = @ \ {why}]

\* Miner::setWork after the test of paused()
setWork(m, w) == [m EXCEPT !.work = w, !.kick = TRUE]

TriggerHashRateUpdate(m) ==
    IF m.upd THEN [m EXCEPT !.hr = 0] ELSE [m EXCEPT !.upd = TRUE]

\* quiet counts the collections since the last answer (up to 3)
unanswered(m) == [m EXCEPT !.quiet = IF @ = 3 THEN 3 ELSE @ + 1]

updateHashRate(m) ==
    IF m.upd THEN [m EXCEPT !.upd = FALSE, !.hr = 1, !.quiet = 0] ELSE m

-----------------------------------------------------------------------------
(* Nonce segments.                                                          *)

\* the mutant that does not divide the segment among the miners
segmentWidthWhole(ex, n) == Bits - Digit * ex

\* (unsigned)log2(2^(Bits - Digit * ex) / n); the cast of the infinity that
\* a farm without miners gives is 0 on x86-64
segmentWidth(ex, n) ==
    IF n = 0 THEN 0
    ELSE Max({w \in 0 .. Bits : n * pow2[w] <= pow2[Bits - Digit * ex]})

-----------------------------------------------------------------------------
(* Farm: operators from the state of the farm before to the one after.      *)

\* the index of a miner counts from 0, the telemetry of a new miner is
\* appended to what is there
start ==
    /\ farm' = [farm EXCEPT !.mining = TRUE, !.starts = @ + 1,
                            !.stopping = "no"]
    /\ miner' = [i \in Miners |-> NewMiner]
    /\ dagTurn' = 0
    /\ tele' = [tele EXCEPT !.miners = @ \o [i \in 1 .. N |-> NewAccount],
                            !.rate = @ \o [i \in 1 .. N |-> 0]]

\* the mutant that drops the telemetry with the miners
stopClears(who) ==
    /\ farm' = [farm EXCEPT !.stopping = who]
    /\ miner' = [i \in Miners |-> [miner[i] EXCEPT !.stop = TRUE,
                                                   !.kick = TRUE]]
    /\ tele' = [tele EXCEPT !.farm = NewAccount, !.miners = <<>>]
    /\ UNCHANGED dagTurn

\* triggerStopWorking() and kick_miner() for all; clearing m_miners then
\* waits for the threads
stop(who) ==
    /\ farm' = [farm EXCEPT !.stopping = who]
    /\ miner' = [i \in Miners |-> [miner[i] EXCEPT !.stop = TRUE,
                                                   !.kick = TRUE]]
    /\ UNCHANGED <<dagTurn, tele>>

accountSolution(i, k) ==
    IF i + 1 \in DOMAIN tele.miners
    THEN /\ tele' = [tele EXCEPT !.farm[k] = @ + 1, !.miners[i + 1][k] = @ + 1]
         /\ UNCHANGED crash
    ELSE /\ tele' = [tele EXCEPT !.farm[k] = @ + 1]
         /\ crash' = "index"

\* the bound on the times the farm is started
MayStart == farm.starts < (IF "restart" \in farm.events THEN MaxStarts ELSE 1)

\* the io thread is not inside stop() or setWork(); nobody holds x_minerWork
Io == /\ crash = "no" /\ farm.stopping \in {"no", "main"}
      /\ feed.pc = "idle" \/ "sim" \in farm.events
Unlocked == crash = "no" /\ farm.stopping = "no" /\ feed.pc = "idle"

-----------------------------------------------------------------------------
(* The callbacks of PoolManager.                                            *)

onConnected ==
    /\ Unlocked /\ ~net.connected /\ net.sent = <<>>
    /\ net' = [net EXCEPT !.connected = TRUE]
    /\ IF ~farm.mining
       THEN MayStart /\ start
       ELSE /\ farm' = [farm EXCEPT !.paused = FALSE]
            /\ miner' = [i \in Miners |->
                            IF farm.paused THEN resume(miner[i], "farm")
                            ELSE miner[i]]
            /\ UNCHANGED <<dagTurn, tele>>
    /\ UNCHANGED <<feed, crash>>

\* the answers that are still to come are lost with the connection
onDisconnected ==
    /\ Unlocked /\ net.connected
    /\ net' = [net EXCEPT !.connected = FALSE, !.sent = <<>>]
    /\ farm' = [farm EXCEPT !.paused = TRUE]
    /\ miner' = [i \in Miners |-> IF farm.mining THEN pause(miner[i], "farm")
                                  ELSE miner[i]]
    /\ UNCHANGED <<feed, dagTurn, tele, crash>>

\* the connection goes down while PoolManager is stopping, or no pool is left
onDisconnectedLast ==
    /\ Unlocked /\ farm.mining
    /\ net' = [net EXCEPT !.connected = FALSE, !.sent = <<>>]
    /\ stop("io")
    /\ UNCHANGED <<feed, crash>>

\* Farm::setWork of job k up to the loops over the miners.  The epoch context
\* goes to the miners only when the epoch is another one.
setWorkFarm(k) ==
    LET new == farm.ec # Epoch(k)
        ex == Jobs[k].ex
    IN \E s \in (IF ex = 0 THEN Scramblers ELSE {farm.scrambler}) :
         LET w == IF ex > 0 THEN segmentWidth(ex, size) ELSE farm.width
             from == IF ex > 0 THEN Jobs[k].start ELSE s
         IN /\ farm' = [farm EXCEPT !.ec = Epoch(k), !.wp = k,
                                    !.scrambler = s, !.width = w]
            /\ feed' = IF ~farm.mining THEN NoFeed
                       ELSE [pc |-> IF new THEN "epoch" ELSE "test", at |-> 0,
                             job |-> [job |-> k, width |-> w, start |-> from]]

\* bound: where data is collected the pool stays with its first job
Sent == IF "collect" \in farm.events THEN {1} ELSE DOMAIN Jobs

\* the thread of the simulation may be late by a disconnection
onWorkReceived ==
    /\ Unlocked /\ (net.connected \/ "sim" \in farm.events)
    /\ \E k \in {farm.wp, farm.wp + 1} \cap Sent : setWorkFarm(k)
    /\ UNCHANGED <<miner, dagTurn, tele, net, crash>>

\* the mutant that gives the context only to the miners that take the job
setEpochSkips ==
    /\ crash = "no" /\ feed.pc = "epoch"
    /\ miner' = [miner EXCEPT ![feed.at].ctx =
                    IF paused(miner[feed.at]) THEN @ ELSE farm.ec]
    /\ feed' = IF feed.at + 1 < N THEN [feed EXCEPT !.at = @ + 1]
               ELSE [feed EXCEPT !.pc = "test", !.at = 0]
    /\ UNCHANGED <<farm, dagTurn, tele, net, crash>>

\* the loop of setEpoch()
setEpoch ==
    /\ crash = "no" /\ feed.pc = "epoch"
    /\ miner' = [miner EXCEPT ![feed.at].ctx = farm.ec]
    /\ feed' = IF feed.at + 1 < N THEN [feed EXCEPT !.at = @ + 1]
               ELSE [feed EXCEPT !.pc = "test", !.at = 0]
    /\ UNCHANGED <<farm, dagTurn, tele, net, crash>>

\* the mutant that hands a job to a paused miner
setWorkTestsNothing ==
    /\ crash = "no" /\ feed.pc = "test"
    /\ feed' = [feed EXCEPT !.pc = "store"]
    /\ UNCHANGED <<farm, miner, dagTurn, tele, net, crash>>

\* the loop of setWork(): the test of paused(), after which x_work is held
setWorkTests ==
    /\ crash = "no" /\ feed.pc = "test"
    /\ feed' = [feed EXCEPT !.pc = IF paused(miner[feed.at]) THEN "void"
                                   ELSE "store"]
    /\ UNCHANGED <<farm, miner, dagTurn, tele, net, crash>>

\* the store, whatever has been paused since
setWorkStores ==
    /\ crash = "no" /\ feed.pc \in {"void", "store"}
    /\ LET i == feed.at
           at(j) == [j EXCEPT !.start = (@ + i * pow2[j.width]) % pow2[Bits]]
       IN /\ miner' = [miner EXCEPT ![i] =
                         setWork(@, IF feed.pc = "void" THEN None
                                    ELSE at(feed.job))]
          /\ feed' = IF i + 1 < N THEN [feed EXCEPT !.pc = "test", !.at = i + 1]
                     ELSE NoFeed
    /\ UNCHANGED <<farm, dagTurn, tele, net, crash>>

\* PoolManager::stop() of a manager without a connection, on the main thread
stopByMain ==
    /\ Unlocked /\ farm.mining /\ ~net.connected /\ "main" \in farm.events
    /\ stop("main")
    /\ UNCHANGED <<feed, net, crash>>

\* the threads have ended: the miners are destroyed, and a restart goes on
stopped ==
    /\ crash = "no" /\ farm.stopping # "no"
    /\ \A i \in Miners : miner[i].pc = "done"
    /\ IF farm.stopping = "restart" THEN start
       ELSE /\ farm' = [farm EXCEPT !.mining = FALSE, !.stopping = "no"]
            /\ miner' = [i \in Miners |-> NewMiner]
            /\ UNCHANGED <<dagTurn, tele>>
    /\ UNCHANGED <<feed, net, crash>>

-----------------------------------------------------------------------------
(* The API.                                                                 *)

\* miner_restart: onMinerRestart of PoolManager
restart ==
    /\ Unlocked /\ MayStart /\ "restart" \in farm.events
    /\ IF farm.mining THEN stop("restart") ELSE start
    /\ UNCHANGED <<feed, net, crash>>

\* miner_pausegpu
pausegpu ==
    /\ Io /\ farm.mining /\ "api" \in farm.events
    /\ \E i \in Miners, on \in BOOLEAN :
         miner' = [miner EXCEPT ![i] = IF on THEN pause(@, "api")
                                       ELSE resume(@, "api")]
    /\ UNCHANGED <<feed, farm, dagTurn, tele, net, crash>>

\* miner_setscramblerinfo: the width is kept for a pool with an extranonce
set_nonce_segment_width ==
    /\ Io /\ "width" \in farm.events
    /\ \E w \in Widths, s \in Scramblers :
         farm' = [farm EXCEPT !.scrambler = s,
                    !.width = IF farm.wp # 0 /\ Jobs[farm.wp].ex > 0
                              THEN @ ELSE w]
    /\ UNCHANGED <<feed, miner, dagTurn, tele, net, crash>>

-----------------------------------------------------------------------------
(* The collection of data: the timer, then one miner after the other,       *)
(* without x_minerWork.  The temperature is hot, cold or between, and 0,    *)
(* that is cold, when there is no reading.                                  *)

collectDataStarts ==
    /\ Io /\ farm.collect = N /\ farm.mining /\ "collect" \in farm.events
    /\ farm' = [farm EXCEPT !.collect = 0]
    /\ UNCHANGED <<feed, miner, dagTurn, tele, net, crash>>

checkTemperature(m, t) ==
    IF "heat" \notin m.flags /\ t = "hot" THEN pause(m, "heat")
    ELSE IF "heat" \in m.flags /\ t = "cold" THEN resume(m, "heat")
    ELSE m

collectData ==
    /\ Io /\ farm.collect < N
    /\ IF ~farm.mining
       THEN crash' = "race" /\ UNCHANGED <<farm, miner, tele>>
       ELSE LET i == farm.collect
            IN \E t \in (IF i \in Sensors THEN {"hot", "warm", "cold"}
                        ELSE {"cold"}) :
               /\ farm' = [farm EXCEPT !.collect = i + 1]
               /\ tele' = [tele EXCEPT !.rate[i + 1] =
                              IF paused(miner[i]) THEN 0 ELSE miner[i].hr]
               /\ miner' = [miner EXCEPT ![i] =
                     unanswered(TriggerHashRateUpdate(checkTemperature(@, t)))]
               /\ UNCHANGED crash
    /\ UNCHANGED <<feed, dagTurn, net>>

-----------------------------------------------------------------------------
(* Solutions: found by a mining thread, checked and submitted by the io     *)
(* thread, answered by the pool.                                            *)

submitProofAsync ==
    /\ Io /\ net.q # <<>>
    /\ LET s == Head(net.q)
       IN /\ net' = [net EXCEPT !.q = Tail(@),
                        !.sent = IF s.ok /\ net.connected
                                 THEN Append(@, s.midx) ELSE @]
          /\ IF s.ok THEN UNCHANGED <<tele, crash>>
             ELSE accountSolution(s.midx, "failed")
    /\ UNCHANGED <<feed, farm, miner, dagTurn>>

onSolutionAnswered ==
    /\ Io /\ net.sent # <<>>
    /\ \E k \in {"accepted", "rejected"} : accountSolution(Head(net.sent), k)
    /\ net' = [net EXCEPT !.sent = Tail(@)]
    /\ UNCHANGED <<feed, farm, miner, dagTurn>>

-----------------------------------------------------------------------------
(* A mining thread: the work loop and Miner::initEpoch().                   *)

step(i, m) ==
    /\ crash = "no" /\ farm.mining
    /\ miner' = [miner EXCEPT ![i] = m]

loopTop(i) ==
    LET m == miner[i]
    IN /\ m.pc = "top" /\ (m.stop \/ m.kick)
       /\ step(i, IF m.stop THEN [m EXCEPT !.pc = "done"]
                  ELSE [m EXCEPT !.kick = FALSE, !.pc = "read"])
       /\ UNCHANGED <<feed, farm, dagTurn, tele, net, crash>>

takeWork(i) ==
    LET m == miner[i]
    IN /\ m.pc = "read" /\ ~(feed.pc \in {"void", "store"} /\ feed.at = i)
       /\ step(i, IF m.work = None THEN [m EXCEPT !.pc = "top"]
                  ELSE [m EXCEPT !.cur = m.work.job,
                          !.pc = IF m.old = Epoch(m.work.job)
                                 THEN "search" ELSE "dag"])
       /\ UNCHANGED <<feed, farm, dagTurn, tele, net, crash>>

\* in the sequential mode a miner waits for its turn, and looks only then
\* whether it should stop
initEpoch(i) ==
    LET m == miner[i]
    IN /\ m.pc = "dag" /\ (Sequential => dagTurn >= i)
       /\ step(i, [m EXCEPT !.pc = IF Sequential /\ m.stop THEN "done"
                                   ELSE "alloc"])
       /\ UNCHANGED <<feed, farm, dagTurn, tele, net, crash>>

\* the rest of initEpoch() and of the work loop's test after it
epochDone(i, m) ==
    /\ step(i, [m EXCEPT !.old = Epoch(m.cur), !.size = None,
                         !.pc = IF m.kick THEN "top" ELSE "search"])
    /\ dagTurn' = IF Sequential THEN (i + 1) % N ELSE dagTurn

\* initEpoch_internal(): the sizes of m_epochContext, then its contents
initEpoch_internalAlloc(i) ==
    LET m == resume(resume(miner[i], "memory"), "epoch")
    IN /\ m.pc = "alloc"
       /\ IF m.ctx = None
          THEN crash' = "epoch" /\ UNCHANGED <<miner, dagTurn>>
          ELSE /\ \/ step(i, [m EXCEPT !.pc = "copy", !.size = m.ctx])
                    /\ UNCHANGED dagTurn
                  \/ /\ "fault" \in farm.events
                     /\ epochDone(i, pause([m EXCEPT !.dag = None], "memory"))
               /\ UNCHANGED crash
       /\ UNCHANGED <<feed, farm, tele, net>>

initEpoch_internalCopy(i) ==
    LET m == miner[i]
    IN /\ m.pc = "copy"
       /\ \/ epochDone(i, [m EXCEPT !.dag = IF m.size = m.ctx THEN m.ctx
                                           ELSE 0])
          \/ /\ "fault" \in farm.events
             /\ epochDone(i, pause([m EXCEPT !.dag = None], "epoch"))
       /\ UNCHANGED <<feed, farm, tele, net, crash>>

search(i) ==
    LET m == miner[i]
    IN /\ m.pc = "search"
       /\ step(i, IF m.kick THEN [m EXCEPT !.pc = "top"] ELSE updateHashRate(m))
       /\ UNCHANGED <<feed, farm, dagTurn, tele, net, crash>>

\* ok: the solution passes the check of submitProofAsync()
submitProof(i) ==
    LET m == miner[i]
    IN /\ m.pc = "search" /\ net.found < MaxFound /\ "find" \in farm.events
       /\ step(i, m)
       /\ \E good \in BOOLEAN :
            net' = [net EXCEPT !.found = @ + 1,
                      !.q = Append(@, [midx |-> i,
                               ok |-> good /\ m.dag = Epoch(m.cur)])]
       /\ UNCHANGED <<feed, farm, dagTurn, tele, crash>>

threadStep(i) ==
    \/ loopTop(i) \/ takeWork(i) \/ initEpoch(i) \/ initEpoch_internalAlloc(i)
    \/ initEpoch_internalCopy(i) \/ search(i) \/ submitProof(i)

Next ==
    \/ onConnected \/ onDisconnected \/ onDisconnectedLast
    \/ onWorkReceived \/ setEpoch \/ setWorkTests \/ setWorkStores \/ stopByMain \/ stopped \/ restart \/ pausegpu
    \/ set_nonce_segment_width \/ collectDataStarts \/ collectData
    \/ submitProofAsync \/ onSolutionAnswered
    \/ \E i \in Miners : threadStep(i)

Spec == Init /\ [][Next]_vars

\* the mining threads are scheduled, and so is the thread in stop() or setWork()
FairSpec ==
    /\ Spec
    /\ WF_vars(stopped) /\ WF_vars(setEpoch \/ setWorkTests \/ setWorkStores)
    /\ \A i \in Miners : WF_vars(threadStep(i))

-----------------------------------------------------------------------------
(* Properties.                                                              *)

Work == [job : 1 .. Len(Jobs), width : 0 .. Bits, start : Nat]

Miner == [pc : {"top", "read", "dag", "alloc", "copy", "search", "done"},
          stop : BOOLEAN, flags : SUBSET Reason, kick : BOOLEAN,
          work : Work \cup {None}, ctx : Nat \cup {None}, cur : 0 .. Len(Jobs),
          old : Nat \cup {None}, size : Nat \cup {None}, dag : Nat \cup {None},
          hr : {0, 1}, upd : BOOLEAN, quiet : 0 .. 3]

FarmObject == [mining : BOOLEAN, paused : BOOLEAN, ec : Nat \cup {None},
               wp : 0 .. Len(Jobs), scrambler : Scramblers, width : 0 .. Bits,
               stopping : {"no", "io", "main", "restart"}, collect : 0 .. N,
               starts : Nat, events : Scopes]

Feed == [pc : {"idle", "epoch", "test", "void", "store"}, at : Miners,
         job : Work \cup {None}]

Telemetry == [farm : [Kind -> Nat], miners : Seq([Kind -> Nat]),
              rate : Seq({0, 1})]

Net == [connected : BOOLEAN, found : Nat,
        q : Seq([midx : Miners, ok : BOOLEAN]), sent : Seq(Miners)]

\* The types; the miners exist as long as a thread waits for their end.
TypeOK ==
    /\ farm \in FarmObject /\ (farm.stopping # "no" => farm.mining)
    /\ miner \in [Miners -> Miner]
    /\ feed \in Feed /\ (feed.pc # "idle" => farm.mining /\ feed.job # None)
    /\ dagTurn \in Miners
    /\ tele \in Telemetry
    /\ net \in Net
    /\ crash \in {"no", "epoch", "race", "index"}

\* When setWork() has gone through the miners, those that hold a job hold
\* segments of the nonce space that do not overlap, and at any time they are
\* inside the segment the pool has left to the rig, whatever the order of pools
\* with and without an extranonce and of changes by the API.
Segment(i) == {(miner[i].work.start + d) % pow2[Bits] :
                  d \in 0 .. pow2[miner[i].work.width] - 1}
PoolSegment(j) == {Jobs[j].start + d : d \in 0 .. pow2[Residual(j)] - 1}

SegmentsDisjoint ==
    LET busy == {i \in Miners : miner[i].work # None}
    IN /\ \A i \in busy : LET j == miner[i].work.job
                           IN Jobs[j].ex > 0 => Segment(i) \subseteq PoolSegment(j)
       /\ feed.pc = "idle" =>
             \A i, k \in busy : i # k => Segment(i) \cap Segment(k) = {}

\* Every solution is accounted to the miner that found it: the index is one
\* of the telemetry, even when the miners were destroyed and made again in
\* between, and the sums of the farm are those of its miners.
SumOf(k) ==
    LET upTo[n \in 0 .. Len(tele.miners)] ==
            IF n = 0 THEN 0 ELSE upTo[n - 1] + tele.miners[n][k]
    IN upTo[Len(tele.miners)]

AccountsAdd ==
    /\ crash # "index"
    /\ \A k \in Kind : tele.farm[k] = SumOf(k)

\* A rig that has lost its pool does not go on mining: no thread can take a
\* job, whatever the API and the thermal control resume, and however late
\* setWork() is.
IdleWithoutPool ==
    farm.mining /\ farm.stopping = "no" /\ ~net.connected =>
        \A i \in Miners : miner[i].work = None

\* setWork() has not got to miner i yet.
OnTheWay(i) == feed.pc = "epoch" \/ (feed.pc # "idle" /\ feed.at <= i)

\* What a mining thread searches with, once nothing new waits for it or is on
\* its way to it, is the DAG of the epoch of its job, although the context is
\* replaced while the DAG is made from it, and before the job.  Only a miner
\* that shows itself suspended for a failed initialisation may be without, as
\* long as epochs go forward.
DagOfEpoch ==
    \A i \in Miners :
        miner[i].pc = "search" /\ ~miner[i].kick /\ ~OnTheWay(i)
            => \/ miner[i].dag = Epoch(miner[i].cur)
               \/ miner[i].flags \cap {"memory", "epoch"} # {}

\* "GPU didn't respond to last trigger, assume it's dead": a miner that has
\* not answered a trigger over three collections is shown with no hash rate.
DeadShowsZero ==
    farm.mining => \A i \in Miners :
        miner[i].quiet = 3 => tele.rate[i + 1] = 0

\* What the statistics say is true: the accounts of the solutions add up, and
\* a miner that does not answer is not shown with an old hash rate.
TelemetryTrue == AccountsAdd /\ DeadShowsZero

-----------------------------------------------------------------------------
(* Expectations the code does not meet (README, Deviations).               *)

\* Farm::stop(): "All mining activities to a full stop".  The call returns.
StopReturns == farm.stopping # "no" ~> farm.stopping = "no" \/ crash # "no"

\* "Instructs firominer to stop and restart mining": the miners of a restarted
\* farm find an epoch context when they get their job.
RestartedMinersRun == crash # "epoch"

\* "Void work if this miner is paused": a paused miner has no job.
VoidWhilePaused ==
    farm.mining => \A i \in Miners : paused(miner[i]) => miner[i].work = None

\* "Eventually resume mining when changing coin or epoch": a miner that has been
\* suspended for want of memory is given the jobs of the next epoch.
ResumesWithEpoch ==
    [][LET m == miner[feed.at]
       IN feed.pc = "test" /\ feed' # feed /\ m.flags \subseteq {"memory"}
            /\ m.old # farm.ec => feed'.pc = "store"]_vars

=============================================================================
