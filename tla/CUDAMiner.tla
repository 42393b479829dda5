----------------------------- MODULE CUDAMiner -----------------------------
(***************************************************************************)
(* One CUDA miner: its work loop, the thread that compiles the ProgPoW     *)
(* kernel of the next period ahead of time, the two kernel slots the two   *)
(* share, and the search that keeps Streams batches of nonces running.     *)
(* Farm::setWork hands out the jobs: it replaces the epoch context of the  *)
(* miner first and delivers the work after that.  Nonces are counted in    *)
(* batches of m_batch_size and wrap around as the 64 bit ones do.          *)
(***************************************************************************)
EXTENDS Naturals

CONSTANTS
    Blocks,        \* heights of the jobs
    EpochLength,   \* blocks of an epoch (ethash::kEpoch_length)
    Fitting,       \* epochs whose DAG fits in the memory of the device
    Streams,       \* m_settings.streams
    BatchSpace,    \* batches in the nonce space (2^64 nonces)
    Wrap,          \* batches in 2^32 nonces
    MaxJobs,       \* bound: jobs handed out, for every scope
    MaxFailures,   \* bound: compilations and DAG generations that fail
    None           \* no job, no kernel, no DAG

\* Bound: the kind of event a behaviour may have besides jobs.
Scopes == {"pauses", "easy jobs", "failures"}

Jobs == [id : Nat, block : Blocks, easy : BOOLEAN]

Kernels == [period : Nat, epoch : Nat \cup {None}]

\* what a stream runs, and what is reported of it
Launched == [job : Nat, batch : Nat, dag : Nat \cup {None}, kernel : Kernels \cup {None}]

Reports == [job : Nat, batch : Nat, ran : Launched \cup {None}]

ASSUME CudaAssumption ==
    /\ Blocks \subseteq Nat \ {0} /\ EpochLength \in Nat \ {0}
    /\ Streams \in Nat \ {0} /\ BatchSpace \in Nat /\ BatchSpace > Streams
    /\ Wrap \in Nat \ {0}
    /\ MaxJobs \in [Scopes -> Nat] /\ MaxFailures \in Nat
    /\ Fitting \subseteq Nat
    /\ None \notin Launched /\ None \notin Jobs /\ None \notin Reports /\ None \notin Kernels

VARIABLES
    m,             \* the members of the miner, shared with the other threads
    loop,          \* the thread of the miner: where it stands and its locals
    farm           \* the job being handed out, the bounds used up, and whether
                   \* a block was skipped or a compilation failed so far

cudaVars == <<m, loop, farm>>

kPeriodLength == 1
epochOf(j) == j.block \div EpochLength
periodOf(j) == j.block \div kPeriodLength
Idle == [pc |-> "start", w |-> None, old_epoch |-> None, old_period |-> None,
         start |-> 0, ix |-> 0, done |-> FALSE,
         running |-> [s \in 0..Streams - 1 |-> None], report |-> None]

NewMiner ==
    [m_work |-> None, m_new_work |-> FALSE, m_pauseFlags |-> {},
     m_epochContext |-> None, stop |-> FALSE, dag |-> None,
     m_nextProgpowPeriod |-> 0, m_kernelCompIx |-> 0, m_kernelExecIx |-> 1,
     m_kernel |-> [i \in 0..1 |-> None], m_compileThread |-> "none",
     dag_elms |-> None, crash |-> FALSE]

CudaInit ==
    /\ m = NewMiner /\ loop = Idle
    /\ \E scope \in Scopes :
         farm = [scope |-> scope, job |-> None, test |-> "no", jobs |-> 0,
                   failures |-> 0, last |-> None, skipped |-> FALSE, failed |-> FALSE]

paused == m.m_pauseFlags # {}
fails == farm.scope = "failures" /\ farm.failures < MaxFailures

-----------------------------------------------------------------------------
(* What the other threads do.                                               *)

\* Farm::setWork, first half: a changed epoch is given to every miner
setEpoch(b, easy) ==
    /\ farm.job = None /\ farm.jobs < MaxJobs[farm.scope] /\ ~m.stop
    /\ easy => farm.scope = "easy jobs"
    /\ farm' = [farm EXCEPT !.jobs = @ + 1,
                            !.job = [id |-> farm.jobs + 1, block |-> b, easy |-> easy],
                            !.last = b,
                            !.skipped = @ \/ farm.last \notin {None, b, b - 1}]
    /\ m' = [m EXCEPT !.m_epochContext = b \div EpochLength]
    /\ UNCHANGED loop

kick_miner(o) == [o EXCEPT !.m_new_work = TRUE]

pauseWith(o, what) ==
    kick_miner([o EXCEPT !.m_pauseFlags = @ \cup {what}, !.m_work = None])

\* Miner::setWork: the work is void while the miner is paused.  It tests that
\* with x_work held, which no pause takes, and stores after it.
setWork ==
    /\ farm.job # None /\ farm.test = "no"
    /\ farm' = [farm EXCEPT !.test = IF paused THEN "paused" ELSE "free"]
    /\ UNCHANGED <<m, loop>>

setWorkStores ==
    /\ farm.test # "no"
    /\ m' = kick_miner([m EXCEPT !.m_work = IF farm.test = "paused" THEN None ELSE farm.job])
    /\ farm' = [farm EXCEPT !.job = None, !.test = "no"]
    /\ UNCHANGED loop

pause ==
    /\ "API" \notin m.m_pauseFlags /\ ~m.stop /\ farm.scope = "pauses"
    /\ m' = pauseWith(m, "API")
    /\ UNCHANGED <<loop, farm>>

resume ==
    /\ "API" \in m.m_pauseFlags /\ ~m.stop
    /\ m' = [m EXCEPT !.m_pauseFlags = @ \ {"API"}]
    /\ UNCHANGED <<loop, farm>>

\* Farm::stop: triggerStopWorking and kick_miner
stop ==
    /\ ~m.stop /\ farm.job = None
    /\ m' = kick_miner([m EXCEPT !.stop = TRUE])
    /\ UNCHANGED <<loop, farm>>

ended == loop.pc \in {"exited", "threw", "gone"}

\* m_miners.clear(): ~unique_ptr<thread> of a thread that was not joined calls
\* std::terminate
destroy ==
    /\ ended /\ loop.pc # "gone" /\ m.stop
    /\ m' = [m EXCEPT !.crash = m.m_compileThread # "none"]
    /\ loop' = [loop EXCEPT !.pc = "gone"]
    /\ UNCHANGED farm

-----------------------------------------------------------------------------
(* The compile thread.                                                      *)

compiling == m.m_compileThread \in {"started", "compiling"}

startCompile(o, period) ==
    [o EXCEPT !.m_nextProgpowPeriod = period, !.m_compileThread = "started"]

\* asyncCompile reads the size of the dataset
asyncCompile ==
    /\ m.m_compileThread = "started"
    /\ m' = [m EXCEPT !.m_compileThread = "compiling", !.dag_elms = m.m_epochContext]
    /\ UNCHANGED <<loop, farm>>

\* the kernel is loaded in its slot, and the next compilation has the other
compiled(o) ==
    [o EXCEPT !.m_kernel[o.m_kernelCompIx] = [period |-> o.m_nextProgpowPeriod, epoch |-> o.dag_elms],
              !.m_kernelCompIx = 1 - @, !.m_compileThread = "done"]

compileKernel ==
    /\ m.m_compileThread = "compiling"
    /\ \/ m' = compiled(m) /\ UNCHANGED farm
       \/ /\ fails
          /\ m' = [m EXCEPT !.m_compileThread = "done"]
          /\ farm' = [farm EXCEPT !.failures = @ + 1, !.failed = TRUE]
    /\ UNCHANGED loop

-----------------------------------------------------------------------------
(* The work loop.                                                           *)

\* a device that cannot be set up ends the thread
initDevice ==
    /\ loop.pc = "start"
    /\ \/ loop' = [loop EXCEPT !.pc = "wait"] /\ UNCHANGED farm
       \/ /\ fails
          /\ loop' = [loop EXCEPT !.pc = "exited"]
          /\ farm' = [farm EXCEPT !.failures = @ + 1]
    /\ UNCHANGED m

exitLoop ==
    /\ loop.pc = "wait" /\ m.stop
    /\ loop' = [loop EXCEPT !.pc = "exited"]
    /\ UNCHANGED <<m, farm>>

claims ==
    /\ loop.pc = "wait" /\ ~m.stop /\ m.m_new_work
    /\ m' = [m EXCEPT !.m_new_work = FALSE]
    /\ loop' = [loop EXCEPT !.pc = "take"]
    /\ UNCHANGED farm

\* Mutant: a job of another epoch is left to the next round, without the flag.
takeWorkLater ==
    /\ loop.pc = "take" /\ farm.test = "no"
    /\ loop' = IF m.m_work = None \/ loop.old_epoch # epochOf(m.m_work)
               THEN [loop EXCEPT !.pc = "wait"]
               ELSE [loop EXCEPT !.w = m.m_work, !.pc = "period"]
    /\ UNCHANGED <<m, farm>>

\* work(): x_work is free
takeWork ==
    /\ loop.pc = "take" /\ farm.test = "no"
    /\ loop' = IF m.m_work = None THEN [loop EXCEPT !.pc = "wait"]
               ELSE [loop EXCEPT !.w = m.m_work,
                        !.pc = IF loop.old_epoch # epochOf(m.m_work) THEN "init" ELSE "period"]
    /\ UNCHANGED <<m, farm>>

\* the memory needed is looked at, and what the last epoch paused is resumed
initEpoch ==
    /\ loop.pc = "init"
    /\ m' = [m EXCEPT !.m_pauseFlags = @ \ {"Memory", "InitEpoch"}]
    /\ loop' = [loop EXCEPT !.pc = IF m.m_epochContext \in Fitting THEN "dag" ELSE "short"]
    /\ UNCHANGED farm

tooLarge ==
    /\ loop.pc = "short"
    /\ m' = pauseWith(m, "Memory")
    /\ loop' = [loop EXCEPT !.pc = "initialised"]
    /\ UNCHANGED farm

\* the DAG is of the epoch the context has by now
generateDag ==
    /\ loop.pc = "dag"
    /\ \/ /\ m.m_epochContext \in Fitting
          /\ m' = [m EXCEPT !.dag = m.m_epochContext] /\ UNCHANGED farm
       \/ /\ m.m_epochContext \notin Fitting \/ fails
          /\ m' = pauseWith([m EXCEPT !.dag = None], "InitEpoch")
          /\ farm' = [farm EXCEPT !.failures = IF fails THEN @ + 1 ELSE @]
    /\ loop' = [loop EXCEPT !.pc = "initialised"]

epochInitialised ==
    /\ loop.pc = "initialised"
    /\ loop' = [loop EXCEPT !.old_epoch = epochOf(loop.w),
                            !.pc = IF m.m_new_work THEN "wait" ELSE "period"]
    /\ UNCHANGED <<m, farm>>

samePeriod ==
    /\ loop.pc = "period" /\ m.m_nextProgpowPeriod # 0
    /\ loop.old_period = periodOf(loop.w)
    /\ loop' = [loop EXCEPT !.pc = "search"]
    /\ UNCHANGED <<m, farm>>

firstCompile ==
    /\ loop.pc = "period" /\ m.m_nextProgpowPeriod = 0 /\ ~compiling
    /\ m' = startCompile(m, periodOf(loop.w))
    /\ UNCHANGED <<loop, farm>>

\* Mutant: the slot that is launched stays the same.
swapKernelsSameSlot ==
    /\ m' = startCompile(m, periodOf(loop.w) + 1)
    /\ loop' = [loop EXCEPT !.old_period = periodOf(loop.w), !.pc = "search"]
    /\ UNCHANGED farm

\* the other slot is launched from now on, and the next period compiled
swapKernels ==
    /\ m' = startCompile([m EXCEPT !.m_kernelExecIx = 1 - @], periodOf(loop.w) + 1)
    /\ loop' = [loop EXCEPT !.old_period = periodOf(loop.w), !.pc = "search"]
    /\ UNCHANGED farm

\* the join of the compile thread is the guard
changePeriod ==
    /\ loop.pc = "period" /\ m.m_nextProgpowPeriod # 0 /\ ~compiling
    /\ loop.old_period # periodOf(loop.w)
    /\ m.m_nextProgpowPeriod = periodOf(loop.w)
    /\ swapKernels

recover ==
    /\ loop.pc = "period" /\ m.m_nextProgpowPeriod # 0 /\ ~compiling
    /\ loop.old_period # periodOf(loop.w)
    /\ m.m_nextProgpowPeriod # periodOf(loop.w)
    /\ m' = startCompile(m, periodOf(loop.w))
    /\ loop' = [loop EXCEPT !.pc = "recover"]
    /\ farm' = [farm EXCEPT !.skipped = TRUE]

recovered == loop.pc = "recover" /\ ~compiling /\ swapKernels

-----------------------------------------------------------------------------
(* search()                                                                 *)

launch(l, s, batch) ==
    [l EXCEPT !.running[s] = [job |-> l.w.id, batch |-> batch, dag |-> m.dag,
                              kernel |-> m.m_kernel[m.m_kernelExecIx]]]

\* Every stream is started on a batch of its own.  An empty kernel slot cannot
\* be launched: the exception ends the thread.
prime ==
    /\ loop.pc = "search"
    /\ loop' = IF loop.w.easy THEN [loop EXCEPT !.pc = "wait"]
               ELSE IF m.m_kernel[m.m_kernelExecIx] = None THEN [loop EXCEPT !.pc = "threw"]
               ELSE [loop EXCEPT !.pc = "round", !.start = Streams % BatchSpace,
                        !.running = [s \in DOMAIN @ |->
                            launch(loop, s, s).running[s]]]
    /\ UNCHANGED <<m, farm>>

nextRound(l) == [l EXCEPT !.done = m.m_new_work \/ paused, !.ix = 0, !.pc = "stream",
                          !.report = None]

round ==
    /\ loop.pc = "round"
    /\ loop' = nextRound(loop)
    /\ UNCHANGED <<m, farm>>

\* Mutant: the start nonce is moved on too early.
relaunchLate(l, done) ==
    IF done THEN [l EXCEPT !.running[l.ix] = None] ELSE launch(l, l.ix, (l.start + 1) % BatchSpace)

\* the stream goes on with the next batch, unless this was the last round
relaunch(l, done) ==
    IF done THEN [l EXCEPT !.running[l.ix] = None] ELSE launch(l, l.ix, l.start)

\* the product has 32 bits
m_streams_batch_size == Streams % Wrap

reportedBatch(l) == (l.start + BatchSpace - m_streams_batch_size) % BatchSpace

\* A batch without a DAG, or with one smaller than its kernel was compiled for,
\* reads what is not there: the device may report it, which ends the thread.
readsPast(r) == r.dag = None \/ (r.dag # None /\ r.kernel.epoch > r.dag)

streamFails ==
    /\ loop.pc = "stream" /\ loop.running[loop.ix] # None
    /\ readsPast(loop.running[loop.ix])
    /\ loop' = [loop EXCEPT !.pc = "threw", !.ix = 0, !.report = None]
    /\ UNCHANGED <<m, farm>>

\* A stream ends: what it found is read and reported for the batch it ran.
stream ==
    /\ loop.pc = "stream"
    /\ LET done == loop.done \/ m.stop
           last == loop.ix = Streams - 1
       IN  \E found \in BOOLEAN :
             /\ loop' = [relaunch(loop, done) EXCEPT !.done = done,
                  !.start = (@ + 1) % BatchSpace,
                  !.ix = IF last THEN 0 ELSE @ + 1,
                  !.pc = IF ~last THEN "stream" ELSE IF done THEN "wait" ELSE "round",
                  !.report = IF found
                             THEN [job |-> loop.w.id, batch |-> reportedBatch(loop),
                                   ran |-> loop.running[loop.ix]]
                             ELSE None]
             /\ m' = [m EXCEPT !.m_new_work = @ /\ ~m.stop]
    /\ UNCHANGED farm

cudaThread ==
    \/ initDevice \/ exitLoop \/ claims \/ takeWork
    \/ initEpoch \/ tooLarge \/ generateDag \/ epochInitialised
    \/ samePeriod \/ firstCompile \/ changePeriod \/ recover \/ recovered
    \/ prime \/ round \/ stream \/ streamFails

CudaNext ==
    \/ \E b \in Blocks, easy \in BOOLEAN : setEpoch(b, easy)
    \/ setWork \/ setWorkStores \/ pause \/ resume \/ stop \/ destroy
    \/ asyncCompile \/ compileKernel
    \/ cudaThread

\* the threads of the process run, and Farm::setWork finishes
CudaFairness ==
    /\ WF_cudaVars(cudaThread) /\ WF_cudaVars(setWork \/ setWorkStores)
    /\ WF_cudaVars(asyncCompile \/ compileKernel)

CudaSpec == CudaInit /\ [][CudaNext]_cudaVars /\ CudaFairness

-----------------------------------------------------------------------------
(* Properties.                                                              *)

CudaTypeOK ==
    /\ m.m_work \in Jobs \cup {None} /\ m.m_new_work \in BOOLEAN
    /\ m.m_pauseFlags \subseteq {"API", "Memory", "InitEpoch"}
    /\ m.m_kernelCompIx \in 0..1 /\ m.m_kernelExecIx \in 0..1
    /\ \A i \in 0..1 : m.m_kernel[i] = None \/ m.m_kernel[i].period \in Nat
    /\ m.m_compileThread \in {"none", "started", "compiling", "done"}
    /\ loop.pc \in {"start", "wait", "take", "init", "short", "dag", "initialised",
                    "period", "recover", "search", "round", "stream", "exited",
                    "threw", "gone"}
    /\ loop.start \in 0..BatchSpace - 1 /\ loop.ix \in 0..Streams - 1
    /\ loop.pc \in {"round", "stream"} => loop.w \in Jobs
    /\ loop.pc = "round" => \A s \in DOMAIN loop.running : loop.running[s] # None

running == {loop.running[s] : s \in DOMAIN loop.running} \ {None}

\* The nonce a solution is reported with is of the batch its stream really ran,
\* for the job it ran it for: the start nonce has moved on by all the streams
\* in the meantime (CUDAMiner.cpp:611).
ReportIsOfBatch ==
    loop.report # None =>
        /\ loop.report.ran # None
        /\ loop.report.job = loop.report.ran.job
        /\ loop.report.batch = loop.report.ran.batch

\* the DAG of the epoch could not be made
suspended == m.m_pauseFlags \cap {"Memory", "InitEpoch"} # {}

\* the search is about to end
Superseded == farm.job # None \/ m.m_new_work \/ m.stop

\* As long as the blocks follow one another and every compilation succeeds, no
\* search starts on an empty slot, which would end the thread: the slot a batch
\* is launched from holds the kernel of the period of the job.  Its
\* dataset size is that of another epoch in the first block of an epoch only,
\* because the kernel was compiled during the block before, or when a job of
\* the next epoch is about to end the search.
KernelFits ==
    ~farm.skipped /\ ~farm.failed =>
        /\ loop.pc = "threw" => running # {}
        /\ \A r \in running :
            /\ r.kernel.period = periodOf(loop.w)
            /\ r.kernel.epoch = epochOf(loop.w) \/ loop.w.block % EpochLength = 0 \/ Superseded

\* A batch reads the DAG of the epoch of its job, unless another job is on its
\* way and ends the search, or the DAG could not be made (SuspendedIsIdle).
DagOfJob ==
    \A r \in running : r.dag = epochOf(loop.w) \/ Superseded \/ suspended

Fresh == m.m_work # None /\ ~paused /\ ~m.stop /\ ~ended

\* The work a miner holds is the work it searches sooner or later, unless it is
\* taken away from it (or is too easy for a GPU): no kick is lost between the
\* flag, the job and the end of the search.
WorkIsSearched ==
    m.m_new_work /\ Fresh ~>
        \/ ~Fresh \/ m.m_work.easy
        \/ loop.w = m.m_work /\ loop.pc \in {"search", "round", "stream"}

-----------------------------------------------------------------------------
(* Expectations the code does not meet (README, Deviations).               *)

\* The kernel launched for a job is the one of its period: "Try to recover"
\* (CUDAMiner.cpp:265) recovers from a period other than the expected one.
KernelOfPeriod ==
    ~farm.failed => \A r \in running : r.kernel.period = periodOf(loop.w)

\* "Mining suspended on device" (CUDAMiner.cpp:124): what has no DAG of its epoch
\* searches nothing.
SuspendedIsIdle == running # {} => ~suspended \/ Superseded

\* A thread that got its device ends when it is told to stop, and never before.
MinerSurvives == loop.pc = "threw" => m.stop

\* Destroying a miner that was stopped leaves the process alive.
DestroyedInPeace == ~m.crash

=============================================================================
