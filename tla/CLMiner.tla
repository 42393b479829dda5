------------------------------ MODULE CLMiner ------------------------------
(***************************************************************************)
(* One OpenCL miner.  Its loop reads what the kernel of the round before   *)
(* found, looks at the work, launches the kernel on the next batch of      *)
(* nonces and reports the findings while that runs.  A changed period, a   *)
(* changed epoch and a changed header are dealt with in a round each: the  *)
(* first two end in "continue".  The kernel of the next period is compiled *)
(* ahead of time by a thread of its own.  A header is ten times its block  *)
(* plus a variant.  kick_miner's abort flag only shortens the run of a     *)
(* kernel and is left out.                                                 *)
(***************************************************************************)
EXTENDS Naturals

CONSTANTS
    Headers,       \* the jobs: block * 10 + variant
    EpochLength,   \* blocks of an epoch
    Fitting,       \* epochs whose DAG fits in the memory of the device
    BatchSpace,    \* batches of globalWorkSize in the nonce space
    MaxJobs,       \* bound: jobs handed out, for every scope
    None

VARIABLES
    cl,            \* the members of the miner, shared with the other threads
    thread,        \* the thread of the miner: where it stands and its locals
    feed           \* the job being handed out, and the bounds used up

clVars == <<cl, thread, feed>>

periodOf(h) == h \div 10
epochOf(h) == periodOf(h) \div EpochLength
NoKernel == [period |-> None, epoch |-> None, args |-> FALSE]
NoDag == [epoch |-> None, light |-> None]

NewCLMiner ==
    [m_work |-> None, m_pauseFlags |-> {}, m_epochContext |-> None, stop |-> FALSE,
     m_nextProgpowPeriod |-> 0, m_compileThread |-> "none", sizes |-> None,
     m_program |-> None, m_nextProgram |-> None,
     m_searchKernel |-> NoKernel, m_nextSearchKernel |-> NoKernel,
     m_dag |-> NoDag, m_header |-> None, m_searchBuffer |-> None]

NewCLThread ==
    [pc |-> "start", next |-> None, easy |-> FALSE, current |-> None, batch |-> 0,
     startNonce |-> 0, old_period |-> None, old_epoch |-> None,
     results |-> None, report |-> None]

\* Bound: the kind of event a behaviour may have besides jobs.
ClScopes == {"pauses", "easy jobs", "failures"}

ClInit ==
    /\ cl = NewCLMiner /\ thread = NewCLThread
    /\ \E scope \in ClScopes :
         feed = [scope |-> scope, job |-> None, easy |-> FALSE, test |-> "no",
                 jobs |-> 0, last |-> None, skipped |-> FALSE, failed |-> "no"]

stopped == cl.m_pauseFlags # {}
mayFail == feed.scope = "failures" /\ feed.failed = "no"

-----------------------------------------------------------------------------
(* What the other threads do.                                               *)

\* Farm::setWork, first half: a changed epoch is given to every miner
setEpoch(h, easy) ==
    /\ feed.job = None /\ feed.jobs < MaxJobs[feed.scope] /\ ~cl.stop
    /\ easy => feed.scope = "easy jobs"
    /\ feed' = [feed EXCEPT !.jobs = @ + 1, !.job = h, !.easy = easy, !.last = periodOf(h),
                   !.skipped = @ \/ feed.last \notin {None, periodOf(h), periodOf(h) - 1}]
    /\ cl' = [cl EXCEPT !.m_epochContext = epochOf(h)]
    /\ UNCHANGED thread

\* Miner::setWork: the work is void while the miner is paused.  It tests that
\* with x_work held, which no pause takes, and stores after it.
setWork ==
    /\ feed.job # None /\ feed.test = "no"
    /\ feed' = [feed EXCEPT !.test = IF stopped THEN "paused" ELSE "free"]
    /\ UNCHANGED <<cl, thread>>

setWorkStores ==
    /\ feed.test # "no"
    /\ cl' = [cl EXCEPT !.m_work = IF feed.test = "paused" THEN None
                                   ELSE [header |-> feed.job, easy |-> feed.easy]]
    /\ feed' = [feed EXCEPT !.job = None, !.easy = FALSE, !.test = "no"]
    /\ UNCHANGED thread

pauseWith(o, what) == [o EXCEPT !.m_pauseFlags = @ \cup {what}, !.m_work = None]

pause ==
    /\ "API" \notin cl.m_pauseFlags /\ ~cl.stop /\ feed.scope = "pauses"
    /\ cl' = pauseWith(cl, "API")
    /\ UNCHANGED <<thread, feed>>

resume ==
    /\ "API" \in cl.m_pauseFlags /\ ~cl.stop
    /\ cl' = [cl EXCEPT !.m_pauseFlags = @ \ {"API"}]
    /\ UNCHANGED <<thread, feed>>

stop ==
    /\ ~cl.stop /\ feed.job = None
    /\ cl' = [cl EXCEPT !.stop = TRUE]
    /\ UNCHANGED <<thread, feed>>

-----------------------------------------------------------------------------
(* The compile thread.                                                      *)

compiling == cl.m_compileThread \in {"started", "compiling"}

startCompile(o, period) ==
    [o EXCEPT !.m_nextProgpowPeriod = period, !.m_compileThread = "started"]

\* the sizes of the dataset and of the light cache become definitions
addDefinitions ==
    /\ cl.m_compileThread = "started"
    /\ cl' = [cl EXCEPT !.m_compileThread = "compiling", !.sizes = cl.m_epochContext]
    /\ UNCHANGED <<thread, feed>>

built(o) ==
    [o EXCEPT !.m_compileThread = "done", !.m_nextProgram = o.sizes,
              !.m_nextSearchKernel = [period |-> o.m_nextProgpowPeriod, epoch |-> o.sizes,
                                      args |-> FALSE]]

\* A program that does not build pauses the miner; another error is only logged.
compileKernel ==
    /\ cl.m_compileThread = "compiling"
    /\ \/ cl' = built(cl) /\ UNCHANGED feed
       \/ /\ mayFail
          /\ cl' = pauseWith([cl EXCEPT !.m_compileThread = "done", !.m_nextProgram = None],
                             "InitEpoch")
          /\ feed' = [feed EXCEPT !.failed = "build"]
       \/ /\ mayFail
          /\ \E program \in {cl.m_nextProgram, cl.sizes} :
               cl' = [cl EXCEPT !.m_compileThread = "done", !.m_nextProgram = program]
          /\ feed' = [feed EXCEPT !.failed = "compile"]
    /\ UNCHANGED thread

-----------------------------------------------------------------------------
(* The work loop.                                                           *)

\* a device that cannot be set up ends the thread
initDevice ==
    /\ thread.pc = "start"
    /\ \/ thread' = [thread EXCEPT !.pc = "top"] /\ UNCHANGED feed
       \/ /\ mayFail
          /\ thread' = [thread EXCEPT !.pc = "exited"]
          /\ feed' = [feed EXCEPT !.failed = "device"]
    /\ UNCHANGED cl

exitLoop ==
    /\ thread.pc = "top" /\ cl.stop
    /\ thread' = [thread EXCEPT !.pc = "exited"]
    /\ UNCHANGED <<cl, feed>>

\* the read waits for the kernel that was launched
readResults ==
    /\ thread.pc = "top" /\ ~cl.stop
    /\ \E found \in BOOLEAN :
         /\ found => cl.m_searchBuffer # None
         /\ thread' = [thread EXCEPT !.pc = "work", !.report = None,
                          !.results = IF found THEN cl.m_searchBuffer ELSE None]
    /\ cl' = [cl EXCEPT !.m_searchBuffer = None]
    /\ UNCHANGED feed

\* x_work is free
work ==
    /\ thread.pc = "work" /\ feed.test = "no"
    /\ thread' = IF cl.m_work = None THEN [thread EXCEPT !.pc = "top", !.next = None]
                 ELSE [thread EXCEPT !.next = cl.m_work.header, !.easy = cl.m_work.easy,
                          !.pc = IF thread.current # cl.m_work.header THEN "job" ELSE "launch"]
    /\ UNCHANGED <<cl, feed>>

firstCompile ==
    /\ thread.pc = "job" /\ cl.m_nextProgpowPeriod = 0 /\ ~compiling
    /\ cl' = startCompile(cl, periodOf(thread.next))
    /\ UNCHANGED <<thread, feed>>

\* the kernel compiled ahead takes over; "continue"
swapKernels ==
    /\ cl' = startCompile([cl EXCEPT !.m_program = cl.m_nextProgram,
                                     !.m_searchKernel = cl.m_nextSearchKernel],
                          periodOf(thread.next) + 1)
    /\ thread' = [thread EXCEPT !.old_period = periodOf(thread.next), !.pc = "top"]
    /\ UNCHANGED feed

newPeriod ==
    /\ thread.pc = "job" /\ cl.m_nextProgpowPeriod # 0 /\ ~compiling
    /\ thread.old_period # periodOf(thread.next)

changePeriod == newPeriod /\ cl.m_nextProgpowPeriod = periodOf(thread.next) /\ swapKernels

recover ==
    /\ newPeriod /\ cl.m_nextProgpowPeriod # periodOf(thread.next)
    /\ cl' = startCompile(cl, periodOf(thread.next))
    /\ thread' = [thread EXCEPT !.pc = "recover"]
    /\ feed' = [feed EXCEPT !.skipped = TRUE]

recovered == thread.pc = "recover" /\ ~compiling /\ swapKernels

samePeriod == thread.pc = "job" /\ thread.old_period = periodOf(thread.next)

newEpoch == thread.old_epoch # epochOf(thread.next)

epochLoaded(t) == [t EXCEPT !.old_epoch = epochOf(t.next), !.pc = "top"]

\* the DAG, of the epoch the context has by now
generated(o) == [epoch |-> o.m_epochContext, light |-> o.m_program]

\* the memory needed is looked at, and what the last epoch paused is resumed
initEpoch ==
    /\ samePeriod /\ newEpoch
    /\ cl' = [cl EXCEPT !.m_pauseFlags = @ \ {"Memory", "InitEpoch"}]
    /\ thread' = [thread EXCEPT !.pc = IF cl.m_epochContext \in Fitting THEN "dag" ELSE "short"]
    /\ UNCHANGED feed

tooLarge ==
    /\ thread.pc = "short"
    /\ cl' = pauseWith(cl, "Memory")
    /\ thread' = epochLoaded(thread)
    /\ UNCHANGED feed

generateDag ==
    /\ thread.pc = "dag" /\ cl.m_epochContext \in Fitting
    /\ cl.m_program # None /\ cl.m_searchKernel # NoKernel
    /\ cl' = [cl EXCEPT !.m_dag = generated(cl)]
    /\ thread' = epochLoaded(thread)
    /\ UNCHANGED feed

\* The miner is paused.  A failure to make the buffers or to load the kernel of
\* the program is answered by "continue", a later one ends the thread.
initFails ==
    /\ thread.pc = "dag"
    /\ cl' = pauseWith([cl EXCEPT !.m_dag = NoDag], "InitEpoch")
    /\ \/ /\ cl.m_epochContext \notin Fitting \/ cl.m_program = None \/ mayFail
          /\ thread' = epochLoaded(thread)
       \/ /\ cl.m_program # None /\ (cl.m_searchKernel = NoKernel \/ mayFail)
          /\ thread' = [thread EXCEPT !.pc = "exited"]
    /\ feed' = [feed EXCEPT !.failed = IF mayFail THEN "init" ELSE @]

skipEasy ==
    /\ samePeriod /\ ~newEpoch /\ thread.easy
    /\ thread' = [thread EXCEPT !.pc = "top"]
    /\ UNCHANGED <<cl, feed>>

\* The header, and the arguments of the kernel except the nonce.  A kernel that
\* is not there throws; m_dag is a null or a freed pointer without a DAG.
setArgs ==
    /\ samePeriod /\ ~newEpoch /\ ~thread.easy
    /\ IF cl.m_searchKernel = NoKernel \/ cl.m_dag = NoDag
       THEN /\ thread' = [thread EXCEPT !.pc = IF cl.m_searchKernel = NoKernel THEN "threw" ELSE "crashed"]
            /\ UNCHANGED cl
       ELSE /\ thread' = [thread EXCEPT !.startNonce = 0, !.pc = "launch"]
            /\ cl' = [cl EXCEPT !.m_header = thread.next, !.m_searchKernel.args = TRUE]
    /\ UNCHANGED feed

\* findings are reported for the work and the nonce of the round before
submitProof(t) ==
    IF t.results = None THEN None
    ELSE [header |-> t.current, batch |-> t.batch, ran |-> t.results]

\* A kernel without arguments throws, which ends the thread.
launch ==
    /\ thread.pc = "launch"
    /\ IF ~cl.m_searchKernel.args
       THEN thread' = [thread EXCEPT !.pc = "threw"] /\ UNCHANGED cl
       ELSE /\ cl' = [cl EXCEPT !.m_searchBuffer =
                        [header |-> cl.m_header, batch |-> thread.startNonce,
                         kernel |-> cl.m_searchKernel, dag |-> cl.m_dag]]
            /\ thread' = [thread EXCEPT !.pc = "top", !.report = submitProof(thread),
                             !.results = None, !.current = thread.next,
                             !.batch = thread.startNonce,
                             !.startNonce = (@ + 1) % BatchSpace]
    /\ UNCHANGED feed

clThread ==
    \/ initDevice \/ exitLoop \/ readResults \/ work
    \/ firstCompile \/ changePeriod \/ recover \/ recovered
    \/ initEpoch \/ tooLarge \/ generateDag \/ initFails
    \/ skipEasy \/ setArgs \/ launch

ClNext ==
    \/ \E h \in Headers, easy \in BOOLEAN : setEpoch(h, easy)
    \/ setWork \/ setWorkStores \/ pause \/ resume \/ stop
    \/ addDefinitions \/ compileKernel
    \/ clThread

\* the threads of the process run, and Farm::setWork finishes
ClFairness ==
    /\ WF_clVars(clThread) /\ WF_clVars(setWork \/ setWorkStores)
    /\ WF_clVars(addDefinitions \/ compileKernel)

ClSpec == ClInit /\ [][ClNext]_clVars /\ ClFairness

-----------------------------------------------------------------------------
(* Properties.                                                              *)

Ended == {"exited", "threw", "crashed"}

ClTypeOK ==
    /\ cl.m_pauseFlags \subseteq {"API", "Memory", "InitEpoch"}
    /\ cl.m_work = None \/ cl.m_work.header \in Headers
    /\ thread.pc \in {"start", "top", "work", "job", "recover", "short", "dag", "launch"} \cup Ended
    /\ thread.startNonce \in 0..BatchSpace - 1 /\ thread.batch \in 0..BatchSpace - 1
    /\ thread.current \in Headers \cup {None}
    /\ thread.pc \in {"job", "recover", "launch"} => thread.next \in Headers
    /\ cl.m_compileThread \in {"none", "started", "compiling", "done"}

\* What is reported was found by the kernel in the round the report is for: the
\* same header and the same start nonce, although the next kernel runs already.
ReportIsOfRound ==
    thread.report # None =>
        /\ thread.report.header = thread.report.ran.header
        /\ thread.report.batch = thread.report.ran.batch

running == cl.m_searchBuffer

\* As long as every compilation succeeds and no block is skipped, the kernel that
\* runs is of the period of its job and has its arguments.
KernelOfJob ==
    ~feed.skipped /\ feed.failed \notin {"build", "compile"} =>
        /\ running # None => running.kernel.period = periodOf(running.header)
        /\ thread.pc # "threw"

\* The kernel reads a DAG made for the epoch of its job, unless another job is
\* on its way or the DAG could not be made (ClSuspendedIsIdle).
ClDagOfJob ==
    running # None =>
        \/ running.dag.epoch = epochOf(running.header)
        \/ feed.job # None \/ cl.m_work = None \/ cl.m_work.header # running.header
        \/ cl.stop \/ cl.m_pauseFlags \cap {"Memory", "InitEpoch"} # {}

ClFresh == cl.m_work # None /\ ~cl.stop /\ thread.pc \notin Ended

\* The work a miner holds is the work its kernel runs on sooner or later,
\* unless it is taken away from it or is too easy for a GPU.
WorkIsLaunched ==
    ClFresh ~> \/ ~ClFresh \/ cl.m_work.easy
               \/ running # None /\ running.header = cl.m_work.header

-----------------------------------------------------------------------------
(* Expectations the code does not meet (README, Deviations).               *)

\* "Initializes miner to current (or changed) epoch" (Miner.h:472): the DAG a
\* kernel reads was generated with the light cache size of the same epoch.
DagIsOfEpoch == running # None => running.dag.light = running.dag.epoch

\* "This will prevent to exit the thread" (CLMiner.cpp:735): a miner whose DAG
\* could not be made outlives it.
SuspendedSurvives == thread.pc # "crashed"

\* "Void work if this miner is paused" (Miner.cpp:38): no kernel runs on a
\* miner whose DAG could not be made.
ClSuspendedIsIdle ==
    running # None /\ cl.m_pauseFlags \cap {"Memory", "InitEpoch"} # {} =>
        \/ cl.m_work = None \/ cl.m_work.header # running.header
        \/ cl.stop \/ feed.job # None

=============================================================================
