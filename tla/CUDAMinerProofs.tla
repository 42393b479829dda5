-------------------------- MODULE CUDAMinerProofs --------------------------
(***************************************************************************)
(* The batches of CUDAMiner::search, for any number of streams and any     *)
(* size of the nonce space: a solution is reported for the nonces that     *)
(* were searched.                                                          *)
(***************************************************************************)
EXTENDS CUDAMiner, TLAPS

Stream == 0..Streams - 1

MinerType ==
    /\ DOMAIN m = {"m_work", "m_new_work", "m_pauseFlags", "m_epochContext", "stop", "dag",
                   "m_nextProgpowPeriod", "m_kernelCompIx", "m_kernelExecIx", "m_kernel",
                   "m_compileThread", "dag_elms", "crash"}
    /\ m.m_work \in Jobs \cup {None}
    /\ m.m_epochContext \in Nat \cup {None} /\ m.dag \in Nat \cup {None}
    /\ m.m_nextProgpowPeriod \in Nat /\ m.dag_elms \in Nat \cup {None}
    /\ m.m_kernelCompIx \in 0..1 /\ m.m_kernelExecIx \in 0..1
    /\ m.m_kernel \in [0..1 -> Kernels \cup {None}]

WithWork == {"init", "short", "dag", "initialised", "period", "recover", "search", "round", "stream"}

LoopType ==
    /\ DOMAIN loop = {"pc", "w", "old_epoch", "old_period", "start", "ix", "done", "running",
                      "report"}
    /\ loop.start \in 0..BatchSpace - 1 /\ loop.ix \in Stream
    /\ loop.running \in [Stream -> Launched \cup {None}]
    /\ loop.report \in Reports \cup {None}
    /\ loop.pc \in WithWork => loop.w \in Jobs

FarmType ==
    /\ DOMAIN farm = {"scope", "job", "test", "jobs", "failures", "last", "skipped", "failed"}
    /\ farm.job \in Jobs \cup {None} /\ farm.jobs \in Nat

(* How many streams are read before stream s.                              *)
ahead(s) == IF s >= loop.ix THEN s - loop.ix ELSE s - loop.ix + Streams

(* Stream s runs the batch that is Streams - ahead(s) behind the start.    *)
Runs(s) ==
    /\ loop.running[s] # None
    /\ loop.running[s].job = loop.w.id
    /\ loop.running[s].batch = (loop.start + BatchSpace - Streams + ahead(s)) % BatchSpace

(* All the streams run before a round, and in a round those not yet read,  *)
(* and the others as well unless the search is ending.                     *)
Batches ==
    /\ loop.pc # "stream" => loop.ix = 0
    /\ loop.pc = "round" => \A s \in Stream : Runs(s)
    /\ loop.pc = "stream" => \A s \in Stream : s >= loop.ix \/ ~loop.done => Runs(s)

Types == MinerType /\ LoopType /\ FarmType

IInv == Types /\ Batches /\ ReportIsOfBatch

-----------------------------------------------------------------------------
(* The start nonce moves on by one batch and wraps around: a batch that was *)
(* o + 1 streams ahead is o ahead, and the batch just started is the last.  *)
LEMMA Wraps ==
    ASSUME NEW b \in Nat, NEW n \in Nat \ {0}, b > n, NEW x \in 0..b - 1
    PROVE  /\ \A o \in 0..n - 1 : o > 0 =>
                 (((x + 1) % b) + b - n + (o - 1)) % b = (x + b - n + o) % b
           /\ (((x + 1) % b) + b - n + (n - 1)) % b = x
           /\ (x + 1) % b \in 0..b - 1
<1>1. CASE x + 1 < b
  <2>1. (x + 1) % b = x + 1
    BY <1>1
  <2>2. (x + b) % b = x
    BY <1>1
  <2>3. x + 1 + b - n + (n - 1) = x + b
    OBVIOUS
  <2>4. \A o \in 0..n - 1 : x + 1 + b - n + (o - 1) = x + b - n + o
    OBVIOUS
  <2> QED
    BY <1>1, <2>1, <2>2, <2>3, <2>4
<1>2. CASE x + 1 = b
  <2>1. b % b = 0
    OBVIOUS
  <2>2. (0 + b - n + (n - 1)) % b = x
    BY <1>2
  <2>3. ASSUME NEW o \in 0..n - 1, o > 0
        PROVE  (0 + b - n + (o - 1)) % b = (x + b - n + o) % b
    <3> DEFINE y == b - n + (o - 1)
    <3>1. y \in Nat /\ y < b /\ x + b - n + o = y + b /\ 0 + b - n + (o - 1) = y
      BY <1>2, <2>3
    <3> HIDE DEF y
    <3>2. y % b = y
      BY <3>1
    <3>3. (y + b) % b = y
      BY <3>1
    <3> QED
      BY <3>1, <3>2, <3>3
  <2> QED
    BY <1>2, <2>1, <2>2, <2>3
<1> QED
  BY <1>1, <1>2

(* The first batches: stream s has batch s.                                 *)
LEMMA Starts ==
    ASSUME NEW b \in Nat, NEW n \in Nat \ {0}, b > n
    PROVE  /\ n % b = n
           /\ \A s \in 0..n - 1 : (n + b - n + s) % b = s
<1>1. n % b = n
  OBVIOUS
<1>2. ASSUME NEW s \in 0..n - 1 PROVE (n + b - n + s) % b = s
  <2>1. (s + b) % b = s /\ n + b - n + s = s + b
    OBVIOUS
  <2> QED
    BY <2>1
<1> QED
  BY <1>1, <1>2

(* A product that fits in 32 bits is not cut.                               *)
LEMMA Fits ==
    ASSUME Streams < Wrap
    PROVE  m_streams_batch_size = Streams
BY CudaAssumption DEF m_streams_batch_size

-----------------------------------------------------------------------------
(* Epochs and periods are numbers.                                          *)
LEMMA EpochType ==
    ASSUME NEW j \in Jobs
    PROVE  epochOf(j) \in Nat /\ periodOf(j) \in Nat /\ j.id \in Nat
<1>1. j.block \in Nat /\ j.id \in Nat
  BY CudaAssumption DEF Jobs
<1>2. \A x \in Nat : x \div EpochLength \in Nat /\ x \div 1 \in Nat
  BY CudaAssumption
<1> QED
  BY <1>1, <1>2 DEF epochOf, periodOf, kPeriodLength

(* What setEpoch makes is a job.                                            *)
LEMMA JobType ==
    ASSUME NEW n \in Nat, NEW b \in Blocks, NEW easy \in BOOLEAN
    PROVE  [id |-> n, block |-> b, easy |-> easy] \in Jobs
BY Zenon DEF Jobs

(* A miner that was just created satisfies the invariant.                   *)
LEMMA InitIInv == CudaInit => IInv
<1> SUFFICES ASSUME CudaInit PROVE IInv
  OBVIOUS
<1> USE CudaAssumption
<1>1. MinerType
  BY DEF CudaInit, NewMiner, MinerType
<1>2. LoopType /\ Batches /\ ReportIsOfBatch
  BY DEF CudaInit, Idle, LoopType, WithWork, Stream, Batches, ReportIsOfBatch
<1>3. FarmType
  BY DEF CudaInit, FarmType
<1> QED
  BY <1>1, <1>2, <1>3 DEF IInv, Types

(* The members of the miner keep their types.                               *)
LEMMA MinerStep == Types /\ [CudaNext]_cudaVars => MinerType'
<1> SUFFICES ASSUME Types, [CudaNext]_cudaVars PROVE MinerType'
  OBVIOUS
<1> USE CudaAssumption DEF Types, MinerType
<1>1. ASSUME NEW b \in Blocks, NEW easy \in BOOLEAN, setEpoch(b, easy) PROVE MinerType'
  <2>1. b \div EpochLength \in Nat
    OBVIOUS
  <2> QED
    BY <1>1, <2>1 DEF setEpoch
<1>2. CASE setWork \/ setWorkStores
  BY <1>2, ZenonT(60) DEF setWork, setWorkStores, kick_miner, FarmType
<1>3. CASE pause
  BY <1>3, ZenonT(60) DEF pause, pauseWith, kick_miner
<1>13. CASE resume
  BY <1>13 DEF resume
<1>4. CASE stop \/ destroy
  BY <1>4, ZenonT(60) DEF stop, destroy, kick_miner
<1>5. CASE asyncCompile
  BY <1>5 DEF asyncCompile
<1>6. CASE compileKernel
  <2> DEFINE new == [period |-> m.m_nextProgpowPeriod, epoch |-> m.dag_elms]
  <2>1. new \in Kernels
    BY DEF Kernels
  <2> HIDE DEF new
  <2>2. CASE m' = [m EXCEPT !.m_compileThread = "done"]
    BY <2>2
  <2>3. CASE m' = [m EXCEPT !.m_kernel[m.m_kernelCompIx] = new, !.m_kernelCompIx = 1 - @,
                            !.m_compileThread = "done"]
    <3>1. m'.m_kernel = [m.m_kernel EXCEPT ![m.m_kernelCompIx] = new]
      BY <2>3
    <3>2. m'.m_kernelCompIx = 1 - m.m_kernelCompIx
      BY <2>3
    <3> QED
      BY <2>1, <2>3, <3>1, <3>2
  <2> QED
    BY <1>6, <2>2, <2>3 DEF compileKernel, compiled, new
<1>7. CASE \/ initDevice \/ exitLoop \/ takeWork \/ epochInitialised \/ samePeriod
           \/ prime \/ round \/ streamFails
  BY <1>7 DEF initDevice, exitLoop, takeWork, epochInitialised, samePeriod, prime, round,
         streamFails
<1>8. CASE claims
  BY <1>8 DEF claims
<1>9. CASE initEpoch \/ tooLarge \/ generateDag
  <2>1. CASE initEpoch
    BY <2>1, ZenonT(60) DEF initEpoch
  <2>2. CASE tooLarge
    BY <2>2, ZenonT(60) DEF tooLarge, pauseWith, kick_miner
  <2>3. CASE generateDag
    BY <2>3, ZenonT(60) DEF generateDag, pauseWith, kick_miner
  <2> QED
    BY <1>9, <2>1, <2>2, <2>3
<1>10. CASE firstCompile \/ changePeriod \/ recover \/ recovered
  <2>1. periodOf(loop.w) \in Nat
    BY <1>10, EpochType
       DEF firstCompile, changePeriod, recover, recovered, LoopType, WithWork
  <2>2. CASE \E p \in Nat : m' = startCompile(m, p)
    BY <2>2 DEF startCompile
  <2>3. CASE m' = startCompile([m EXCEPT !.m_kernelExecIx = 1 - @], periodOf(loop.w) + 1)
    BY <2>1, <2>3 DEF startCompile
  <2> QED
    BY <1>10, <2>1, <2>2, <2>3
       DEF firstCompile, changePeriod, recover, recovered, swapKernels
<1>11. CASE stream
  BY <1>11 DEF stream
<1>12. CASE UNCHANGED cudaVars
  BY <1>12 DEF cudaVars
<1> QED
  BY <1>1, <1>2, <1>3, <1>4, <1>5, <1>6, <1>7, <1>8, <1>9, <1>10, <1>11, <1>12, <1>13
     DEF CudaNext, cudaThread

(* What is known of the farm keeps its type.                                *)
LEMMA FarmStep == Types /\ [CudaNext]_cudaVars => FarmType'
<1> SUFFICES ASSUME Types, [CudaNext]_cudaVars PROVE FarmType'
  OBVIOUS
<1> USE CudaAssumption DEF Types, FarmType
<1>1. ASSUME NEW b \in Blocks, NEW easy \in BOOLEAN, setEpoch(b, easy) PROVE FarmType'
  <2>0. farm.jobs + 1 \in Nat
    OBVIOUS
  <2> DEFINE job == [id |-> farm.jobs + 1, block |-> b, easy |-> easy]
  <2>1. job \in Jobs
    BY <2>0, JobType
  <2> HIDE DEF job
  <2>2. DOMAIN farm' = DOMAIN farm /\ farm'.jobs = farm.jobs + 1 /\ farm'.job = job
    BY <1>1 DEF setEpoch, job
  <2> QED
    BY <2>0, <2>1, <2>2
<1>2. CASE setWork \/ setWorkStores
  BY <1>2 DEF setWork, setWorkStores
<1>3. CASE compileKernel \/ initDevice \/ generateDag
  BY <1>3 DEF compileKernel, initDevice, generateDag
<1>4. CASE recover
  BY <1>4 DEF recover
<1>5. CASE UNCHANGED farm
  BY <1>5
<1> QED
  BY <1>1, <1>2, <1>3, <1>4, <1>5
     DEF CudaNext, cudaThread, cudaVars, pause, resume, stop, destroy, asyncCompile, exitLoop,
         claims, takeWork, initEpoch, tooLarge, epochInitialised, samePeriod, firstCompile,
         changePeriod, recovered, swapKernels, prime, round, stream, streamFails

(* What launch() starts for the job of the loop can be started.             *)
LEMMA LaunchType ==
    ASSUME Types, loop.w \in Jobs, NEW batch \in Nat
    PROVE  [job |-> loop.w.id, batch |-> batch, dag |-> m.dag,
            kernel |-> m.m_kernel[m.m_kernelExecIx]] \in Launched \ {None}
<1>1. loop.w.id \in Nat
  BY EpochType
<1>2. m.dag \in Nat \cup {None} /\ m.m_kernel[m.m_kernelExecIx] \in Kernels \cup {None}
  BY DEF Types, MinerType
<1> QED
  BY <1>1, <1>2, CudaAssumption DEF Launched

-----------------------------------------------------------------------------
(* search() starts stream s on batch s.                                     *)
LEMMA PrimeStep == IInv /\ prime => (LoopType /\ Batches /\ ReportIsOfBatch)'
<1> SUFFICES ASSUME IInv, prime PROVE (LoopType /\ Batches /\ ReportIsOfBatch)'
  OBVIOUS
<1> USE CudaAssumption
<1>1. LoopType /\ loop.pc = "search" /\ loop.w \in Jobs /\ loop.ix = 0 /\ ReportIsOfBatch
  BY DEF prime, IInv, Types, LoopType, WithWork, Batches
<1>2. CASE loop.w.easy
  <2>1. loop' = [loop EXCEPT !.pc = "wait"]
    BY <1>2 DEF prime
  <2> QED
    BY <1>1, <2>1 DEF LoopType, Batches, ReportIsOfBatch, WithWork
<1>4. CASE ~loop.w.easy /\ m.m_kernel[m.m_kernelExecIx] = None
  <2>1. loop' = [loop EXCEPT !.pc = "threw"]
    BY <1>4 DEF prime
  <2> QED
    BY <1>1, <2>1 DEF LoopType, Batches, ReportIsOfBatch, WithWork
<1>3. CASE ~loop.w.easy /\ m.m_kernel[m.m_kernelExecIx] # None
  <2> DEFINE first(s) == [job |-> loop.w.id, batch |-> s, dag |-> m.dag,
                          kernel |-> m.m_kernel[m.m_kernelExecIx]]
  <2>1. \A s \in Stream : first(s) \in Launched \ {None}
    BY <1>1, LaunchType DEF IInv, Stream
  <2>2. DOMAIN loop.running = Stream
    BY <1>1 DEF LoopType
  <2>3. \A s \in Stream : launch(loop, s, s).running[s] = first(s)
    BY <1>1, <2>2 DEF launch, LoopType
  <2>4. loop' = [loop EXCEPT !.pc = "round", !.start = Streams,
                             !.running = [s \in Stream |-> first(s)]]
    BY <1>3, <2>2, <2>3, Starts, ZenonT(60) DEF prime
  <2>5. \A s \in Stream : first(s).job = loop.w.id /\ first(s).batch = s
    OBVIOUS
  <2> HIDE DEF first
  <2>6. /\ DOMAIN loop' = DOMAIN loop
        /\ loop'.pc = "round" /\ loop'.start = Streams /\ loop'.w = loop.w /\ loop'.ix = 0
        /\ loop'.running = [s \in Stream |-> first(s)] /\ loop'.report = loop.report
    BY <1>1, <2>4 DEF LoopType
  <2>7. LoopType'
    BY <1>1, <2>1, <2>6 DEF LoopType, Stream, WithWork
  <2>8. \A s \in Stream : Runs(s)'
    <3> SUFFICES ASSUME NEW s \in Stream PROVE Runs(s)'
      OBVIOUS
    <3>1. loop'.running[s] = first(s) /\ first(s) # None
      BY <2>1, <2>6
    <3>2. ahead(s)' = s
      BY <2>6 DEF ahead, Stream
    <3>3. (Streams + BatchSpace - Streams + s) % BatchSpace = s
      BY Starts DEF Stream
    <3> QED
      BY <2>5, <2>6, <3>1, <3>2, <3>3 DEF Runs
  <2> QED
    BY <1>1, <2>6, <2>7, <2>8 DEF Batches, ReportIsOfBatch
<1> QED
  BY <1>2, <1>3, <1>4

(* A new round begins with all streams running.                             *)
LEMMA RoundStep == IInv /\ round => (LoopType /\ Batches /\ ReportIsOfBatch)'
<1> SUFFICES ASSUME IInv, round PROVE (LoopType /\ Batches /\ ReportIsOfBatch)'
  OBVIOUS
<1>1. /\ LoopType /\ loop.pc = "round" /\ loop.ix = 0 /\ loop.w \in Jobs
      /\ \A s \in Stream : Runs(s)
  BY DEF round, IInv, Types, LoopType, WithWork, Batches
<1>2. /\ DOMAIN loop' = DOMAIN loop
      /\ loop'.pc = "stream" /\ loop'.start = loop.start /\ loop'.w = loop.w /\ loop'.ix = 0
      /\ loop'.running = loop.running /\ loop'.report = None
  BY <1>1 DEF round, nextRound, LoopType
<1>3. LoopType'
  BY <1>1, <1>2 DEF LoopType
<1>4. \A s \in Stream : Runs(s)'
  BY <1>1, <1>2 DEF Runs, ahead
<1> QED
  BY <1>2, <1>3, <1>4 DEF Batches, ReportIsOfBatch

(* The stream that is read has run the batch the report names; it goes on  *)
(* with the start nonce and is read after all the others.                   *)
LEMMA StreamStep ==
    ASSUME Streams < Wrap
    PROVE  IInv /\ stream => (LoopType /\ Batches /\ ReportIsOfBatch)'
<1> SUFFICES ASSUME IInv, stream PROVE (LoopType /\ Batches /\ ReportIsOfBatch)'
  OBVIOUS
<1> USE CudaAssumption
<1>1. /\ LoopType /\ loop.pc = "stream" /\ loop.w \in Jobs /\ loop.w.id \in Nat
      /\ \A s \in Stream : s >= loop.ix \/ ~loop.done => Runs(s)
  BY EpochType DEF stream, IInv, Types, LoopType, WithWork, Batches
<1> DEFINE done == loop.done \/ m.stop
           last == loop.ix = Streams - 1
           next == [job |-> loop.w.id, batch |-> loop.start, dag |-> m.dag,
                    kernel |-> m.m_kernel[m.m_kernelExecIx]]
           rep == [job |-> loop.w.id, batch |-> reportedBatch(loop),
                   ran |-> loop.running[loop.ix]]
<1>2. PICK found \in BOOLEAN :
        loop' = [relaunch(loop, done) EXCEPT !.done = done,
                  !.start = (@ + 1) % BatchSpace,
                  !.ix = IF last THEN 0 ELSE @ + 1,
                  !.pc = IF ~last THEN "stream" ELSE IF done THEN "wait" ELSE "round",
                  !.report = IF found THEN rep ELSE None]
  BY DEF stream
<1>3. next \in Launched \ {None} /\ next.job = loop.w.id /\ next.batch = loop.start
  BY <1>1, LaunchType DEF IInv, LoopType
<1>4. /\ Runs(loop.ix)
      /\ rep \in Reports /\ rep.job = loop.w.id /\ rep.batch = reportedBatch(loop)
      /\ rep.ran = loop.running[loop.ix]
      /\ reportedBatch(loop) = loop.running[loop.ix].batch
  <2>1. Runs(loop.ix) /\ loop.ix \in Stream /\ ahead(loop.ix) = 0
    BY <1>1 DEF LoopType, Stream, ahead
  <2>2. loop.running[loop.ix] \in Launched \cup {None}
    BY <1>1, <2>1 DEF LoopType
  <2>3. reportedBatch(loop) \in Nat
    BY <1>1, Fits DEF reportedBatch, LoopType
  <2>4. reportedBatch(loop) = loop.running[loop.ix].batch
    BY <1>1, <2>1, Fits DEF reportedBatch, Runs, LoopType, Stream
  <2> QED
    BY <1>1, <2>1, <2>2, <2>3, <2>4 DEF Reports
<1> HIDE DEF next, rep
<1>5. /\ DOMAIN loop' = DOMAIN loop
      /\ loop'.start = (loop.start + 1) % BatchSpace
      /\ loop'.ix = IF last THEN 0 ELSE loop.ix + 1
      /\ loop'.pc = IF ~last THEN "stream" ELSE IF done THEN "wait" ELSE "round"
      /\ loop'.done = done
      /\ loop'.w = loop.w
      /\ loop'.running = [loop.running EXCEPT ![loop.ix] = IF done THEN None ELSE next]
      /\ loop'.report = IF found THEN rep ELSE None
  BY <1>1, <1>2 DEF relaunch, launch, next, LoopType
<1> HIDE DEF done
<1>6. /\ (loop.start + 1) % BatchSpace \in 0..BatchSpace - 1
      /\ (((loop.start + 1) % BatchSpace) + BatchSpace - Streams + (Streams - 1)) % BatchSpace
           = loop.start
      /\ \A o \in Stream : o > 0 =>
           (((loop.start + 1) % BatchSpace) + BatchSpace - Streams + (o - 1)) % BatchSpace
             = (loop.start + BatchSpace - Streams + o) % BatchSpace
  <2>1. /\ loop.start \in 0..BatchSpace - 1
        /\ BatchSpace \in Nat /\ Streams \in Nat \ {0} /\ BatchSpace > Streams
    BY <1>1 DEF LoopType
  <2> QED
    BY ONLY <2>1, Wraps, ZenonT(60) DEF Stream
<1>7. LoopType'
  <2>1. loop'.running \in [Stream -> Launched \cup {None}]
    BY <1>1, <1>3, <1>5 DEF LoopType
  <2>2. loop'.ix \in Stream
    BY <1>1, <1>5 DEF LoopType, Stream
  <2> QED
    BY <1>1, <1>4, <1>5, <1>6, <2>1, <2>2 DEF LoopType
<1>8. ReportIsOfBatch'
  BY <1>1, <1>4, <1>5 DEF ReportIsOfBatch, Runs
<1>9. ASSUME NEW s \in Stream, s # loop.ix, Runs(s)
      PROVE  Runs(s)'
  <2>1. ahead(s) \in Stream /\ ahead(s) > 0 /\ ahead(s)' = ahead(s) - 1
    <3>1. loop.ix \in 0..Streams - 1 /\ s \in 0..Streams - 1 /\ s # loop.ix
      BY <1>1, <1>9 DEF LoopType, Stream
    <3>2. loop'.ix = IF last THEN 0 ELSE loop.ix + 1
      BY <1>5
    <3>3. ahead(s) \in Stream /\ ahead(s) > 0
      BY <3>1 DEF ahead, Stream
    <3>4. ahead(s)' = IF s >= loop'.ix THEN s - loop'.ix ELSE s - loop'.ix + Streams
      BY DEF ahead
    <3> QED
      BY <3>1, <3>2, <3>3, <3>4 DEF ahead
  <2>2. loop'.running[s] = loop.running[s]
    BY <1>1, <1>5, <1>9 DEF LoopType
  <2>3. (((loop.start + 1) % BatchSpace) + BatchSpace - Streams + (ahead(s) - 1)) % BatchSpace
           = (loop.start + BatchSpace - Streams + ahead(s)) % BatchSpace
    BY <1>6, <2>1
  <2> QED
    BY <1>5, <1>9, <2>1, <2>2, <2>3 DEF Runs
<1>10. ASSUME NEW s \in Stream, s = loop.ix, ~done
       PROVE  Runs(s)'
  <2>1. ahead(s)' = Streams - 1
    BY <1>5, <1>10 DEF ahead, Stream
  <2>2. loop'.running[s] = next
    BY <1>1, <1>5, <1>10 DEF LoopType
  <2> QED
    BY <1>3, <1>5, <1>6, <2>1, <2>2 DEF Runs
<1>11. Batches'
  <2>1. ASSUME NEW s \in Stream, s # loop.ix, s > loop.ix \/ ~done
        PROVE  Runs(s)'
    BY <1>1, <1>9, <2>1 DEF done, LoopType, Stream
  <2>2. CASE last
    BY <1>5, <1>10, <2>1, <2>2 DEF Batches
  <2>3. CASE ~last
    BY <1>1, <1>5, <1>10, <2>1, <2>3 DEF Batches, LoopType, Stream
  <2> QED
    BY <2>2, <2>3
<1> QED
  BY <1>7, <1>8, <1>11

(* A thread that an exception ends reports nothing.                         *)
LEMMA StreamFailsStep == IInv /\ streamFails => (LoopType /\ Batches /\ ReportIsOfBatch)'
<1> SUFFICES ASSUME IInv, streamFails PROVE (LoopType /\ Batches /\ ReportIsOfBatch)'
  OBVIOUS
<1>1. LoopType /\ loop' = [loop EXCEPT !.pc = "threw", !.ix = 0, !.report = None]
  BY DEF streamFails, IInv, Types
<1> QED
  BY <1>1, CudaAssumption DEF LoopType, Batches, ReportIsOfBatch, WithWork, Stream

(* Outside search() no batch is started and nothing is reported.            *)
LEMMA LoopStep ==
    ASSUME IInv,
           \/ initDevice \/ exitLoop \/ claims \/ takeWork \/ initEpoch
           \/ tooLarge \/ generateDag \/ epochInitialised
           \/ samePeriod \/ changePeriod \/ recover \/ recovered \/ destroy
    PROVE  (LoopType /\ Batches /\ ReportIsOfBatch)'
<1>1. LoopType /\ MinerType /\ ReportIsOfBatch /\ (loop.pc # "stream" => loop.ix = 0)
  BY DEF IInv, Types, Batches
<1>2. loop' = loop \/ (loop.pc # "stream" /\ loop.pc # "round"
                      /\ loop'.pc # "stream" /\ loop'.pc # "round")
  BY <1>1, ZenonT(60) DEF initDevice, exitLoop, claims, takeWork, initEpoch, tooLarge, generateDag,
         epochInitialised, samePeriod,
         changePeriod, recover, recovered, destroy, ended, swapKernels, LoopType
<1>3. /\ DOMAIN loop' = DOMAIN loop /\ loop'.start = loop.start /\ loop'.ix = loop.ix
      /\ loop'.running = loop.running /\ loop'.report = loop.report
  BY <1>1, ZenonT(60) DEF initDevice, exitLoop, claims, takeWork, initEpoch, tooLarge, generateDag,
         epochInitialised, samePeriod,
         changePeriod, recover, recovered, destroy, ended, swapKernels, LoopType
<1>4. loop'.pc \in WithWork => loop'.w \in Jobs
  <2>1. CASE takeWork
    BY <1>1, <2>1 DEF takeWork, LoopType, MinerType, WithWork
  <2>2. CASE ~takeWork
    <3>1. loop'.w = loop.w /\ (loop'.pc \in WithWork => loop.pc \in WithWork)
      BY <1>1, <2>2, ZenonT(60) DEF initDevice, exitLoop, claims, initEpoch, tooLarge, generateDag,
         epochInitialised, samePeriod,
         changePeriod, recover, recovered, destroy, ended, swapKernels, LoopType, WithWork
    <3> QED
      BY <1>1, <3>1 DEF LoopType
  <2> QED
    BY <2>1, <2>2
<1>5. LoopType'
  BY <1>1, <1>3, <1>4 DEF LoopType
<1>6. ReportIsOfBatch'
  BY <1>1, <1>3 DEF ReportIsOfBatch
<1>7. Batches'
  <2>1. CASE loop' = loop
    BY <2>1 DEF IInv, Batches, Runs, ahead
  <2>2. CASE loop' # loop
    BY <1>1, <1>2, <1>3, <2>2 DEF Batches
  <2> QED
    BY <2>1, <2>2
<1> QED
  BY <1>5, <1>6, <1>7

(* Every step keeps the invariant.                                          *)
LEMMA IInvStep ==
    ASSUME Streams < Wrap
    PROVE  IInv /\ [CudaNext]_cudaVars => IInv'
<1> SUFFICES ASSUME IInv, [CudaNext]_cudaVars PROVE IInv'
  OBVIOUS
<1>1. MinerType' /\ FarmType'
  BY MinerStep, FarmStep DEF IInv
<1>2. CASE prime \/ round \/ stream \/ streamFails
  BY <1>1, <1>2, PrimeStep, RoundStep, StreamStep, StreamFailsStep DEF IInv, Types
<1>3. CASE \/ initDevice \/ exitLoop \/ claims \/ takeWork \/ initEpoch
           \/ tooLarge \/ generateDag \/ epochInitialised
           \/ samePeriod \/ changePeriod \/ recover \/ recovered \/ destroy
  BY <1>1, <1>3, LoopStep DEF IInv, Types
<1>4. CASE UNCHANGED loop
  BY <1>1, <1>4 DEF IInv, Types, LoopType, Batches, Runs, ahead, ReportIsOfBatch
<1> QED
  BY <1>2, <1>3, <1>4
     DEF CudaNext, cudaThread, cudaVars, setEpoch, setWork, setWorkStores, pause, resume, stop,
         asyncCompile, compileKernel, firstCompile

-----------------------------------------------------------------------------
(* Whatever the number of streams and the size of the nonce space, and      *)
(* whenever the search is interrupted: the nonce a solution is reported     *)
(* with is of the batch its stream ran, for the job it ran it for, as long  *)
(* as the nonces of all streams together are counted in 32 bits.            *)
THEOREM ReportIsOfBatchHolds ==
    ASSUME Streams < Wrap
    PROVE  CudaSpec => []ReportIsOfBatch
<1>1. IInv => ReportIsOfBatch
  BY DEF IInv
<1>2. IInv /\ [CudaNext]_cudaVars => IInv'
  BY IInvStep
<1> QED
  BY <1>1, <1>2, InitIInv, PTL DEF CudaSpec

=============================================================================
