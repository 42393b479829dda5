# A verification project for firominer

TLA+ models of firominer, the TLC runs that check them on small instances, and
TLAPS proofs of the main invariants for every value of the constants. All models
are translated from the C++ source; `PROJECT.json` maps every definition to the
lines it stands for. Paths below are relative to `src/`.

## The system

firominer connects to a mining pool, receives jobs, lets one thread per device
search for solutions, and submits them. Its parts:

| Part | Source | Runs on | State it owns |
|---|---|---|---|
| `MinerCLI`, signals | `firominer/main.cpp` | main thread, signal context | options, device collection, `g_running` |
| `PoolManager` | `libpoolprotocols/PoolManager.*` | io thread; `start()`, `stop()` on the main thread | connection list, active index, attempts, two timers, `p_client` |
| `EthStratumClient`, `EthGetworkClient`, `SimulateClient` | `libpoolprotocols/{stratum,getwork,testing}` | io thread (the simulation has a thread of its own) | session, sockets, queues, timers |
| `URI` | `libpoolprotocols/PoolURI.*` | io thread | the parsed address, detected stratum mode, "unrecoverable" |
| `Farm` | `libethcore/Farm.*` | io thread, callbacks from miners | the miners, current work, nonce segments, telemetry, monitors |
| `Miner`, `CPUMiner`, `CUDAMiner`, `CLMiner` | `libethcore/Miner.*`, `libethash-*` | one thread per device, one more that compiles kernels | current job, pause reasons, new-work flag, DAG, kernels |
| `Worker` | `libdevcore/Worker.*` | any thread | the state of one thread |
| `ApiServer` | `libapicore/ApiServer.*` | io thread and an accept thread | sessions |
| hashing | `libcrypto`, the kernels | callers, devices | the shared epoch context |
| monitors | `libhwmon` | io thread | handles of the vendor libraries |

How they interact: `main()` creates one `io_service` with **one** thread. All
network completions, timers and API requests are handlers on that thread, in
order. `PoolManager` owns one client at a time. The client calls
`m_onConnected`, `m_onDisconnected` and `m_onWorkReceived`; these start, pause and
feed `Farm`, which passes jobs to the miners. A miner's thread polls a flag,
searches, and posts solutions back. The main thread sleeps until a signal and
then runs `PoolManager::stop()` **beside** the io thread.

## Modules

| Module | Models | Checked by | Proved in |
|---|---|---|---|
| `Worker` | `dev::Worker` | `MCWorker` | `WorkerProofs` |
| `PoolClient` | the client its owner relies on, and the mutable part of `URI` | with `PoolManager`; implemented by `StratumClient` | |
| `PoolManager` | `PoolManager` with `PoolClient`, the on/off side of `Farm`, `doMiner()` and signals | `MCPoolManager` | `PoolManagerProofs` |
| `StratumClient` | `EthStratumClient` | `MCStratumClient` | |
| `GetworkClient`, `SimulateClient`, `ApiServer` | the classes of these names | `MCNetwork` | |
| `Farm` | `Farm` and `Miner` with several miners | `MCFarm` | |
| `CPUMiner` | `Miner` and `CPUMiner`: job, pause and stop on their way to the thread | `MCCPUMiner` | `CPUMinerProofs` |
| `CUDAMiner`, `CLMiner` | the GPU miners with their compile threads | `MCGpu` | `CUDAMinerProofs` |
| `Words`, `ProgPow`, `Dag`, `Keccak` | the hash, on the host and in the kernels | `MCHashing` | |
| `EpochNumbers`, `EpochContext` | sizes and seeds of epochs, the cache of contexts | `MCHashing` | `EpochNumbersProofs`, `EpochContextProofs` |
| `Devices`, `CommandLine` | enumeration, subscription, options | `MCStartup` | |
| `Hwmon` | monitors and thermal control | `MCStartup` | |
| `PoolURI`, `Targets` | the address parser, 256-bit targets | `MCStartup` | |

An `MC` module with several parts has a variable (`family`, `device`) that says
which part a behaviour is about; the state of the others stays as it is.

**Worker.** State: the atomic `m_state`, the pointer `m_work`, the mutex `x_work`,
a place `pc` for every caller and a place `thread`. One action per access to
`m_state`: the two exchanges at the end of the loop are two steps, because the
destructor's `Killing` may fall between them. `compare_exchange_weak` does not
fail spuriously: the supported builds are for x86-64.

**PoolClient and PoolManager.** `PoolClient` has seven states, from `none` to
`down`. `queue` of `PoolManager` holds the handlers posted to the `io_service`. A
timer has two steps: it fires, which queues its handler, and the handler runs;
`cancel()` only reaches a timer that has not fired. A client step that ends in
`down` performs the whole of `m_onDisconnected`. `stop()` is split where the io
thread can interleave, so that the client may connect after the test that sends
`stop()` into its else branch. A method called on a client without `m_conn`, or
`disconnect()` from the main thread on a client that is connecting, may set
`crashed`. `wanted` and `reply` are history variables.

**StratumClient.** `c` is the object with its part of asio: the FIFO queue of
ready handlers and the operations in flight. Closing a socket completes its
operations with an error, which only queues handlers; what was queued before still
runs first. Member functions are operators from the object before to the object
after, so a handler is one step with all its calls. `pool` is a pool that follows
the protocol: it answers what it was asked, sends notifications after the login,
and may hang up at any time. Time is what the timer compares (a plea is overdue,
work is late). The owner's hash rate timer is part of `c`, because one that fired
just before the disconnection outlives it. The owner may connect again after any
disconnection, its own `stop()` included. `Abstract` maps the flags, `m_conn` and the session to the states
of `PoolClient`; `ImplementsPoolClient` is the abstract specification.

**GetworkClient** has the same shape; every request is an exchange of its own
(connect, write, read to the end), and the node may fall silent. **SimulateClient** has the thread of the base
class `Worker` beside its owner. **ApiServer** has the main thread, the thread of
the first accept and the io thread; a request is its method, whether envelope and
parameters are sound, and whether the miner agrees to it. The object of a
connection goes when it leaves `m_sessions`; the handlers of its operations in
flight come after that (`late`).

**Farm.** `miner` holds what `Miner` and the common part of the work loops keep:
flags, job, epoch context, the DAG loaded and the turn in the sequential load.
`collectData`, `restart`, `pause` and the API methods are one action each;
`setWork` goes from miner to miner, with a step for the epoch, the test of
`paused()` and the store of each, and `stop()` waits for the threads in a step of
its own. Nonces have `Bits` bits
and digits `Digit` bits. `Scopes` bounds which kinds of events one behaviour has.

**CPUMiner, CUDAMiner, CLMiner.** The job and the flag `m_new_work` are shared;
every access is a step. `setWork()` tests `paused()` in one step and stores in
another: it holds `x_work`, which `pause()` does not take. In the CPU model a job
copied while `pause()` clears it may be torn, and so may one that is stored and
cleared at the same time. The CUDA model has the two kernel slots with the index that is compiled
and the one that is executed, and the batches of the streams: nonces are counted
in batches modulo `BatchSpace`, and the 32-bit product `m_streams_batch_size` is
taken modulo `Wrap`, the batches in 2^32 nonces. The OpenCL model has the rounds of
its loop, the header and the arguments set on the device, the result buffer of the
round before and the DAG with the sizes it was generated with. In both, the check
of the memory, the pause and the generation of the DAG are steps of their own, a
failure leaves the miner without a DAG or with the one before, and an exception
ends the thread.

**Hashing.** `Keccak` has the permutations at their real widths, a lane being the
set of its bits, with each implementation's own tables, beside the definition of
Keccak-f. `ProgPow` interprets the program that `getKern()` generates, as the two
devices execute it, beside `round()` of the host, one instruction a step, with
words of 8 bits and 8 registers; the permutation is a parameter there. `Dag` has the
launches, guards and quads of both DAG kernels beside the host. `EpochContext` has
the steps of threads through `get_epoch_context()` and the lazy lookups, in which
an item of the dataset is stored in two parts: the word that is tested, and the
others.

**Start of the program.** `CommandLine` runs from arguments to an exit code or to
mining; `Devices` merges what CUDA, OpenCL and the processor report into one
collection; `Hwmon` builds the maps from PCI ids to sensors as the three wrappers
do and runs the thermal control. `PoolURI` parses texts that are sequences of
tokens. `Targets` has bytes of two bits. What NVML, ADL, sysfs and the OpenCL
platforms report about a card is external: a machine is a record of the cards and
of the order in which each library lists them.

## Runs

| Run | Instance | States | Shows |
|---|---|---|---|
| `worker` | 2 callers | 262 | a stop is final; `Killing` is not lost; every call that waits returns |
| `pool_list` | 3 pools: one unreachable, one with TLS and autodetected, one `exit` entry; 2 retries, failover timeout, hash rate reports | 4,059,971 | index within the list; the client works for the active entry and is idle when it is replaced; a session means running miners; the timers that are due are armed |
| `pool_live` | 2 pools of known mode, one reachable; with fairness | 29,505 | a selection is honoured; a live pool is found; `stop()` returns |
| `cpu_miner` | 3 jobs (one unsupported), 2 pause reasons; with fairness | 30,290 | no job overlooked; no search outlives its job; of the jobs that arrive during a pause at most one gets through; a job that stays is searched |
| `stratum` | a plain pool that is autodetected, a TLS pool with 2 endpoints | 3,876,977 | session and endpoint are there when used; one read and one write in flight; nothing stalls; jobs carry the current extranonce; the client implements `PoolClient` |
| `farm` | 2 miners, 3 jobs of 2 epochs, 5-bit nonces | 3,846,631 | disjoint nonce segments; no mining without a pool; DAG of the epoch while epochs go forward; accounts add up over restarts |
| `network` | getwork: 2 endpoints, 2 miners, 2 templates; simulation: 3 solutions; API: 2 sessions | 197,812 | polling goes on; solutions counted once; sessions tracked and answered once; writes only for those who may; the liveness of all three |
| `gpu` | CUDA: 2 streams, 3 batches; OpenCL; blocks 3 to 6 in periods and epochs, the last epoch too large for the memory | 686,070 | reports name the batch and the job they are of; kernels run on their job's data; work is mined |
| `hashing` | Keccak at full width, ProgPoW with 8-bit words, 3 threads over 2 epochs | 161,264 | permutations as defined; host and devices agree; DAG complete below the limit; sizes and seeds right; context as asked |
| `startup` | 4 machines, a grammar of arguments and of addresses, compact sizes 0 to 38 | 106,697 | prepared before mining; address conveyed; targets exact; heat of its own card |
| `hwmon_hex` | 2 AMD cards on buses 0a and 10 | violated | see Deviations |
| `dag_4g` | sizes around the limit of `unsigned` | violated | see Deviations |

Every property of a passing run has a mutant in `PROJECT.json`: a plausible wrong
version of one mapped definition, which violates it. The type invariants (`TypeOK`,
`NetTypeOK`) hold on the same instances and are left out of the runs; that of
`Worker` is proved.

### Bounds

- *Callers = 2.* `x_work` serialises the member functions, so a third caller only
  waits; the proofs cover any number.
- *Pools.* Two are enough for rotation and failover; the third is added and
  removed through the API, below and above the active index.
- *MaxRetries = 2* is the least number for which a connection is tried again
  before it gives way. The option also accepts 0, which its help text excludes;
  `SelectionHonoured` fails for it.
- *MaxBacklog*: handlers of one kind waiting in the queue. With 1 (pools) or 2
  (stratum) an old handler and a newly armed timer still coexist. *MaxPleas = 1*:
  one request of the session that awaits its answer is enough to time out. The TLS
  pool has a known mode: TLS with autodetection is not in the stratum instance.
- *Farm.* Two miners have two segments to keep apart. The three jobs have no
  extranonce, one of a digit, and the next epoch. Two starts have one restart
  between them. Events come in six scopes, so that not all kinds of event meet in
  one behaviour: what is not covered is an interaction of events of different
  scopes, such as a change of the width by the API while the simulation feeds the
  farm. With two miners the logarithm of the segment width is exact.
- *Network.* Two endpoints have one to fail over to; a queue of 3 holds a poll, a
  solution and a hash rate. One read of an API session carries up to two requests.
- *GPU.* Blocks 3 to 6 have a period that follows, one that is skipped and epochs
  that change, the last one to a DAG that does not fit. `BatchSpace = 3` with two
  streams makes nonces wrap around, `Wrap = 3` keeps their product exact. A
  behaviour has 2 jobs and at most one failure.
- *Hashing.* The widths of words, lanes and registers are parameters of the source
  too (`PROGPOW_*`) except the 32-bit word, which is 8 bits here. 24 periods are
  sampled for the program. Sponge inputs have sizes around the edges of a block,
  prime bounds run from 0 to 120.
- *Startup.* Bytes of a target have two bits, so that sizes below, at and beyond
  the width of the number occur. Temperatures are those next to the thresholds.
  The machines other than that of `hwmon_hex` have two-digit buses too.

### Fairness

- Worker: the operating system runs the thread and the callers that wait. No
  call is owed, and no fairness is assumed of the mutex. `workLoop()` polls
  `shouldStop()`, so it returns.
- PoolManager: the io thread runs posted handlers and the main thread runs (weak
  fairness). TCP and the client's own timeouts end every attempt. About pools,
  strong fairness: one that is reachable and tried again and again connects, and
  accepts a login, in the end. This is a hypothesis about the environment;
  `FindsLivePool` could not hold without it. No timer, signal or API request is
  owed.
- CPUMiner: both threads run (weak fairness). Finding a solution is never owed.
- GetworkClient: handlers, completions and the armed timer (weak fairness).
  SimulateClient: its thread and the calls its owner has begun. ApiServer: the
  start, its thread, accepts, handlers and completed writes. No request is owed.
- GPU: the mining thread, the compile thread and the second half of a `setWork()`
  that has begun (weak fairness). Kernels terminate.
- Stratum, farm, hashing and startup are checked for safety. The refinement of
  `PoolClient` is that of its safety part: whether a pool answers is not the
  client's to decide, and `NothingStalls` states as an invariant that whatever is
  waited for is under way. `MCFarmStop` has weak fairness of threads and `stop()`.

## Proofs

`TLAPS` checks these for all values of the constants.

- `WorkerProofs`, for any set of callers, from `None \notin Callers`: `TypeOK`,
  `StopIsFinal`, `KillingIsNotLost`. The invariant adds who may hold the mutex
  (`CallersInv`), which values of `m_state` each place of the thread can meet
  (`ThreadInv`), and that Starting and Killing are in `m_state` only while their
  caller waits (`HandshakeInv`). The last is the heart of the argument: the thread
  may overwrite `m_state` blindly because the caller that holds the mutex lets no
  second order in.
- `PoolManagerProofs`, for any pools, configuration and retries: `ActiveInBounds`.
  The strengthening is that a list that became empty leaves index 0, which
  `addConnection()` needs. Lemmas describe `erase` and what `rotateConnect()`
  settles on.
- `CPUMinerProofs`, for any jobs and reasons: `NoLostWork`, `StaleSearchEnds`,
  `PausedMinerStops`. The strengthening (`PausedHasNoWork`) is that a paused miner
  has no job unless one got through, and that no second one is about to; a search
  during a pause is then a stale search, whose interruption is pending. `RaceInv`
  says which of the two overlapping writes of the header is still under way.
- `CUDAMinerProofs`, for any number of streams and any size of the nonce space,
  under the hypothesis `Streams < Wrap` that the 32-bit product of grid, block and
  streams does not overflow: `ReportIsOfBatch`, the CUDA half of `ReportIsOfWork`. `search()` computes the
  nonce it reports from the start nonce of now. The invariant (`Batches`) says
  that stream `s` runs the batch that lies `Streams - ahead(s)` behind the start:
  all streams before a round, those not yet read during one, and the others too
  unless the search ends. `Wraps` is the modular arithmetic this rests on. The
  documented limits of the options imply the hypothesis; see Deviations.
- `EpochContextProofs`, for any threads, epochs and items: `ContextAsked`, one
  builder at a time, `PartialHasWriter` (an item of the full dataset that has only
  its first word has a thread that is storing the others) and `TornOnlyWhileStored`
  (a lookup returns a torn item only while another thread stores that item). The
  invariant says what a thread holds at each point between its test of the shared
  pointer and its return, and that of contexts to come nothing is stored
  (`Built`), so that the lock-free test of the first word is of this dataset.
- `EpochNumbersProofs`, for any number of tries: what `calculate_epoch_from_seed()`
  returns is the epoch of the seed, although the cache it starts from is whatever
  the last call left. The invariant (`CacheFits`) is that the cached epoch and
  seed belong together.

`PartialHasWriter` and `TornOnlyWhileStored` answer "Copy elision here makes it
thread-safe?" (`ethash.cpp:130`): not for the first lookups of an item. They hold on
the instance of `hashing` too, where no run lists them.

Model-checked only: every liveness property and the refinement (fairness and
temporal existence are beyond the prover, and the step simulation of `PoolClient`
by `StratumClient` would follow each of its handlers), the other pool properties,
`SegmentsDisjoint` (logarithms of the width) and what the recursive algorithms
compute (Keccak, ProgPoW, DAG, compact targets, the URI parser).

## Deviations

Where the code does not do what its comments, help or documentation say. The
first two are the runs `hwmon_hex` and `dag_4g`. The others have a configuration
that shows the counterexample (`tlc -config <cfg> <module>`), or a definition that
does when it is added to the configuration named.

| Definition | Shown by | What happens |
|---|---|---|
| `HeatHwmonOfDevice` | `MCStartupHex.cfg` | the hexadecimal `PCI_SLOT_NAME` is parsed as decimal, and a miner reads the sensors of another card |
| `DagComplete` | `MCHashingDag4G.cfg` | the OpenCL kernel gets the size of the DAG modulo 2^32 and generates only that part |
| `StartTakesEffect` | `MCWorkerLostStart.cfg` | `startWorking()` after `triggerStopWorking()`, before the thread has stopped, does nothing |
| `SelectionHonoured` | `MCPoolManagerSelect.cfg` | a failover timeout during the TLS shutdown replaces the selected pool by the primary one |
| `StopReturns` | `MCPoolManagerStop.cfg` | `stop()` during autodetection waits as long as the session that follows lasts |
| `TimersStopped` | in `MCPoolManager.cfg` | an expired failover handler runs after the disconnection, on a client whose connection is unset |
| `ErrorChangesNothing` | in `MCPoolManager.cfg` | selection by URI succeeds and is answered "Not found." |
| `StoppedIsQuiet` | in `MCPoolManager.cfg` | the client connects after `stop()` has found it unconnected: the process ends with a session and running miners |
| `SignalEndsWait` | in `MCPoolManagerLive.cfg` | a signal between the test of `g_running` and the wait is not noticed |
| `StopCompletes` | `MCCPUMinerStop.cfg` | the kick of a stop is taken for a new job and the search runs on |
| `PauseObeyed` | in `MCCPUMiner.cfg` | a job that `setWork()` was storing when the pause began is searched during the pause |
| `LateDataIgnored` | `MCStratumClientLate.cfg` | data that was received before a disconnection is processed after it |
| `SubscribedNonceUsed` | in `MCStratumClient.cfg` | a job of mode 2 is searched without the extranonce that the answer to the subscription told, which mode 0 sets at once (`EthStratumClient.cpp:1023`) |
| `HashrateOfSession` | in `MCStratumClient.cfg` | a hash rate timer that outlived its connection reports before there is a session, and mode 3 reads the null pointer |
| `StopReturns` (Farm) | `MCFarmStop.cfg` | a miner that waits for its turn to load the DAG waits for one that has stopped |
| `RestartedMinersRun` | `MCFarmRestart.cfg` | miners made by a restart within an epoch get a job and no epoch context |
| `DagOfEpoch` | in `MCFarm.cfg`, with `Jobs <- MCJobsBack` | an epoch that comes back before the miner has loaded the one between leaves it with the DAG of the other |
| `VoidWhilePaused` | in `MCFarm.cfg` | a job is stored after the pause that should void it ("Void work if this miner is paused", `Miner.cpp:38`) |
| `ResumesWithEpoch` | in `MCFarm.cfg` | a miner suspended for want of memory gets no job of the next epoch, so it does not "resume mining when changing coin or epoch" (`CUDAMiner.cpp:127`) |
| `WorkTimeoutHeld` | in `MCNetwork.cfg` | a node that stops answering is never left: the timeout for work is looked at only when an answer comes |
| `DisconnectHasSession` | in `MCNetwork.cfg` | `disconnect()` of a client that has no session yet, or no more, reads its duration through a null pointer |
| `WaitsForMore` | in `MCNetwork.cfg` | a fragment of less than 4 bytes ends the reading, instead of "Wait for other data to come in" (`ApiServer.cpp:779`) |
| `ReadOnlyChangesNothing` | in `MCNetwork.cfg` | `miner_shuffle`, documented as write protected, is done by a read-only server |
| `HandlersFindConnection` | in `MCNetwork.cfg` | a connection object is destroyed with operations in flight |
| `WritesInTurn` | in `MCNetwork.cfg` | two requests of one read start two writes on one buffer |
| `DagIsOfEpoch` | `MCGpuDag.cfg` | a program compiled ahead, with the sizes of the epoch before, generates the DAG |
| `KernelOfPeriod` | in `MCGpu.cfg` | after a skipped block the CUDA kernel of another period is launched |
| `SuspendedIsIdle`, `ClSuspendedIsIdle` | in `MCGpu.cfg` | a miner that pauses for want of memory or a failed DAG goes on to search the job it has already taken |
| `MinerSurvives`, `SuspendedSurvives` | in `MCGpu.cfg` | a failed compilation or a DAG that could not be made ends the thread or the process with the next launch |
| `ReportIsOfBatch` | in `MCGpu.cfg`, with `Wrap = 2` | the option check accepts `--cu-block-size 512`, which the help (32 to 256) excludes; with 64 streams or more and the largest grid the product wraps and solutions are reported with wrong nonces |
| `DestroyedInPeace` | in `MCGpu.cfg` | a miner is destroyed while its compile thread is still joinable |
| `UriHostPresent` | in `MCStartup.cfg`, with `URISchemes <- NoScheme` | an address without a host is accepted |
| `UriTicksConvey` | in `MCStartup.cfg` | a "+" between back ticks becomes a blank, while `docs/POOL_EXAMPLES_ETH.md` promises the same result as with encoding |
| `BootTstopBelowTstart`, `HelpSuspends` | in `MCStartup.cfg` | the help gives `--tstart` and `--tstop` the meaning of the other: the code suspends at `tstop` and demands that it be the greater |
| `HelpResumes` | in `MCStartup.cfg` | a sensor that cannot be read counts as 0 degrees and resumes an overheated miner |
| `HeatMonitorFindsCard` | in `MCStartup.cfg` | a card whose PCI device number is not 0 has another text in the monitor than in the miner, and goes unmonitored |

Some more are exceptions that the properties name. An answer of a getwork node
without a result stops the polling, and with it the timeout for work. An accept
thread that runs before `start()` has set `m_running` ends at once, and the server
accepts nobody. The compact sizes 11 and 19 make the decoder of `libcrypto` shift a
64-bit limb by 64 (`hash_types.hpp:164`), which C++ leaves undefined: `SameTarget`
excepts them. For the bound 2 the search of the largest prime returns 1, against
`ethash.hpp:99-100`; no epoch asks for it. A bracketed IPv6 host is taken for a name
that has to be resolved (`PoolURI.hostType`).

## Not modelled

- Code that is not compiled: `ethash_cuda_miner_kernel.cu`, `dagger_shuffled.cuh`,
  `keccak.cuh`, `libethash-cl/kernels/cl`. Third-party headers (`cl2.hpp`).
- The hash of the old ethash algorithm (`ethash.cpp` 198-243 and 423-460): none of
  the miners computes it.
- The statistics of the API (`ApiServer.cpp` 957-1272) and the help texts and
  tables of `main.cpp`: formatting of what the models hold.
- `CommonData`, `FixedHash`, `uint256`, `utilstrencodings`: conversions of texts
  without shared state, used by the models as what they convert. `Log`.
- Fans and power are read like the temperature and only shown.
- Verification of certificates; allocation and copying on a device, except that
  they may fail.
- A pause by the API that overlaps a stop by the main thread (`CPUMiner`); the order
  in which drivers number cards is an input, not derived.
