------------------------------- MODULE MCGpu -------------------------------
(* The two kinds of GPU miner, each in behaviours of its own.               *)
EXTENDS CUDAMiner

CONSTANT Headers

ASSUME GpuAssumption == Headers \subseteq Nat /\ None \notin Nat

JobsOf == [s \in Scopes |-> 2]

VARIABLES cl, thread, feed, device

gpuVars == <<m, loop, farm, cl, thread, feed, device>>

OpenCL == INSTANCE CLMiner

Init ==
    /\ device \in {"CUDA", "OpenCL"}
    /\ CudaInit /\ OpenCL!ClInit /\ feed.scope = farm.scope

cudaStep == device = "CUDA" /\ CudaNext /\ UNCHANGED <<cl, thread, feed, device>>
clStep == device = "OpenCL" /\ OpenCL!ClNext /\ UNCHANGED <<m, loop, farm, device>>

\* the threads of the device that is there run
Spec == Init /\ [][cudaStep \/ clStep]_gpuVars
        /\ (device = "CUDA" => CudaFairness)
        /\ (device = "OpenCL" => OpenCL!ClFairness)

\* Both miners are well formed.
TypeOK == CudaTypeOK /\ OpenCL!ClTypeOK

\* What a device reports was found by the kernel it ran, for the job and the
\* nonces it is reported for, although other batches run meanwhile.
ReportIsOfWork == ReportIsOfBatch /\ OpenCL!ReportIsOfRound

\* The kernel that runs is of the period of its job, has its arguments, and
\* reads the DAG of the epoch of its job.
RunsOnItsData ==
    /\ KernelFits /\ DagOfJob
    /\ OpenCL!KernelOfJob /\ OpenCL!ClDagOfJob

\* The work a miner holds is mined sooner or later, on either kind of device.
WorkIsMined == WorkIsSearched /\ OpenCL!WorkIsLaunched

\* The DAG an OpenCL kernel reads was generated with the sizes of its epoch.
DagIsOfEpoch == OpenCL!DagIsOfEpoch

\* The expectations about a suspended OpenCL miner that are not met.
SuspendedSurvives == OpenCL!SuspendedSurvives
ClSuspendedIsIdle == OpenCL!ClSuspendedIsIdle

=============================================================================
