----------------------------- MODULE MCCPUMiner -----------------------------
(* An instance of CPUMiner with three jobs, one of another algorithm.       *)
EXTENDS CPUMiner

CONSTANTS j1, j2, j3, heat, api

MCJobs == {j1, j2, j3}
MCUnsupported == {j3}
MCReasons == {heat, api}

=============================================================================
