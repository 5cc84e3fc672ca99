---------------------------- MODULE MCGpuHandoff ----------------------------
(* A small instance of GpuHandoff, with the SIGTERM that MCTraining leaves *)
(* out.                                                                    *)
EXTENDS GpuHandoff

CONSTANTS w1, w2

MCWorkers == {w1, w2}

AllFaults == HandoffFaultKinds
=============================================================================
