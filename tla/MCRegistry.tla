----------------------------- MODULE MCRegistry -----------------------------
(* Small instances of Registry.                                            *)
EXTENDS Registry, TLC

CONSTANTS v1, v2, v3, r1, r2, r3, main, stage

MCVersions == {v1, v2}
MCThreeVersions == {v1, v2, v3}
MCRequests == {r1, r2}
MCThreeRequests == {r1, r2, r3}
MCHosts == {main, stage}

\* VLLM_URL_BY_ENV names a host for staging only.
StagingApart == [e \in Environments |-> IF e = "staging" THEN stage ELSE main]

\* VLLM_URL_BY_ENV is empty, its default: every environment is the same host.
SharedHost == [e \in Environments |-> main]

NoFaults == {}
AllFaults == FaultKinds

Symmetry == Permutations(MCVersions) \cup Permutations(MCRequests)
=============================================================================
